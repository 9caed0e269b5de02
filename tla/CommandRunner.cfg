\* Two callers, one drive and one command that forks.
SPECIFICATION FairSpec
CONSTANTS
  Callers = {c1, c2}
  Commands = {smartctl, nsenter}
  Guarded = {smartctl}
  Forking = {nsenter}
  Pids = {p1, p2}
  NoPid = NoPid
  NoCommand = NoCommand
  NoCaller = NoCaller
INVARIANTS NoPileUp PipesReleased KilledOnReturn
PROPERTY CallReturns
