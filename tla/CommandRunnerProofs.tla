------------------------- MODULE CommandRunnerProofs -------------------------
(***************************************************************************)
(* What run_command and the SMART probe guarantee for any callers,         *)
(* commands and pids: no drive collects a caller's smartctl processes, no  *)
(* pipe outlives its call, and nothing runs on that was not killed.        *)
(***************************************************************************)
EXTENDS CommandRunner, TLAPS

\* A caller holds a child exactly while it communicates with it or reaps it, and
\* no child is held by two callers.
HoldInv ==
  /\ \A c \in Callers : pid[c] \in Pids <=> pc[c] \in {"communicate", "reap"}
  /\ \A c, d \in Callers : pid[c] \in Pids /\ pid[c] = pid[d] => c = d

\* From its timeout on, what runs of a group was sent SIGKILL or spared, so the
\* child forks no more helpers.
ReapInv ==
  \A c \in Callers : pc[c] = "reap" =>
    /\ leader[pid[c]] = "run" => killed[pid[c]] = "sent"
    /\ helper[pid[c]] => killed[pid[c]] \in {"sent", "spared"}

\* A smartctl of the caller's own for the drive it is about to probe.
Own(c, p) == leader[p] = "run" /\ owner[p] = c /\ argv[p] = cmd[c] /\ cmd[c] \in Guarded

\* While /proc is scanned, such a process is among those not read yet; once the
\* scan is over there is none.
ScanInv ==
  \A c \in Callers, p \in Pids :
    /\ pc[c] = "scan" /\ Own(c, p) => p \in listed[c]
    /\ pc[c] = "launch" => ~Own(c, p)

Inv == TypeOK /\ HoldInv /\ ReapInv /\ ScanInv /\ NoPileUp /\ PipesReleased /\ KilledOnReturn

LEMMA InitInv == Init => Inv
  BY CommandsAssumption
  DEF Init, Inv, TypeOK, HoldInv, ReapInv, ScanInv, Own, NoPileUp, PipesReleased,
      KilledOnReturn

-----------------------------------------------------------------------------
(* The kernel's steps.                                                       *)

LEMMA StutterKeeps == ASSUME Inv, UNCHANGED vars PROVE Inv'
  BY DEF Inv, TypeOK, HoldInv, ReapInv, ScanInv, Own, NoPileUp, PipesReleased,
         KilledOnReturn, Attended, vars, procs, calls

LEMMA HangKeeps ==
  ASSUME Inv, NEW k \in Commands, Hang(k) \/ Recover(k) PROVE Inv'
  BY CommandsAssumption
  DEF Hang, Recover, Inv, TypeOK, HoldInv, ReapInv, ScanInv, Own, NoPileUp, PipesReleased,
      KilledOnReturn, Attended, procs, calls

LEMMA ForkKeeps ==
  ASSUME Inv, NEW p \in Pids, Fork(p) PROVE Inv'
<1> USE DEF Fork, calls
<1>1. TypeOK'
  BY DEF Inv, TypeOK
<1>2. HoldInv' /\ PipesReleased'
  BY DEF Inv, HoldInv, PipesReleased, Attended
<1>3. ScanInv' /\ NoPileUp'
  BY DEF Inv, ScanInv, Own, NoPileUp
<1>4. ReapInv'
  BY DEF Inv, TypeOK, HoldInv, ReapInv
<1>5. KilledOnReturn'
  BY DEF Inv, TypeOK, KilledOnReturn, Attended
<1> QED BY <1>1, <1>2, <1>3, <1>4, <1>5 DEF Inv

LEMMA LeaderExitsKeeps ==
  ASSUME Inv, NEW p \in Pids, LeaderExits(p) PROVE Inv'
<1> USE DEF LeaderExits, calls
<1>1. TypeOK'
  BY DEF Inv, TypeOK
<1>2. HoldInv' /\ PipesReleased'
  BY DEF Inv, HoldInv, PipesReleased, Attended
<1>3. ScanInv' /\ NoPileUp'
  BY DEF Inv, TypeOK, ScanInv, Own, NoPileUp
<1>4. ReapInv'
  BY DEF Inv, TypeOK, HoldInv, ReapInv
<1>5. KilledOnReturn'
  BY DEF Inv, TypeOK, KilledOnReturn, Attended
<1> QED BY <1>1, <1>2, <1>3, <1>4, <1>5 DEF Inv

LEMMA HelperExitsKeeps ==
  ASSUME Inv, NEW p \in Pids, HelperExits(p) PROVE Inv'
<1> USE DEF HelperExits, Dropped, Alive, calls
<1>1. TypeOK'
  BY DEF Inv, TypeOK
<1>2. HoldInv' /\ PipesReleased'
  BY DEF Inv, HoldInv, PipesReleased, Attended
<1>3. ScanInv' /\ NoPileUp'
  BY DEF Inv, TypeOK, ScanInv, Own, NoPileUp
<1>4. ReapInv'
  BY DEF Inv, TypeOK, HoldInv, ReapInv
<1>5. KilledOnReturn'
  BY DEF Inv, TypeOK, KilledOnReturn, Attended
<1> QED BY <1>1, <1>2, <1>3, <1>4, <1>5 DEF Inv

LEMMA WatchKeeps ==
  ASSUME Inv, NEW p \in Pids, Watch(p) PROVE Inv'
<1> USE DEF Watch, Dropped, calls
<1>1. TypeOK'
  BY DEF Inv, TypeOK
<1>2. HoldInv' /\ PipesReleased'
  BY DEF Inv, HoldInv, PipesReleased, Attended
<1>3. ScanInv' /\ NoPileUp'
  BY DEF Inv, TypeOK, ScanInv, Own, NoPileUp
<1>4. ReapInv'
  BY DEF Inv, TypeOK, HoldInv, ReapInv
<1>5. KilledOnReturn'
  BY DEF Inv, TypeOK, KilledOnReturn, Attended
<1> QED BY <1>1, <1>2, <1>3, <1>4, <1>5 DEF Inv

-----------------------------------------------------------------------------
(* The callers' steps before there is a child.                               *)

\* A caller without a child that returns changes nothing of the processes.
LEMMA EarlyReturnKeeps ==
  ASSUME Inv, NEW c \in Callers, pc[c] \in {"list", "scan", "launch", "blind"}, Returns(c),
         UNCHANGED <<hung, procs>>
  PROVE  Inv'
<1> USE CommandsAssumption DEF Returns, procs
<1>1. TypeOK'
  BY DEF Inv, TypeOK
<1>2. pid' = pid
  BY DEF Inv, TypeOK, HoldInv
<1>3. HoldInv' /\ PipesReleased'
  BY <1>2 DEF Inv, TypeOK, HoldInv, PipesReleased, Attended
<1>4. ScanInv' /\ NoPileUp'
  BY DEF Inv, TypeOK, ScanInv, Own, NoPileUp
<1>5. ReapInv' /\ KilledOnReturn'
  BY <1>2 DEF Inv, TypeOK, ReapInv, KilledOnReturn, Attended
<1> QED BY <1>1, <1>3, <1>4, <1>5 DEF Inv

LEMMA CallKeeps ==
  ASSUME Inv, NEW c \in Callers, NEW k \in Commands, Call(c, k) PROVE Inv'
<1> USE DEF Call, FirstStep, procs
<1>1. TypeOK'
  BY DEF Inv, TypeOK
<1>2. HoldInv' /\ PipesReleased'
  BY DEF Inv, TypeOK, HoldInv, PipesReleased, Attended
<1>3. ScanInv' /\ NoPileUp'
  BY DEF Inv, TypeOK, ScanInv, Own, NoPileUp
<1>4. ReapInv' /\ KilledOnReturn'
  BY DEF Inv, TypeOK, ReapInv, KilledOnReturn, Attended
<1> QED BY <1>1, <1>2, <1>3, <1>4 DEF Inv

\* The scan: what it lists contains every smartctl of the caller's own, what it
\* passes over is none.
LEMMA ScanKeeps ==
  ASSUME Inv, NEW c \in Callers,
         List(c) \/ ListFails(c) \/ Scanned(c) \/ \E p \in Pids : ReadOther(c, p)
  PROVE  Inv'
<1> USE DEF List, ListFails, Scanned, ReadOther, Matches, Alive, procs
<1>1. TypeOK'
  BY DEF Inv, TypeOK
<1>2. HoldInv' /\ PipesReleased'
  BY DEF Inv, TypeOK, HoldInv, PipesReleased, Attended
<1>3. NoPileUp'
  BY DEF Inv, NoPileUp
<1>4. ScanInv'
  BY DEF Inv, TypeOK, ScanInv, Own
<1>5. ReapInv' /\ KilledOnReturn'
  BY DEF Inv, TypeOK, ReapInv, KilledOnReturn, Attended
<1> QED BY <1>1, <1>2, <1>3, <1>4, <1>5 DEF Inv

-----------------------------------------------------------------------------
(* The callers' steps with a child.                                          *)

LEMMA LaunchKeeps ==
  ASSUME Inv, NEW c \in Callers, NEW p \in Pids, Launch(c, p) PROVE Inv'
<1> USE CommandsAssumption DEF Launch
<1>1. cmd[c] \in Commands \cup {NoCommand} /\ TypeOK'
  BY DEF Inv, TypeOK
<1>2. leader[p] = "none" /\ ~helper[p] /\ \A d \in Callers : pid[d] # p
  BY DEF Free, Alive, Attended
<1>3. HoldInv'
  BY <1>2 DEF Inv, TypeOK, HoldInv
<1>4. PipesReleased'
  BY <1>2 DEF Inv, TypeOK, HoldInv, PipesReleased, Attended
<1>5. ReapInv'
  BY <1>2 DEF Inv, TypeOK, HoldInv, ReapInv
<1>6. ScanInv'
  BY <1>2 DEF Inv, TypeOK, ScanInv, Own
<1>7. NoPileUp'
  BY <1>2 DEF Inv, TypeOK, ScanInv, Own, NoPileUp
<1>8. KilledOnReturn'
  <2> SUFFICES ASSUME NEW q \in Pids, ~Attended(q)'
               PROVE  /\ leader'[q] = "run" => killed'[q] = "sent"
                      /\ helper'[q] => killed'[q] \in {"sent", "spared"}
    BY DEF KilledOnReturn
  <2>1. q # p /\ ~Attended(q)
    BY DEF Inv, TypeOK, HoldInv, Attended
  <2> QED BY <2>1 DEF Inv, TypeOK, KilledOnReturn
<1> QED BY <1>1, <1>3, <1>4, <1>5, <1>6, <1>7, <1>8 DEF Inv

LEMMA TimesOutKeeps ==
  ASSUME Inv, NEW c \in Callers, TimesOut(c) PROVE Inv'
<1> USE DEF TimesOut, KillGroup, Alive
<1>1. pid[c] \in Pids
  BY DEF Inv, HoldInv
<1>2. TypeOK'
  BY <1>1 DEF Inv, TypeOK
<1>3. HoldInv' /\ PipesReleased'
  BY DEF Inv, TypeOK, HoldInv, PipesReleased, Attended
<1>4. ScanInv' /\ NoPileUp'
  BY DEF Inv, TypeOK, ScanInv, Own, NoPileUp
<1>5. ReapInv'
  BY <1>1 DEF Inv, TypeOK, HoldInv, ReapInv
<1>6. KilledOnReturn'
  BY <1>1 DEF Inv, TypeOK, KilledOnReturn, Attended
<1> QED BY <1>2, <1>3, <1>4, <1>5, <1>6 DEF Inv

\* A caller lets go of its child: the pipes are closed and what is left of the
\* group was killed, before or now.
LEMMA ReleaseKeeps ==
  ASSUME Inv, NEW c \in Callers, pc[c] \in {"communicate", "reap"}, Returns(c),
         CloseTransport(pid[c]),
         UNCHANGED <<hung, argv, owner, leader, helper>>,
         killed' \in [Pids -> {"no", "sent", "spared"}],
         \A q \in Pids : q # pid[c] => killed'[q] = killed[q],
         leader[pid[c]] = "run" => killed'[pid[c]] = "sent",
         helper[pid[c]] => killed'[pid[c]] \in {"sent", "spared"}
  PROVE  Inv'
<1> USE CommandsAssumption DEF Returns, CloseTransport
<1>1. pid[c] \in Pids /\ \A d \in Callers : d # c => pid[d] # pid[c]
  BY DEF Inv, HoldInv
<1>2. TypeOK'
  BY <1>1 DEF Inv, TypeOK
<1>3. HoldInv'
  BY DEF Inv, TypeOK, HoldInv
<1>4. \A q \in Pids : q # pid[c] /\ Attended(q) => Attended(q)'
  BY DEF Inv, TypeOK, Attended
<1>5. PipesReleased'
  BY <1>1, <1>4 DEF Inv, TypeOK, PipesReleased
<1>6. ScanInv' /\ NoPileUp'
  BY DEF Inv, TypeOK, ScanInv, Own, NoPileUp
<1>7. ReapInv'
  BY <1>1 DEF Inv, TypeOK, HoldInv, ReapInv
<1>8. KilledOnReturn'
  BY <1>1, <1>4 DEF Inv, TypeOK, KilledOnReturn
<1> QED BY <1>2, <1>3, <1>5, <1>6, <1>7, <1>8 DEF Inv

LEMMA LateReturnKeeps ==
  ASSUME Inv, NEW c \in Callers, Finished(c) \/ ReapEnds(c) \/ CancelledLate(c)
  PROVE  Inv'
<1>1. ASSUME pc[c] \in {"communicate", "reap"} PROVE pid[c] \in Pids
  BY <1>1 DEF Inv, HoldInv
<1>2. CASE Finished(c)
  BY <1>1, <1>2, ReleaseKeeps DEF Finished, Alive, Inv, TypeOK, CloseTransport
<1>3. CASE ReapEnds(c)
  BY <1>1, <1>3, ReleaseKeeps DEF ReapEnds, Inv, TypeOK, ReapInv
<1>4. CASE CancelledLate(c)
  BY <1>1, <1>4, ReleaseKeeps DEF CancelledLate, KillGroup, Alive, Inv, TypeOK, ReapInv
<1> QED BY <1>2, <1>3, <1>4

-----------------------------------------------------------------------------
LEMMA StepKeeps == ASSUME Inv, Next PROVE Inv'
<1>1. CASE Kernel
  BY <1>1, HangKeeps, ForkKeeps, LeaderExitsKeeps, HelperExitsKeeps, WatchKeeps DEF Kernel
<1>2. ASSUME NEW c \in Callers, NEW k \in Commands, Call(c, k) PROVE Inv'
  BY <1>2, CallKeeps
<1>3. ASSUME NEW c \in Callers,
             CancelledEarly(c) \/ LaunchFails(c) \/ \E p \in Pids : ReadBusy(c, p)
      PROVE  Inv'
  BY <1>3, EarlyReturnKeeps DEF CancelledEarly, LaunchFails, ReadBusy
<1>4. ASSUME NEW c \in Callers, Steps(c) \/ CancelledLate(c) PROVE Inv'
  BY <1>3, <1>4, ScanKeeps, LaunchKeeps, TimesOutKeeps, LateReturnKeeps DEF Steps
<1> QED BY <1>1, <1>2, <1>3, <1>4 DEF Next

\* The inductive invariant holds of every state run_command and its callers reach.
THEOREM Invariant == Spec => []Inv
<1>1. Inv /\ [Next]_vars => Inv'
  BY StepKeeps, StutterKeeps
<1> QED BY <1>1, InitInv, PTL DEF Spec

\* For any callers, commands and pids, processes, pipes and calls stay well typed.
THEOREM RunnerTypeCorrect == Spec => []TypeOK
<1>1. Inv => TypeOK
  BY DEF Inv
<1> QED BY <1>1, Invariant, PTL

\* _still_running keeps the smartctl processes of a dead drive from piling up,
\* however many probes of however many drives overlap.
THEOREM NeverPilesUp == Spec => []NoPileUp
<1>1. Inv => NoPileUp
  BY DEF Inv
<1> QED BY <1>1, Invariant, PTL

\* _close_transport runs on every way out of run_command: no pipe outlives the call.
THEOREM PipesAreReleased == Spec => []PipesReleased
<1>1. Inv => PipesReleased
  BY DEF Inv
<1> QED BY <1>1, Invariant, PTL

\* Whatever a caller leaves running when it returns, times out or is cancelled was
\* sent SIGKILL, but for a helper whose parent was waited for first.
THEOREM NothingOrphaned == Spec => []KilledOnReturn
<1>1. Inv => KilledOnReturn
  BY DEF Inv
<1> QED BY <1>1, Invariant, PTL
=============================================================================
