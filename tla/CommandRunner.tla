---------------------------- MODULE CommandRunner ----------------------------
(***************************************************************************)
(* run_command (app/collectors/base.py): a child process in a process      *)
(* group of its own, its timeout, the kill of the group and the reaping;   *)
(* and the SMART probe (app/collectors/storage.py), which first looks in   *)
(* /proc for a smartctl that an earlier probe of the drive left behind.    *)
(*                                                                         *)
(* A caller is a coroutine that runs one command at a time: a probe, the   *)
(* sweep's coroutine for a drive, any other collector.  A process group is *)
(* known by the pid of its leader.  A command on a device that does not    *)
(* answer is in uninterruptible I/O: it cannot exit, killed or not.        *)
(***************************************************************************)
EXTENDS Naturals, FiniteSets

CONSTANTS
  Callers,   (* coroutines that call run_command                             *)
  Commands,  (* argument vectors                                             *)
  Guarded,   (* the smartctl commands, one per drive                         *)
  Forking,   (* commands that fork a helper into their group                 *)
  Pids,      (* model bound: process groups at one time                      *)
  NoPid, NoCommand, NoCaller

ASSUME CommandsAssumption ==
  /\ Guarded \subseteq Commands /\ Forking \subseteq Commands
  /\ NoPid \notin Pids /\ NoCommand \notin Commands /\ NoCaller \notin Callers

VARIABLES
  hung,     (* commands whose device does not answer                         *)
  argv,     (* pid -> command of the group                                   *)
  owner,    (* pid -> caller that started it, unless it could not look for   *)
            (* an earlier one (history)                                      *)
  leader,   (* pid -> state of the child; "none": its returncode is known    *)
  helper,   (* pid -> does something the child forked run                    *)
  killed,   (* pid -> what _kill_group did to the group                      *)
  pipes,    (* pid -> is our end of its pipes open                           *)
  pc,       (* caller -> the await it is suspended at                        *)
  cmd,      (* caller -> the command it runs                                 *)
  pid,      (* caller -> its child                                           *)
  listed    (* caller -> pids _still_running has listed and not read         *)

procs == <<argv, owner, leader, helper, killed, pipes>>
calls == <<pc, cmd, pid, listed>>
vars == <<hung, procs, calls>>

TypeOK ==
  /\ hung \subseteq Commands
  /\ argv \in [Pids -> Commands \cup {NoCommand}]
  /\ owner \in [Pids -> Callers \cup {NoCaller}]
  /\ leader \in [Pids -> {"none", "run", "zombie"}]
  /\ helper \in [Pids -> BOOLEAN]
  /\ killed \in [Pids -> {"no", "sent", "spared"}]
  /\ pipes \in [Pids -> BOOLEAN]
  /\ pc \in [Callers -> {"idle", "list", "scan", "launch", "blind", "communicate", "reap"}]
  /\ cmd \in [Callers -> Commands \cup {NoCommand}]
  /\ pid \in [Callers -> Pids \cup {NoPid}]
  /\ listed \in [Callers -> SUBSET Pids]

Init ==
  /\ hung = {}
  /\ argv = [p \in Pids |-> NoCommand]
  /\ owner = [p \in Pids |-> NoCaller]
  /\ leader = [p \in Pids |-> "none"]
  /\ helper = [p \in Pids |-> FALSE]
  /\ killed = [p \in Pids |-> "no"]
  /\ pipes = [p \in Pids |-> FALSE]
  /\ pc = [c \in Callers |-> "idle"]
  /\ cmd = [c \in Callers |-> NoCommand]
  /\ pid = [c \in Callers |-> NoPid]
  /\ listed = [c \in Callers |-> {}]

Attended(p) == \E c \in Callers : pid[c] = p
Alive(p) == leader[p] # "none"

\* A pid stays taken while it names a process, a group with a member left or a
\* child somebody waits for.
Free(p) == ~Alive(p) /\ ~helper[p] /\ ~pipes[p] /\ ~Attended(p)

-----------------------------------------------------------------------------
(* The kernel and the event loop's child watcher.                            *)

Hang(k) ==
  /\ k \in Guarded \ hung
  /\ hung' = hung \cup {k}
  /\ UNCHANGED <<procs, calls>>

Recover(k) ==
  /\ k \in hung
  /\ hung' = hung \ {k}
  /\ UNCHANGED <<procs, calls>>

Fork(p) ==
  /\ leader[p] = "run" /\ argv[p] \in Forking /\ ~helper[p]
  /\ killed[p] = "no"
  /\ helper' = [helper EXCEPT ![p] = TRUE]
  /\ UNCHANGED <<hung, argv, owner, leader, killed, pipes, calls>>

LeaderExits(p) ==
  /\ leader[p] = "run" /\ argv[p] \notin hung
  /\ leader' = [leader EXCEPT ![p] = "zombie"]
  /\ UNCHANGED <<hung, argv, owner, helper, killed, pipes, calls>>

\* What is known of a group is dropped with its last member.
Dropped(p) ==
  /\ argv' = [argv EXCEPT ![p] = NoCommand]
  /\ owner' = [owner EXCEPT ![p] = NoCaller]
  /\ killed' = [killed EXCEPT ![p] = "no"]

HelperExits(p) ==
  /\ helper[p] /\ argv[p] \notin hung
  /\ helper' = [helper EXCEPT ![p] = FALSE]
  /\ IF Alive(p) THEN UNCHANGED <<argv, owner, killed>> ELSE Dropped(p)
  /\ UNCHANGED <<hung, leader, pipes, calls>>

\* The child watcher waits for every child, its caller still there or not.
Watch(p) ==
  /\ leader[p] = "zombie"
  /\ leader' = [leader EXCEPT ![p] = "none"]
  /\ IF helper[p] THEN UNCHANGED <<argv, owner, killed>> ELSE Dropped(p)
  /\ UNCHANGED <<hung, helper, pipes, calls>>

-----------------------------------------------------------------------------
(* collect_smart_for_device, up to run_command.                              *)

Returns(c) ==
  /\ pc' = [pc EXCEPT ![c] = "idle"]
  /\ cmd' = [cmd EXCEPT ![c] = NoCommand]
  /\ pid' = [pid EXCEPT ![c] = NoPid]
  /\ listed' = [listed EXCEPT ![c] = {}]

\* Mutant: the drive's earlier smartctl is not looked for.
FirstStepBlind(k) == "launch"

\* A smartctl is looked for before it is started; other commands start at once.
FirstStep(k) == IF k \in Guarded THEN "list" ELSE "launch"

Call(c, k) ==
  /\ pc[c] = "idle"
  /\ pc' = [pc EXCEPT ![c] = FirstStep(k)]
  /\ cmd' = [cmd EXCEPT ![c] = k]
  /\ UNCHANGED <<hung, procs, pid, listed>>

\* _still_running, in a thread: os.listdir of /proc ...
List(c) ==
  /\ pc[c] = "list"
  /\ listed' = [listed EXCEPT ![c] = {p \in Pids : Alive(p)}]
  /\ pc' = [pc EXCEPT ![c] = "scan"]
  /\ UNCHANGED <<hung, procs, cmd, pid>>

\* ... which is taken for no process when it fails ...
ListFails(c) ==
  /\ pc[c] = "list"
  /\ pc' = [pc EXCEPT ![c] = "blind"]
  /\ UNCHANGED <<hung, procs, cmd, pid, listed>>

\* ... then cmdline and stat of each pid.  A zombie's cmdline is empty, a
\* process that is gone is skipped.
Matches(c, p) == leader[p] = "run" /\ argv[p] = cmd[c]

ReadOther(c, p) ==
  /\ pc[c] = "scan" /\ p \in listed[c]
  /\ ~Matches(c, p)
  /\ listed' = [listed EXCEPT ![c] = @ \ {p}]
  /\ UNCHANGED <<hung, procs, pc, cmd, pid>>

\* "A previous smartctl on this device is still running (device not responding)"
ReadBusy(c, p) ==
  /\ pc[c] = "scan" /\ p \in listed[c]
  /\ Matches(c, p)
  /\ Returns(c)
  /\ UNCHANGED <<hung, procs>>

Scanned(c) ==
  /\ pc[c] = "scan" /\ listed[c] = {}
  /\ pc' = [pc EXCEPT ![c] = "launch"]
  /\ UNCHANGED <<hung, procs, cmd, pid, listed>>

-----------------------------------------------------------------------------
(* run_command.                                                              *)

Launch(c, p) ==
  /\ pc[c] \in {"launch", "blind"} /\ Free(p)
  /\ argv' = [argv EXCEPT ![p] = cmd[c]]
  /\ owner' = [owner EXCEPT ![p] = IF pc[c] = "launch" THEN c ELSE NoCaller]
  /\ leader' = [leader EXCEPT ![p] = "run"]
  /\ pipes' = [pipes EXCEPT ![p] = TRUE]
  /\ pc' = [pc EXCEPT ![c] = "communicate"]
  /\ pid' = [pid EXCEPT ![c] = p]
  /\ UNCHANGED <<hung, helper, killed, cmd, listed>>

\* Command not found, or it failed to start.
LaunchFails(c) ==
  /\ pc[c] \in {"launch", "blind"}
  /\ Returns(c)
  /\ UNCHANGED <<hung, procs>>

\* communicate() ends when all who hold the pipes have exited and the child's
\* status is known.
Finished(c) ==
  /\ pc[c] = "communicate"
  /\ ~Alive(pid[c]) /\ ~helper[pid[c]]
  /\ pipes' = [pipes EXCEPT ![pid[c]] = FALSE]
  /\ Returns(c)
  /\ UNCHANGED <<hung, argv, owner, leader, helper, killed>>

\* Mutant: the group is not killed.
KillGroupNot(p) == UNCHANGED killed

\* _kill_group: nothing if the child's status is known, else SIGKILL for all.
KillGroup(p) ==
  killed' = [killed EXCEPT ![p] = IF Alive(p) THEN "sent"
                                  ELSE IF helper[p] /\ @ = "no" THEN "spared" ELSE @]

TimesOut(c) ==
  /\ pc[c] = "communicate"
  /\ KillGroup(pid[c])
  /\ pc' = [pc EXCEPT ![c] = "reap"]
  /\ UNCHANGED <<hung, argv, owner, leader, helper, pipes, cmd, pid, listed>>

\* Mutant: the transport is closed only if the child could be reaped.
CloseTransportReaped(p) ==
  pipes' = [pipes EXCEPT ![p] = @ /\ Alive(p)]

\* _close_transport releases our end of the pipes.
CloseTransport(p) == pipes' = [pipes EXCEPT ![p] = FALSE]

\* Mutant: wait for the child, however long that takes.
ReapEndsUnbounded(c) ==
  /\ pc[c] = "reap" /\ ~Alive(pid[c])
  /\ CloseTransport(pid[c])
  /\ Returns(c)
  /\ UNCHANGED <<hung, argv, owner, leader, helper, killed>>

\* The end of _reap: the child was waited for, or a second has passed.
ReapEnds(c) ==
  /\ pc[c] = "reap"
  /\ CloseTransport(pid[c])
  /\ Returns(c)
  /\ UNCHANGED <<hung, argv, owner, leader, helper, killed>>

\* The caller is cancelled: before it has a child ...
CancelledEarly(c) ==
  /\ pc[c] \in {"list", "scan", "launch", "blind"}
  /\ Returns(c)
  /\ UNCHANGED <<hung, procs>>

\* ... or with one, which is killed without waiting for it; in _reap it has
\* been killed already and the finally clause closes the transport.
CancelledLate(c) ==
  /\ pc[c] \in {"communicate", "reap"}
  /\ IF pc[c] = "communicate" THEN KillGroup(pid[c]) ELSE UNCHANGED killed
  /\ CloseTransport(pid[c])
  /\ Returns(c)
  /\ UNCHANGED <<hung, argv, owner, leader, helper>>

-----------------------------------------------------------------------------
Kernel ==
  \/ \E k \in Commands : Hang(k) \/ Recover(k)
  \/ \E p \in Pids : Fork(p) \/ LeaderExits(p) \/ HelperExits(p) \/ Watch(p)

Steps(c) ==
  \/ List(c) \/ ListFails(c) \/ Scanned(c)
  \/ \E p \in Pids : ReadOther(c, p) \/ ReadBusy(c, p) \/ Launch(c, p)
  \/ LaunchFails(c) \/ Finished(c) \/ TimesOut(c) \/ ReapEnds(c)

Next ==
  \/ Kernel
  \/ \E c \in Callers : \/ \E k \in Commands : Call(c, k)
                        \/ Steps(c)
                        \/ CancelledEarly(c) \/ CancelledLate(c)

Spec == Init /\ [][Next]_vars

\* The thread, the timers and the event loop go on; no process has to exit.
FairSpec == Spec /\ \A c \in Callers : WF_vars(Steps(c))

-----------------------------------------------------------------------------
\* "Launching another on every cache expiry only piles them up on the same dead
\* drive": of all smartctl processes a drive holds no two were started by the
\* same caller, so there are never more than probes that ran at the same time,
\* however often the drive is probed - as long as /proc can be listed.
NoPileUp ==
  \A p, q \in Pids :
    /\ p # q /\ argv[p] = argv[q] /\ argv[p] \in Guarded
    /\ leader[p] = "run" /\ leader[q] = "run" /\ owner[p] # NoCaller
    => owner[p] # owner[q]

\* "releases our end of the pipes instead of leaking them with every retry":
\* pipes are open only while their caller is inside run_command.
PipesReleased == \A p \in Pids : pipes[p] => Attended(p)

\* "don't orphan it": when a caller returns, what still runs of its group has been
\* sent SIGKILL, or is a helper whose parent had exited and been waited for before
\* the caller gave up (_kill_group returns early on a known returncode).
KilledOnReturn ==
  \A p \in Pids : ~Attended(p) =>
    /\ leader[p] = "run" => killed[p] = "sent"
    /\ helper[p] => killed[p] \in {"sent", "spared"}

\* "without blocking for long": every call returns, though the device may never
\* answer and the child never die.
CallReturns == \A c \in Callers : pc[c] # "idle" ~> pc[c] = "idle"
=============================================================================
