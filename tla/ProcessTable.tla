---------------------------- MODULE ProcessTable ----------------------------
(***************************************************************************)
(* The process table of app/collectors/processes.py.  A pass runs in an    *)
(* executor thread while the kernel forks, runs and reaps processes and    *)
(* reuses their pids; a pass whose request was cancelled goes on beside    *)
(* the next one, and both replace the samples of the CPU counters.         *)
(*                                                                         *)
(* One clock tick is one second and one CPU tick (_CLK_TCK = 1); a         *)
(* percentage is rounded down to a whole number.                           *)
(***************************************************************************)
EXTENDS Naturals, Sequences, FiniteSets, FiniteSetsExt, TLC

CONSTANTS
  Pids,       (* pids of the node, in the order /proc lists them              *)
  Mortal,     (* model bound: pids whose process exits                        *)
  Threads,    (* executor threads that may be in a pass at the same time      *)
  Sizes,      (* mem_percent a process can have                               *)
  TopMem,     (* _TOP_BY_MEM                                                  *)
  TopCpu,     (* _TOP_BY_CPU                                                  *)
  MaxTime,    (* model bound: seconds the node is up                          *)
  MaxPasses   (* model bound: passes begun                                    *)

ASSUME TableAssumption ==
  Pids \subseteq Nat /\ Mortal \subseteq Pids /\ Sizes \subseteq Nat /\ TopMem \in Nat /\ TopCpu \in Nat
  /\ MaxTime \in Nat /\ MaxPasses \in Nat

VARIABLES
  clock,        (* seconds since boot, and time.monotonic()                    *)
  proc,         (* pid -> the process that has it, or NoProcess                *)
  lastStart,    (* pid -> when it was last taken                               *)
  prevSamples,  (* _prev_samples                                               *)
  pass,         (* thread -> the locals of _collect_processes_sync             *)
  begun,        (* passes begun                                                *)
  shown         (* the table returned last                                     *)

kernel == <<clock, proc, lastStart>>
vars == <<kernel, prevSamples, pass, begun, shown>>

NoProcess == [start |-> 0, ticks |-> 0]
Alive(p) == proc[p] # NoProcess
NoSamples == [k \in {} |-> 0]
NoRow == [pid |-> 0]
Idle == [pc |-> "idle", uptime |-> 0, now |-> 0, prev |-> NoSamples, left |-> {},
         samples |-> NoSamples, row |-> NoRow, rows |-> <<>>]

Init ==
  /\ clock = 1
  /\ proc = [p \in Pids |-> [start |-> 1, ticks |-> 0]]
  /\ lastStart = [p \in Pids |-> 1]
  /\ prevSamples = NoSamples
  /\ pass = [t \in Threads |-> Idle]
  /\ begun = 0 /\ shown = <<>>

-----------------------------------------------------------------------------
(* The kernel.                                                               *)

Tick ==
  /\ clock < MaxTime
  /\ clock' = clock + 1
  /\ \E busy \in SUBSET {p \in Pids : Alive(p)} :
       proc' = [p \in Pids |-> IF p \in busy THEN [proc[p] EXCEPT !.ticks = @ + 1] ELSE proc[p]]
  /\ UNCHANGED <<lastStart, prevSamples, pass, begun, shown>>

\* A pid comes round again later than the clock's resolution.
Fork(p) ==
  /\ ~Alive(p) /\ lastStart[p] < clock
  /\ proc' = [proc EXCEPT ![p] = [start |-> clock, ticks |-> 0]]
  /\ lastStart' = [lastStart EXCEPT ![p] = clock]
  /\ UNCHANGED <<clock, prevSamples, pass, begun, shown>>

Exit(p) ==
  /\ Alive(p)
  /\ proc' = [proc EXCEPT ![p] = NoProcess]
  /\ UNCHANGED <<clock, lastStart, prevSamples, pass, begun, shown>>

-----------------------------------------------------------------------------
(* CPU usage of one process.                                                 *)

Share(ticks, seconds) == (100 * ticks) \div seconds

\* Mutant: samples are kept by pid alone.
KeyPid(pid, start) == <<pid, 0>>

Key(pid, start) == <<pid, start>>

\* Mutant: a later pass is needed to have counted more.
AgainstMore(pid, seen, now, prev) ==
  {prev[k] : k \in {k \in DOMAIN prev : /\ k = Key(pid, seen.start)
                                        /\ now > prev[k].now
                                        /\ seen.ticks > prev[k].ticks}}

\* The earlier sample _cpu_percent measures against: none (the empty set), or one
\* that is older and counts no more.
Against(pid, seen, now, prev) ==
  {prev[k] : k \in {k \in DOMAIN prev : /\ k = Key(pid, seen.start)
                                        /\ now > prev[k].now
                                        /\ seen.ticks >= prev[k].ticks}}

\* _cpu_percent
CpuPercent(seen, uptime, now, against) ==
  IF against # {}
  THEN LET sample == CHOOSE s \in against : TRUE
       IN  Share(seen.ticks - sample.ticks, now - sample.now)
  ELSE IF uptime <= seen.start THEN 0
  ELSE Share(seen.ticks, uptime - seen.start)

-----------------------------------------------------------------------------
(* A pass.                                                                   *)

\* /proc/uptime is read, or cannot be read and the table is empty; then the samples
\* of the pass before are picked up.
Begin(t) ==
  /\ pass[t].pc = "idle" /\ begun < MaxPasses
  /\ begun' = begun + 1
  /\ \/ /\ shown' = <<>>
        /\ UNCHANGED pass
     \/ /\ pass' = [pass EXCEPT ![t] = [Idle EXCEPT !.pc = "list", !.uptime = clock,
                                                    !.prev = prevSamples]]
        /\ UNCHANGED shown
  /\ UNCHANGED <<kernel, prevSamples>>

\* time.monotonic(), then _list_pids_sync, which finds nothing when it fails.
List(t) ==
  /\ pass[t].pc = "list"
  /\ \E left \in {{p \in Pids : Alive(p)}, {}} :
       pass' = [pass EXCEPT ![t].pc = "stat", ![t].now = clock, ![t].left = left]
  /\ UNCHANGED <<kernel, prevSamples, begun, shown>>

With(samples, k, sample) ==
  [l \in DOMAIN samples \cup {k} |-> IF l = k THEN sample ELSE samples[l]]

\* /proc/<pid>/stat: a process that is gone is skipped, any other is sampled.
Stat(t) ==
  /\ pass[t].pc = "stat" /\ pass[t].left # {}
  /\ LET me == pass[t]
         p == Min(me.left)
         seen == proc[p]
         against == Against(p, seen, me.now, me.prev)
     IN  pass' = [pass EXCEPT ![t] =
           IF ~Alive(p) THEN [me EXCEPT !.left = me.left \ {p}]
           ELSE [me EXCEPT
             !.pc = "status", !.left = me.left \ {p},
             !.samples = With(me.samples, Key(p, seen.start),
                              [ticks |-> seen.ticks, now |-> me.now, start |-> seen.start]),
             !.row = [pid |-> p, start |-> seen.start, ticks |-> seen.ticks,
                      against |-> against,
                      cpu |-> CpuPercent(seen, me.uptime, me.now, against)]]]
  /\ UNCHANGED <<kernel, prevSamples, begun, shown>>

\* /proc/<pid>/status and cmdline: of the process that has the pid by now; the row
\* of one that is gone is listed without memory.
Status(t) ==
  /\ pass[t].pc = "status"
  /\ LET row == pass[t].row
     IN  \E mem \in IF Alive(row.pid) THEN Sizes ELSE {0} :
           pass' = [pass EXCEPT ![t].pc = "stat", ![t].row = NoRow,
                      ![t].rows = Append(@, [pid |-> row.pid, mem |-> mem, cpu |-> row.cpu])]
  /\ UNCHANGED <<kernel, prevSamples, begun, shown>>

\* sorted: the rows with the larger measure first, equal ones as they were taken.
Ahead(rows, measure, i, j) ==
  \/ rows[i][measure] > rows[j][measure]
  \/ rows[i][measure] = rows[j][measure] /\ i < j

Place(rows, measure, S, i) == Cardinality({j \in S : Ahead(rows, measure, j, i)})

Sorted(rows, measure, S) ==
  [n \in 1..Cardinality(S) |-> rows[CHOOSE i \in S : Place(rows, measure, S, i) = n - 1]]

Largest(rows, measure, n) == {i \in DOMAIN rows : Place(rows, measure, DOMAIN rows, i) < n}

\* Mutant: the heaviest processes only.
TopRowsMem(rows) == Sorted(rows, "mem", Largest(rows, "mem", TopMem))

\* The heaviest processes, then the busiest that are not among them.
TopRows(rows) ==
  LET heavy == Largest(rows, "mem", TopMem)
      kept == {rows[i].pid : i \in heavy}
      busy == {i \in Largest(rows, "cpu", TopCpu) : rows[i].pid \notin kept}
  IN  Sorted(rows, "mem", heavy) \o Sorted(rows, "cpu", busy)

\* Mutant: the samples are added to those of the pass before.
NextSamplesAll(t) == pass[t].samples @@ prevSamples

NextSamples(t) == pass[t].samples

End(t) ==
  /\ pass[t].pc = "stat" /\ pass[t].left = {}
  /\ prevSamples' = NextSamples(t)
  /\ shown' = TopRows(pass[t].rows)
  /\ pass' = [pass EXCEPT ![t] = Idle]
  /\ UNCHANGED <<kernel, begun>>

Next ==
  \/ Tick
  \/ \E p \in Mortal : Fork(p) \/ Exit(p)
  \/ \E t \in Threads : Begin(t) \/ List(t) \/ Stat(t) \/ Status(t) \/ End(t)

Spec == Init /\ [][Next]_vars

-----------------------------------------------------------------------------
\* "a recycled PID is treated as a new process": usage since an earlier pass is
\* measured against a sample of the same process, taken before, whichever pass
\* replaced the samples meanwhile.
OwnDelta ==
  \A t \in Threads : pass[t].pc = "status" =>
    \A sample \in pass[t].row.against :
      /\ sample.start = pass[t].row.start
      /\ sample.now < pass[t].now /\ sample.ticks <= pass[t].row.ticks

\* The counters never go backwards and no pass is measured against a later one: a
\* sample of the process is only passed over when the clock did not move.
NoSampleRefused ==
  \A t \in Threads : pass[t].pc = "status" =>
    LET k == Key(pass[t].row.pid, pass[t].row.start)
    IN  k \in DOMAIN pass[t].prev =>
          pass[t].row.against # {} \/ pass[t].prev[k].now = pass[t].now

\* "it cannot grow past the live process count": no pid has two samples.
OneSamplePerPid ==
  \A k, l \in DOMAIN prevSamples : k[1] = l[1] => k = l

\* "a memory-only cut dropped exactly the CPU hogs": when a pass ends, a process that
\* is not in the table was outdone in memory by TopMem and in CPU by TopCpu of it, and
\* no pid is in it twice.
BusiestListed ==
  [][\A t \in Threads : pass[t].pc = "stat" /\ pass'[t].pc = "idle" =>
       /\ \A i, j \in DOMAIN shown' : shown'[i].pid = shown'[j].pid => i = j
       /\ \A n \in DOMAIN pass[t].rows :
            LET r == pass[t].rows[n]
            IN  \/ \E i \in DOMAIN shown' : shown'[i] = r
                \/ /\ Cardinality({i \in DOMAIN shown' : shown'[i].mem >= r.mem}) >= TopMem
                   /\ Cardinality({i \in DOMAIN shown' : shown'[i].cpu >= r.cpu}) >= TopCpu]_vars
=============================================================================
