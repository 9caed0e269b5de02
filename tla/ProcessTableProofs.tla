------------------------- MODULE ProcessTableProofs -------------------------
(***************************************************************************)
(* What the process table guarantees for any number of processes, threads  *)
(* and passes: CPU usage is measured against a sample of the same process, *)
(* no usable sample is passed over, there is one sample per pid, and what  *)
(* the table leaves out was outdone by enough of what it lists.            *)
(***************************************************************************)
EXTENDS ProcessTable, FiniteSetTheorems, WellFoundedInduction, TLAPS

Keys == Pids \X Nat
Sample == [ticks : Nat, now : Nat, start : Nat]
Samples == UNION {[ks -> Sample] : ks \in SUBSET Keys}
Row == [pid : Pids, start : Nat, ticks : Nat, against : SUBSET Sample, cpu : Nat]
Listed == [pid : Pids, mem : Nat, cpu : Nat]
Pass == [pc : {"idle", "list", "stat", "status"}, uptime : Nat, now : Nat, prev : Samples,
         left : SUBSET Pids, samples : Samples, row : Row \cup {NoRow}, rows : Seq(Listed)]

TypeOK ==
  /\ clock \in Nat
  /\ proc \in [Pids -> [start : Nat, ticks : Nat]]
  /\ lastStart \in [Pids -> Nat]
  /\ prevSamples \in Samples
  /\ pass \in [Threads -> Pass]
  /\ begun \in Nat

\* A process has the pid since it was last taken, after the start of the clock.
KernelInv ==
  \A p \in Pids : /\ 1 <= lastStart[p] /\ lastStart[p] <= clock
                  /\ Alive(p) => proc[p].start = lastStart[p]

\* A sample is kept under the start time of its process.  If the process still runs it
\* has counted as much or more; a process that comes later has another key.
Sound(samples) ==
  \A k \in DOMAIN samples :
    /\ samples[k].start = k[2] /\ k[2] <= lastStart[k[1]]
    /\ Alive(k[1]) /\ proc[k[1]].start = k[2] => samples[k].ticks <= proc[k[1]].ticks
    /\ samples[k].now <= clock

OnePerPid(samples) == \A k, l \in DOMAIN samples : k[1] = l[1] => k = l

\* The samples a pass compares with were there before it began, those it takes are of
\* pids it has read.
PassInv(t) ==
  /\ Sound(pass[t].prev) /\ Sound(pass[t].samples) /\ OnePerPid(pass[t].samples)
  /\ \A k \in DOMAIN pass[t].samples : k[1] \notin pass[t].left
  /\ pass[t].pc \in {"idle", "list"} => DOMAIN pass[t].samples = {}
  /\ pass[t].pc \in {"stat", "status"} =>
       pass[t].now <= clock /\ \A k \in DOMAIN pass[t].prev : pass[t].prev[k].now <= pass[t].now
  /\ pass[t].pc = "status" => pass[t].row \in Row

Inv ==
  /\ TypeOK /\ KernelInv
  /\ Sound(prevSamples) /\ OneSamplePerPid
  /\ \A t \in Threads : PassInv(t)
  /\ OwnDelta /\ NoSampleRefused

-----------------------------------------------------------------------------
(* Operators.                                                                *)

\* What Min of FiniteSetsExt picks from the pids still to read.
LEMMA MinOfNat ==
  ASSUME NEW S \in SUBSET Nat, S # {}
  PROVE  Min(S) \in S
<1>1. IsWellFoundedOn(OpToRel(<, Nat), Nat)
  BY NatLessThanWellFounded
<1>2. PICK m \in S : \A y \in S : <<y, m>> \notin OpToRel(<, Nat)
  BY <1>1, WFMin
<1>3. \A y \in S : ~(y < m)
  BY <1>2 DEF OpToRel
<1>4. \A y \in S : m <= y
  BY <1>3
<1>5. QED
  BY <1>4 DEF Min

LEMMA SamplesType ==
  ASSUME NEW samples \in Samples
  PROVE  /\ DOMAIN samples \subseteq Keys
         /\ \A k \in DOMAIN samples : samples[k] \in Sample /\ k[1] \in Pids /\ k[2] \in Nat
  BY DEF Samples, Keys

LEMMA NoSamplesType == NoSamples \in Samples /\ DOMAIN NoSamples = {}
<1>1. NoSamples \in [{} -> Sample]
  BY DEF NoSamples
<1>2. QED
  BY <1>1 DEF Samples, NoSamples

LEMMA IdleType == Idle \in Pass
BY NoSamplesType DEF Idle, Pass

LEMMA WithType ==
  ASSUME NEW samples \in Samples, NEW k \in Keys, NEW sample \in Sample
  PROVE  /\ With(samples, k, sample) \in Samples
         /\ DOMAIN With(samples, k, sample) = DOMAIN samples \cup {k}
         /\ With(samples, k, sample)[k] = sample
         /\ \A l \in DOMAIN samples \ {k} : With(samples, k, sample)[l] = samples[l]
<1>1. With(samples, k, sample) \in [DOMAIN samples \cup {k} -> Sample]
  BY SamplesType DEF With
<1>2. DOMAIN samples \cup {k} \subseteq Keys
  BY SamplesType
<1>3. QED
  BY <1>1, <1>2 DEF Samples, With

LEMMA ShareType ==
  ASSUME NEW ticks \in Nat, NEW seconds \in Nat, seconds > 0
  PROVE  Share(ticks, seconds) \in Nat
  BY DEF Share

\* What _cpu_percent compares with is a sample of the process that is older and counts
\* no more.
LEMMA AgainstType ==
  ASSUME NEW prev \in Samples, NEW p \in Pids, NEW seen \in [start : Nat, ticks : Nat],
         NEW now \in Nat
  PROVE  \A sample \in Against(p, seen, now, prev) :
           sample \in Sample /\ sample.now < now /\ sample.ticks <= seen.ticks
  BY SamplesType DEF Against, Sample

LEMMA CpuPercentType ==
  ASSUME NEW seen \in [start : Nat, ticks : Nat], NEW uptime \in Nat, NEW now \in Nat,
         NEW against \in SUBSET Sample,
         \A sample \in against : sample.now < now /\ sample.ticks <= seen.ticks
  PROVE  CpuPercent(seen, uptime, now, against) \in Nat
<1>1. CASE against # {}
  <2>1. PICK sample \in against : sample = CHOOSE s \in against : TRUE
    BY <1>1
  <2>2. seen.ticks - sample.ticks \in Nat /\ now - sample.now \in Nat /\ now - sample.now > 0
    BY <2>1 DEF Sample
  <2>3. QED
    BY <1>1, <2>1, <2>2, ShareType DEF CpuPercent
<1>2. CASE against = {}
  <2>1. CASE uptime <= seen.start
    BY <1>2, <2>1 DEF CpuPercent
  <2>2. CASE ~(uptime <= seen.start)
    <3>1. uptime - seen.start \in Nat /\ uptime - seen.start > 0
      BY <2>2
    <3>2. QED
      BY <1>2, <2>2, <3>1, ShareType DEF CpuPercent
  <2>3. QED
    BY <2>1, <2>2
<1>3. QED
  BY <1>1, <1>2

-----------------------------------------------------------------------------
(* The kernel's steps.                                                       *)

\* Time passes, and a process that had its pid before still counts.
Later ==
  /\ clock <= clock'
  /\ \A p \in Pids :
       /\ lastStart[p] <= lastStart'[p]
       /\ Alive(p)' /\ proc'[p].start <= lastStart[p] =>
            Alive(p) /\ proc[p].start = proc'[p].start /\ proc[p].ticks <= proc'[p].ticks

LEMMA SoundLater ==
  ASSUME NEW samples \in Samples, Sound(samples), TypeOK, TypeOK', Later
  PROVE  \A k \in DOMAIN samples :
           /\ samples[k].start = k[2] /\ k[2] <= lastStart'[k[1]]
           /\ Alive(k[1])' /\ proc'[k[1]].start = k[2] => samples[k].ticks <= proc'[k[1]].ticks
           /\ samples[k].now <= clock'
<1> SUFFICES ASSUME NEW k \in DOMAIN samples
             PROVE  /\ samples[k].start = k[2] /\ k[2] <= lastStart'[k[1]]
                    /\ Alive(k[1])' /\ proc'[k[1]].start = k[2]
                         => samples[k].ticks <= proc'[k[1]].ticks
                    /\ samples[k].now <= clock'
  OBVIOUS
<1>1. samples[k].now \in Nat /\ samples[k].ticks \in Nat /\ k[1] \in Pids /\ k[2] \in Nat
  BY SamplesType DEF Sample
<1>2. /\ clock \in Nat /\ clock' \in Nat
      /\ lastStart[k[1]] \in Nat /\ lastStart'[k[1]] \in Nat
      /\ proc[k[1]].ticks \in Nat /\ proc'[k[1]].ticks \in Nat
  BY <1>1 DEF TypeOK
<1>3. /\ samples[k].start = k[2] /\ k[2] <= lastStart[k[1]] /\ samples[k].now <= clock
      /\ Alive(k[1]) /\ proc[k[1]].start = k[2] => samples[k].ticks <= proc[k[1]].ticks
  BY DEF Sound
<1>4. /\ clock <= clock' /\ lastStart[k[1]] <= lastStart'[k[1]]
      /\ Alive(k[1])' /\ proc'[k[1]].start <= lastStart[k[1]] =>
           /\ Alive(k[1]) /\ proc[k[1]].start = proc'[k[1]].start
           /\ proc[k[1]].ticks <= proc'[k[1]].ticks
  BY <1>1 DEF Later
<1>5. QED
  BY <1>1, <1>2, <1>3, <1>4

LEMMA KernelKeeps ==
  ASSUME Inv, TypeOK', KernelInv', Later, UNCHANGED <<prevSamples, pass>>
  PROVE  Inv'
<1>1. TypeOK
  BY DEF Inv
<1>2. Sound(prevSamples)'
  BY <1>1, SoundLater DEF Inv, TypeOK, Sound
<1>3. ASSUME NEW t \in Threads
      PROVE  PassInv(t)'
  <2>1. pass[t] \in Pass /\ pass[t].prev \in Samples /\ pass[t].samples \in Samples /\ PassInv(t)
    BY <1>1 DEF TypeOK, Pass, Inv
  <2>2. Sound(pass[t].prev)'
    BY <1>1, <2>1, SoundLater DEF PassInv, Sound
  <2>3. Sound(pass[t].samples)'
    BY <1>1, <2>1, SoundLater DEF PassInv, Sound
  <2>4. pass[t].now <= clock => pass[t].now <= clock'
    BY <1>1, <2>1 DEF TypeOK, Pass, Later
  <2>5. QED
    BY <2>1, <2>2, <2>3, <2>4 DEF PassInv, OnePerPid
<1>4. OneSamplePerPid' /\ OwnDelta' /\ NoSampleRefused'
  BY DEF Inv, OneSamplePerPid, OwnDelta, NoSampleRefused, Key
<1>5. QED
  BY <1>2, <1>3, <1>4 DEF Inv

LEMMA InitInv == Init => Inv
<1> SUFFICES ASSUME Init PROVE Inv
  OBVIOUS
<1>1. \A t \in Threads : pass[t] = Idle
  BY DEF Init
<1>2. Idle \in Pass
  BY IdleType
<1>3. TypeOK
  BY <1>2, NoSamplesType DEF Init, TypeOK
<1>4. KernelInv
  BY DEF Init, KernelInv
<1>5. Sound(NoSamples) /\ OnePerPid(NoSamples)
  BY NoSamplesType DEF Sound, OnePerPid
<1>6. \A t \in Threads : PassInv(t)
  BY <1>1, <1>5, NoSamplesType DEF PassInv, Idle
<1>7. OneSamplePerPid
  BY NoSamplesType DEF Init, OneSamplePerPid
<1>8. OwnDelta /\ NoSampleRefused
  BY <1>1 DEF OwnDelta, NoSampleRefused, Idle
<1>9. QED
  BY <1>3, <1>4, <1>5, <1>6, <1>7, <1>8 DEF Inv, Init

LEMMA TickKeeps == ASSUME Inv, Tick PROVE Inv'
<1>1. TypeOK /\ KernelInv
  BY DEF Inv
<1>2. PICK busy \in SUBSET {p \in Pids : Alive(p)} :
        proc' = [p \in Pids |-> IF p \in busy THEN [proc[p] EXCEPT !.ticks = @ + 1] ELSE proc[p]]
  BY DEF Tick
<1>3. clock' = clock + 1 /\ lastStart' = lastStart
  BY DEF Tick
<1>4. ASSUME NEW p \in Pids
      PROVE  /\ proc'[p] \in [start : Nat, ticks : Nat]
             /\ Alive(p)' => Alive(p)
             /\ proc'[p].start = proc[p].start /\ proc[p].ticks <= proc'[p].ticks
  <2>1. proc[p] \in [start : Nat, ticks : Nat]
    BY <1>1 DEF TypeOK
  <2>2. CASE p \in busy
    BY <1>2, <2>1, <2>2 DEF Alive
  <2>3. CASE p \notin busy
    BY <1>2, <2>1, <2>3 DEF Alive
  <2>4. QED
    BY <2>2, <2>3
<1>5. TypeOK'
  <2>1. proc' \in [Pids -> [start : Nat, ticks : Nat]]
    BY <1>2, <1>4
  <2>2. QED
    BY <1>1, <1>3, <2>1 DEF TypeOK, Tick
<1>6. KernelInv'
  BY <1>1, <1>3, <1>4 DEF KernelInv, TypeOK
<1>7. Later
  BY <1>1, <1>3, <1>4 DEF Later, TypeOK
<1>8. QED
  BY <1>5, <1>6, <1>7, KernelKeeps DEF Tick

LEMMA ForkKeeps == ASSUME Inv, NEW p \in Pids, Fork(p) PROVE Inv'
<1>1. TypeOK /\ KernelInv
  BY DEF Inv
<1>2. /\ lastStart[p] < clock /\ clock' = clock
      /\ proc' = [proc EXCEPT ![p] = [start |-> clock, ticks |-> 0]]
      /\ lastStart' = [lastStart EXCEPT ![p] = clock]
  BY DEF Fork
<1>3. TypeOK'
  BY <1>1, <1>2 DEF TypeOK, Fork
<1>4. /\ proc'[p].start = clock /\ lastStart'[p] = clock
      /\ \A q \in Pids \ {p} : proc'[q] = proc[q] /\ lastStart'[q] = lastStart[q]
  BY <1>1, <1>2 DEF TypeOK
<1>5. \A q \in Pids : lastStart[q] \in Nat /\ clock \in Nat
  BY <1>1 DEF TypeOK
<1>6. KernelInv'
  BY <1>1, <1>2, <1>4, <1>5 DEF KernelInv, Alive
<1>7. ASSUME NEW q \in Pids
      PROVE  /\ lastStart[q] <= lastStart'[q]
             /\ Alive(q)' /\ proc'[q].start <= lastStart[q] =>
                  Alive(q) /\ proc[q].start = proc'[q].start /\ proc[q].ticks <= proc'[q].ticks
  <2>1. CASE q = p
    BY <1>2, <1>4, <1>5, <2>1
  <2>2. CASE q # p
    BY <1>1, <1>4, <1>5, <2>2 DEF Alive, TypeOK
  <2>3. QED
    BY <2>1, <2>2
<1>8. Later
  BY <1>1, <1>2, <1>7 DEF Later, TypeOK
<1>9. QED
  BY <1>3, <1>6, <1>8, KernelKeeps DEF Fork

LEMMA ExitKeeps == ASSUME Inv, NEW p \in Pids, Exit(p) PROVE Inv'
<1>1. TypeOK /\ KernelInv
  BY DEF Inv
<1>2. clock' = clock /\ lastStart' = lastStart /\ proc' = [proc EXCEPT ![p] = NoProcess]
  BY DEF Exit
<1>3. TypeOK'
  BY <1>1, <1>2 DEF TypeOK, Exit, NoProcess
<1>4. ~Alive(p)' /\ \A q \in Pids \ {p} : proc'[q] = proc[q]
  BY <1>1, <1>2 DEF TypeOK, Alive
<1>5. KernelInv'
  BY <1>1, <1>2, <1>4 DEF KernelInv, Alive, TypeOK
<1>6. Later
  BY <1>1, <1>2, <1>4 DEF Later, Alive, TypeOK
<1>7. QED
  BY <1>3, <1>5, <1>6, KernelKeeps DEF Exit

-----------------------------------------------------------------------------
(* The steps of a pass.                                                      *)

\* OwnDelta and NoSampleRefused of one pass.
RowInv(t) ==
  pass[t].pc = "status" =>
    /\ \A sample \in pass[t].row.against :
         /\ sample.start = pass[t].row.start
         /\ sample.now < pass[t].now /\ sample.ticks <= pass[t].row.ticks
    /\ Key(pass[t].row.pid, pass[t].row.start) \in DOMAIN pass[t].prev =>
         \/ pass[t].row.against # {}
         \/ pass[t].prev[Key(pass[t].row.pid, pass[t].row.start)].now = pass[t].now

\* A step of one pass leaves the others as they were.
LEMMA OnePass ==
  ASSUME Inv, UNCHANGED kernel, begun' \in Nat,
         NEW t \in Threads, NEW q \in Pass, pass' = [pass EXCEPT ![t] = q],
         prevSamples' \in Samples, Sound(prevSamples)', OneSamplePerPid',
         PassInv(t)', RowInv(t)'
  PROVE  Inv'
<1>1. TypeOK /\ clock' = clock /\ proc' = proc /\ lastStart' = lastStart
  BY DEF Inv, kernel
<1>2. TypeOK'
  BY <1>1 DEF TypeOK
<1>3. \A u \in Threads \ {t} : pass'[u] = pass[u]
  BY <1>1 DEF TypeOK
<1>4. \A u \in Threads : PassInv(u)'
  BY <1>1, <1>3 DEF Inv, PassInv, Sound, Alive, OnePerPid
<1>5. \A u \in Threads : RowInv(u)
  BY DEF Inv, OwnDelta, NoSampleRefused, RowInv
<1>6. \A u \in Threads : RowInv(u)'
  BY <1>3, <1>5 DEF RowInv
<1>7. OwnDelta' /\ NoSampleRefused'
  BY <1>6 DEF RowInv, OwnDelta, NoSampleRefused
<1>8. KernelInv'
  BY <1>1 DEF Inv, KernelInv, Alive
<1>9. QED
  BY <1>2, <1>4, <1>7, <1>8 DEF Inv

\* What the other lemmas use of a pass.
LEMMA PassFacts ==
  ASSUME Inv, NEW t \in Threads
  PROVE  /\ TypeOK /\ pass[t] \in Pass /\ PassInv(t) /\ RowInv(t)
         /\ pass[t].prev \in Samples /\ pass[t].samples \in Samples
         /\ pass[t].left \in SUBSET Pids /\ pass[t].rows \in Seq(Listed)
         /\ pass[t].now \in Nat /\ pass[t].uptime \in Nat
BY DEF Inv, TypeOK, Pass, RowInv, OwnDelta, NoSampleRefused

LEMMA SamplesStay ==
  ASSUME Inv, UNCHANGED <<kernel, prevSamples>>
  PROVE  prevSamples' \in Samples /\ Sound(prevSamples)' /\ OneSamplePerPid'
BY DEF Inv, TypeOK, kernel, Sound, Alive, OneSamplePerPid

LEMMA BeginKeeps == ASSUME Inv, NEW t \in Threads, Begin(t) PROVE Inv'
<1>1. TypeOK /\ pass[t] \in Pass
  BY PassFacts
<1>2. PICK q \in Pass : /\ pass' = [pass EXCEPT ![t] = q]
                        /\ q = pass[t] \/ q = [Idle EXCEPT !.pc = "list", !.uptime = clock,
                                                           !.prev = prevSamples]
  <2>1. CASE UNCHANGED pass
    BY <1>1, <2>1 DEF TypeOK
  <2>2. CASE pass' = [pass EXCEPT ![t] = [Idle EXCEPT !.pc = "list", !.uptime = clock,
                                                       !.prev = prevSamples]]
    <3>1. [Idle EXCEPT !.pc = "list", !.uptime = clock, !.prev = prevSamples] \in Pass
      BY <1>1, IdleType DEF TypeOK, Pass
    <3>2. QED
      BY <2>2, <3>1
  <2>3. QED
    BY <2>1, <2>2 DEF Begin
<1>3. UNCHANGED <<kernel, prevSamples>> /\ begun' \in Nat
  BY <1>1 DEF Begin, TypeOK
<1>4. prevSamples' \in Samples /\ Sound(prevSamples)' /\ OneSamplePerPid'
  BY <1>3, SamplesStay
<1>5. pass'[t] = q
  BY <1>1, <1>2 DEF TypeOK
<1>6. PassInv(t)' /\ RowInv(t)'
  <2>1. CASE q = pass[t]
    BY <1>3, <1>5, <2>1, PassFacts DEF PassInv, RowInv, Sound, Alive, OnePerPid, kernel
  <2>2. CASE q = [Idle EXCEPT !.pc = "list", !.uptime = clock, !.prev = prevSamples]
    <3>1. /\ pass'[t].pc = "list" /\ pass'[t].prev = prevSamples
          /\ pass'[t].samples = NoSamples
      BY <1>5, <2>2 DEF Idle
    <3>2. Sound(pass[t].prev)'
      BY <1>3, <1>4, <3>1 DEF Sound, Alive
    <3>3. QED
      BY <3>1, <3>2, NoSamplesType DEF PassInv, RowInv, Sound, OnePerPid
  <2>3. QED
    BY <1>2, <2>1, <2>2
<1>7. QED
  BY <1>2, <1>3, <1>4, <1>6, OnePass

LEMMA ListKeeps == ASSUME Inv, NEW t \in Threads, List(t) PROVE Inv'
<1>1. PassInv(t) /\ TypeOK /\ pass[t] \in Pass /\ pass[t].pc = "list"
  BY PassFacts DEF List
<1>2. PICK left \in SUBSET Pids :
        pass' = [pass EXCEPT ![t].pc = "stat", ![t].now = clock, ![t].left = left]
  BY DEF List
<1>3. PICK q : q = [pass[t] EXCEPT !.pc = "stat", !.now = clock, !.left = left]
  OBVIOUS
<1>4. q \in Pass
  BY <1>1, <1>3 DEF TypeOK, Pass
<1>5. pass' = [pass EXCEPT ![t] = q]
  BY <1>1, <1>2, <1>3 DEF TypeOK
<1>6. UNCHANGED <<kernel, prevSamples>> /\ begun' \in Nat
  BY <1>1 DEF List, TypeOK
<1>7. /\ pass'[t].pc = "stat" /\ pass'[t].now = clock
      /\ pass'[t].prev = pass[t].prev /\ pass'[t].samples = pass[t].samples
  BY <1>1, <1>3, <1>5 DEF TypeOK, Pass
<1>8. PassInv(t)'
  <2>1. Sound(pass[t].prev)' /\ Sound(pass[t].samples)'
    BY <1>1, <1>6, <1>7 DEF PassInv, Sound, Alive, kernel
  <2>2. OnePerPid(pass[t].samples)' /\ \A k \in DOMAIN pass'[t].samples : k[1] \notin pass'[t].left
    BY <1>1, <1>7 DEF PassInv, OnePerPid
  <2>3. /\ pass'[t].now <= clock'
        /\ \A k \in DOMAIN pass'[t].prev : pass'[t].prev[k].now <= pass'[t].now
    BY <1>1, <1>6, <1>7 DEF PassInv, Sound, kernel, TypeOK
  <2>4. QED
    BY <1>7, <2>1, <2>2, <2>3 DEF PassInv
<1>9. RowInv(t)'
  BY <1>7 DEF RowInv
<1>10. QED
  BY <1>4, <1>5, <1>6, <1>8, <1>9, OnePass, SamplesStay

LEMMA StatusKeeps == ASSUME Inv, NEW t \in Threads, Status(t) PROVE Inv'
<1>1. PassInv(t) /\ TypeOK /\ pass[t] \in Pass /\ pass[t].pc = "status"
  BY PassFacts DEF Status
<1>2. PICK mem \in Nat :
        pass' = [pass EXCEPT ![t].pc = "stat", ![t].row = NoRow,
                   ![t].rows = Append(@, [pid |-> pass[t].row.pid, mem |-> mem,
                                          cpu |-> pass[t].row.cpu])]
  BY TableAssumption DEF Status
<1>3. PICK q : q = [pass[t] EXCEPT !.pc = "stat", !.row = NoRow,
                      !.rows = Append(@, [pid |-> pass[t].row.pid, mem |-> mem,
                                          cpu |-> pass[t].row.cpu])]
  OBVIOUS
<1>4. q \in Pass
  <2>1. pass[t].row \in Row
    BY <1>1 DEF PassInv
  <2>2. [pid |-> pass[t].row.pid, mem |-> mem, cpu |-> pass[t].row.cpu] \in Listed
    BY <2>1 DEF Row, Listed
  <2>3. Append(pass[t].rows, [pid |-> pass[t].row.pid, mem |-> mem, cpu |-> pass[t].row.cpu])
          \in Seq(Listed)
    BY <1>1, <2>2 DEF Pass
  <2>4. QED
    BY <1>1, <1>3, <2>3 DEF Pass
<1>5. pass' = [pass EXCEPT ![t] = q]
  BY <1>1, <1>2, <1>3 DEF TypeOK
<1>6. UNCHANGED <<kernel, prevSamples>> /\ begun' \in Nat
  BY <1>1 DEF Status, TypeOK
<1>7. /\ pass'[t].pc = "stat" /\ pass'[t].now = pass[t].now /\ pass'[t].left = pass[t].left
      /\ pass'[t].prev = pass[t].prev /\ pass'[t].samples = pass[t].samples
  BY <1>1, <1>3, <1>5 DEF TypeOK, Pass
<1>8. PassInv(t)'
  BY <1>1, <1>6, <1>7 DEF PassInv, Sound, Alive, OnePerPid, kernel
<1>9. RowInv(t)'
  BY <1>7 DEF RowInv
<1>10. QED
  BY <1>4, <1>5, <1>6, <1>8, <1>9, OnePass, SamplesStay

LEMMA EndKeeps == ASSUME Inv, NEW t \in Threads, End(t) PROVE Inv'
<1>1. PassInv(t) /\ TypeOK /\ pass[t].samples \in Samples /\ prevSamples' = pass[t].samples
  BY PassFacts DEF End, NextSamples
<1>2. Idle \in Pass /\ pass' = [pass EXCEPT ![t] = Idle] /\ pass'[t] = Idle
  BY <1>1, IdleType DEF End, TypeOK
<1>3. UNCHANGED kernel /\ begun' \in Nat
  BY <1>1 DEF End, TypeOK
<1>4. prevSamples' \in Samples /\ Sound(prevSamples)' /\ OneSamplePerPid'
  BY <1>1, <1>3 DEF PassInv, Sound, Alive, OnePerPid, OneSamplePerPid, kernel
<1>5. PassInv(t)' /\ RowInv(t)'
  BY <1>2, NoSamplesType DEF PassInv, RowInv, Sound, OnePerPid, Idle
<1>6. QED
  BY <1>2, <1>3, <1>4, <1>5, OnePass

\* The one step that measures: a process that still runs is sampled under its key.
LEMMA StatKeeps == ASSUME Inv, NEW t \in Threads, Stat(t) PROVE Inv'
<1>1. /\ PassInv(t) /\ TypeOK /\ pass[t] \in Pass /\ pass[t].pc = "stat"
      /\ pass[t].prev \in Samples /\ pass[t].samples \in Samples /\ pass[t].now \in Nat
      /\ pass[t].uptime \in Nat
  BY PassFacts DEF Stat
<1>2. PICK p : p = Min(pass[t].left)
  OBVIOUS
<1>3. p \in pass[t].left /\ p \in Pids
  <2>1. pass[t].left \in SUBSET Nat /\ pass[t].left # {}
    BY PassFacts, TableAssumption DEF Stat
  <2>2. QED
    BY <1>2, <2>1, MinOfNat, PassFacts
<1>4. UNCHANGED <<kernel, prevSamples>> /\ begun' \in Nat
  BY <1>1 DEF Stat, TypeOK
<1>5. CASE ~Alive(p)
  <2>1. PICK q : q = [pass[t] EXCEPT !.left = pass[t].left \ {p}]
    OBVIOUS
  <2>2. pass' = [pass EXCEPT ![t] = q]
    BY <1>2, <1>5, <2>1 DEF Stat
  <2>3. q \in Pass
    BY <1>1, <2>1 DEF Pass
  <2>4. /\ pass'[t].pc = "stat" /\ pass'[t].now = pass[t].now
        /\ pass'[t].left = pass[t].left \ {p}
        /\ pass'[t].prev = pass[t].prev /\ pass'[t].samples = pass[t].samples
    BY <1>1, <2>1, <2>2 DEF TypeOK, Pass
  <2>5. PassInv(t)'
    BY <1>1, <1>4, <2>4 DEF PassInv, Sound, Alive, OnePerPid, kernel
  <2>6. RowInv(t)'
    BY <2>4 DEF RowInv
  <2>7. QED
    BY <1>4, <2>2, <2>3, <2>5, <2>6, OnePass, SamplesStay
<1>6. CASE Alive(p)
  <2>1. PICK seen : seen = proc[p]
    OBVIOUS
  <2>2. PICK against : against = Against(p, seen, pass[t].now, pass[t].prev)
    OBVIOUS
  <2>3. PICK k : k = Key(p, seen.start)
    OBVIOUS
  <2>4. PICK sample : sample = [ticks |-> seen.ticks, now |-> pass[t].now, start |-> seen.start]
    OBVIOUS
  <2>5. PICK taken : taken = With(pass[t].samples, k, sample)
    OBVIOUS
  <2>6. PICK row : row = [pid |-> p, start |-> seen.start, ticks |-> seen.ticks,
                          against |-> against,
                          cpu |-> CpuPercent(seen, pass[t].uptime, pass[t].now, against)]
    OBVIOUS
  <2>7. PICK q : q = [pass[t] EXCEPT !.pc = "status", !.left = pass[t].left \ {p},
                                     !.samples = taken, !.row = row]
    OBVIOUS
  <2>8. pass' = [pass EXCEPT ![t] = q]
    BY <1>2, <1>6, <2>1, <2>2, <2>3, <2>4, <2>5, <2>6, <2>7 DEF Stat
  <2>9. seen \in [start : Nat, ticks : Nat] /\ seen.start = lastStart[p]
    BY <1>1, <1>3, <1>6, <2>1 DEF TypeOK, Inv, KernelInv
  <2>10. k \in Keys /\ k[1] = p /\ k[2] = seen.start
    BY <1>3, <2>3, <2>9 DEF Key, Keys
  <2>11. sample \in Sample
    BY <1>1, <2>4, <2>9 DEF Sample
  <2>12. against \in SUBSET Sample
         /\ \A s \in against : s.now < pass[t].now /\ s.ticks <= seen.ticks
    BY <1>1, <1>3, <2>2, <2>9, AgainstType
  <2>13. row \in Row
    <3>1. CpuPercent(seen, pass[t].uptime, pass[t].now, against) \in Nat
      BY <1>1, <2>9, <2>12, CpuPercentType
    <3>2. QED
      BY <1>3, <2>6, <2>9, <2>12, <3>1 DEF Row
  <2>14. /\ taken \in Samples /\ DOMAIN taken = DOMAIN pass[t].samples \cup {k}
         /\ taken[k] = sample
         /\ \A l \in DOMAIN pass[t].samples \ {k} : taken[l] = pass[t].samples[l]
    <3>1. PICK samples \in Samples : samples = pass[t].samples
      BY <1>1
    <3>2. taken = With(samples, k, sample) /\ k \in Keys
      BY <2>5, <2>10, <3>1
    <3>3. /\ With(samples, k, sample) \in Samples
          /\ DOMAIN With(samples, k, sample) = DOMAIN samples \cup {k}
          /\ With(samples, k, sample)[k] = sample
          /\ \A l \in DOMAIN samples \ {k} : With(samples, k, sample)[l] = samples[l]
      BY <2>11, <3>2, WithType
    <3>4. QED
      BY <3>1, <3>2, <3>3
  <2>15. q \in Pass
    BY <1>1, <2>7, <2>13, <2>14 DEF Pass
  <2>16. /\ pass'[t].pc = "status" /\ pass'[t].now = pass[t].now
         /\ pass'[t].left = pass[t].left \ {p}
         /\ pass'[t].prev = pass[t].prev /\ pass'[t].samples = taken /\ pass'[t].row = row
    BY <1>1, <2>7, <2>8 DEF TypeOK, Pass
  <2>17. PassInv(t)'
    <3>1. Sound(pass[t].prev)'
      BY <1>1, <1>4, <2>16 DEF PassInv, Sound, Alive, kernel
    <3>2. pass[t].now <= clock
      BY <1>1 DEF PassInv
    <3>3. Sound(pass[t].samples)'
      <4>1. /\ taken[k].start = k[2] /\ k[2] <= lastStart[k[1]]
            /\ taken[k].ticks <= proc[k[1]].ticks /\ taken[k].now <= clock
        BY <1>1, <1>3, <2>1, <2>4, <2>9, <2>10, <2>14, <3>2 DEF TypeOK
      <4>2. Sound(taken)
        BY <1>1, <2>14, <4>1 DEF PassInv, Sound
      <4>3. QED
        BY <1>4, <2>16, <4>2 DEF Sound, Alive, kernel
    <3>4. OnePerPid(pass[t].samples)' /\ \A l \in DOMAIN pass'[t].samples : l[1] \notin pass'[t].left
      BY <1>1, <1>3, <2>10, <2>14, <2>16 DEF PassInv, OnePerPid
    <3>5. /\ pass'[t].now <= clock'
          /\ \A l \in DOMAIN pass'[t].prev : pass'[t].prev[l].now <= pass'[t].now
      BY <1>1, <1>4, <2>16 DEF PassInv, kernel
    <3>6. QED
      BY <2>13, <2>16, <3>1, <3>3, <3>4, <3>5 DEF PassInv
  <2>18. RowInv(t)'
    <3>1. row.pid = p /\ row.start = seen.start /\ row.ticks = seen.ticks /\ row.against = against
      BY <2>6
    <3>2. \A s \in against : s.start = seen.start
      BY <1>1, <2>2, <2>3, <2>10 DEF Against, PassInv, Sound
    <3>3. ASSUME k \in DOMAIN pass[t].prev, pass[t].prev[k].now # pass[t].now
          PROVE  pass[t].prev[k] \in against
      <4>1. pass[t].prev[k].now \in Nat /\ pass[t].prev[k].ticks \in Nat
        BY <1>1, <3>3, SamplesType DEF Sample
      <4>2. pass[t].prev[k].now < pass[t].now
        BY <1>1, <3>3, <4>1 DEF PassInv
      <4>3. pass[t].prev[k].ticks <= seen.ticks
        BY <1>1, <1>6, <2>1, <2>10, <3>3 DEF PassInv, Sound
      <4>4. QED
        BY <1>1, <2>2, <2>3, <2>9, <3>3, <4>1, <4>2, <4>3 DEF Against
    <3>4. QED
      BY <2>3, <2>12, <2>16, <3>1, <3>2, <3>3 DEF RowInv
  <2>19. QED
    BY <1>4, <2>8, <2>15, <2>17, <2>18, OnePass, SamplesStay
<1>7. QED
  BY <1>5, <1>6

LEMMA NextKeeps == Inv /\ [Next]_vars => Inv'
<1> SUFFICES ASSUME Inv, [Next]_vars PROVE Inv'
  OBVIOUS
<1>1. CASE Tick
  BY <1>1, TickKeeps
<1>2. ASSUME NEW p \in Mortal, Fork(p) \/ Exit(p) PROVE Inv'
  <2>1. p \in Pids
    BY TableAssumption
  <2>2. QED
    BY <1>2, <2>1, ForkKeeps, ExitKeeps
<1>3. ASSUME NEW t \in Threads, Begin(t) \/ List(t) \/ Stat(t) \/ Status(t) \/ End(t) PROVE Inv'
  BY <1>3, BeginKeeps, ListKeeps, StatKeeps, StatusKeeps, EndKeeps
<1>4. CASE UNCHANGED vars
  BY <1>4 DEF vars, kernel, Inv, TypeOK, KernelInv, Alive, Sound, PassInv, OnePerPid,
              OneSamplePerPid, OwnDelta, NoSampleRefused
<1>5. QED
  BY <1>1, <1>2, <1>3, <1>4 DEF Next

-----------------------------------------------------------------------------
(* The theorems.                                                             *)

\* The inductive invariant of _collect_processes_sync beside the kernel.
THEOREM Invariant == Spec => []Inv
BY InitInv, NextKeeps, PTL DEF Spec

\* Processes, samples and the locals of every pass keep their types; every CPU share
\* that _cpu_percent computes is a natural number.
THEOREM TableTypeCorrect == Spec => []TypeOK
BY Invariant, PTL DEF Inv

\* _cpu_percent only ever subtracts a sample of the same process, taken earlier, with a
\* counter that is no larger: a recycled pid is a new process.
THEOREM MeasuresItself == Spec => []OwnDelta
BY Invariant, PTL DEF Inv

\* _cpu_percent falls back on the lifetime average only for a process it has no sample
\* of, or when the clock did not move: its "cpu_ticks >= prev.cpu_ticks" never fails.
THEOREM UsesEverySample == Spec => []NoSampleRefused
BY Invariant, PTL DEF Inv

\* The samples kept between passes are at most one per pid, so they do not grow with the
\* number of processes that ever ran.
THEOREM SamplesBounded == Spec => []OneSamplePerPid
BY Invariant, PTL DEF Inv

-----------------------------------------------------------------------------
(* The cut.                                                                  *)

Measures == {"mem", "cpu"}

LEMMA RowsType ==
  ASSUME NEW rows \in Seq(Listed)
  PROVE  /\ DOMAIN rows = 1..Len(rows) /\ Len(rows) \in Nat
         /\ \A i \in DOMAIN rows, measure \in Measures : rows[i] \in Listed /\ rows[i][measure] \in Nat
         /\ IsFiniteSet(DOMAIN rows)
<1>1. DOMAIN rows = 1..Len(rows) /\ Len(rows) \in Nat /\ \A i \in DOMAIN rows : rows[i] \in Listed
  OBVIOUS
<1>2. IsFiniteSet(1..Len(rows))
  BY <1>1, FS_Interval
<1>3. ASSUME NEW i \in DOMAIN rows, NEW measure \in Measures PROVE rows[i][measure] \in Nat
  <2>1. rows[i] \in Listed
    BY <1>1
  <2>2. rows[i]["mem"] \in Nat /\ rows[i]["cpu"] \in Nat
    BY <2>1 DEF Listed
  <2>3. QED
    BY <2>2 DEF Measures
<1> QED
  BY <1>1, <1>2, <1>3

\* Ahead is a strict order of the rows.
LEMMA AheadOrder ==
  ASSUME NEW rows \in Seq(Listed), NEW measure \in Measures
  PROVE  \A i, j, k \in DOMAIN rows :
           /\ ~Ahead(rows, measure, i, i)
           /\ i # j => Ahead(rows, measure, i, j) \/ Ahead(rows, measure, j, i)
           /\ Ahead(rows, measure, i, j) /\ Ahead(rows, measure, j, k) => Ahead(rows, measure, i, k)
           /\ Ahead(rows, measure, i, j) => rows[i][measure] >= rows[j][measure]
<1> SUFFICES ASSUME NEW i \in DOMAIN rows, NEW j \in DOMAIN rows, NEW k \in DOMAIN rows
             PROVE  /\ ~Ahead(rows, measure, i, i)
                    /\ i # j => Ahead(rows, measure, i, j) \/ Ahead(rows, measure, j, i)
                    /\ Ahead(rows, measure, i, j) /\ Ahead(rows, measure, j, k)
                         => Ahead(rows, measure, i, k)
                    /\ Ahead(rows, measure, i, j) => rows[i][measure] >= rows[j][measure]
  OBVIOUS
<1>1. PICK a \in Nat, b \in Nat, c \in Nat :
           a = rows[i][measure] /\ b = rows[j][measure] /\ c = rows[k][measure]
  BY RowsType
<1>2. i \in Nat /\ j \in Nat /\ k \in Nat
  BY RowsType
<1> QED
  BY <1>1, <1>2 DEF Ahead

LEMMA PlaceType ==
  ASSUME NEW rows \in Seq(Listed), NEW measure \in Measures, NEW S \in SUBSET (DOMAIN rows), NEW i \in S
  PROVE  Place(rows, measure, S, i) \in 0..(Cardinality(S) - 1)
<1> DEFINE before == {j \in S : Ahead(rows, measure, j, i)}
<1>1. IsFiniteSet(S)
  BY RowsType, FS_Subset
<1>2. before \subseteq S \ {i}
  BY AheadOrder
<1>3. IsFiniteSet(S \ {i}) /\ Cardinality(S \ {i}) = Cardinality(S) - 1
  BY <1>1, FS_RemoveElement
<1>4. IsFiniteSet(before) /\ Cardinality(before) <= Cardinality(S) - 1
  BY <1>2, <1>3, FS_Subset
<1>5. Cardinality(before) \in Nat /\ Cardinality(S) \in Nat
  BY <1>1, <1>4, FS_CardinalityType
<1> QED
  BY <1>4, <1>5 DEF Place

\* What is ahead has an earlier place.
LEMMA PlaceStrict ==
  ASSUME NEW rows \in Seq(Listed), NEW measure \in Measures, NEW S \in SUBSET (DOMAIN rows),
         NEW i \in S, NEW k \in S, Ahead(rows, measure, i, k)
  PROVE  Place(rows, measure, S, i) < Place(rows, measure, S, k)
<1> DEFINE before(x) == {j \in S : Ahead(rows, measure, j, x)}
<1>1. IsFiniteSet(S)
  BY RowsType, FS_Subset
<1>2. before(i) \subseteq before(k) /\ i \in before(k) /\ i \notin before(i)
  BY AheadOrder
<1>3. IsFiniteSet(before(i)) /\ IsFiniteSet(before(k))
  BY <1>1, FS_Subset
<1>4. Cardinality(before(i)) <= Cardinality(before(k)) /\ Cardinality(before(i)) # Cardinality(before(k))
  BY <1>2, <1>3, FS_Subset
<1>5. Cardinality(before(i)) \in Nat /\ Cardinality(before(k)) \in Nat
  BY <1>3, FS_CardinalityType
<1> QED
  BY <1>4, <1>5 DEF Place

\* Every place is taken, by one row.
LEMMA PlaceOnto ==
  ASSUME NEW rows \in Seq(Listed), NEW measure \in Measures, NEW S \in SUBSET (DOMAIN rows)
  PROVE  /\ IsFiniteSet(S) /\ Cardinality(S) \in Nat
         /\ \A n \in 1..Cardinality(S) : \E i \in S : Place(rows, measure, S, i) = n - 1
         /\ \A i, k \in S : Place(rows, measure, S, i) = Place(rows, measure, S, k) => i = k
<1> DEFINE N == Cardinality(S)
           place == [i \in S |-> Place(rows, measure, S, i) + 1]
<1>1. IsFiniteSet(S) /\ N \in Nat
  BY RowsType, FS_Subset, FS_CardinalityType
<1>2. \A i \in S : Place(rows, measure, S, i) \in 0..(N - 1)
  BY PlaceType
<1>3. ASSUME NEW i \in S, NEW k \in S, Place(rows, measure, S, i) = Place(rows, measure, S, k)
      PROVE  i = k
  <2>1. ~Ahead(rows, measure, i, k) /\ ~Ahead(rows, measure, k, i)
    BY <1>1, <1>2, <1>3, PlaceStrict
  <2>2. QED
    BY <2>1, AheadOrder
<1>4. place \in [S -> 1..N] /\ \A i, k \in S : place[i] = place[k] => i = k
  BY <1>1, <1>2, <1>3
<1>5. place \in Injection(S, 1..N)
  <2> HIDE DEF place
  <2> QED
    BY <1>4 DEF Injection, IsInjective
<1>6. IsFiniteSet(1..N) /\ Cardinality(1..N) = N
  BY <1>1, FS_Interval
<1>7. place \in Surjection(S, 1..N)
  <2> HIDE DEF place
  <2> QED
    BY <1>5, <1>6, FS_Injection
<1>8. \A n \in 1..N : \E i \in S : place[i] = n
  <2> HIDE DEF place
  <2> QED
    BY <1>7 DEF Surjection
<1>9. \A n \in 1..N : \E i \in S : Place(rows, measure, S, i) = n - 1
  BY <1>1, <1>2, <1>8
<1> QED
  BY <1>1, <1>3, <1>9

\* A sorted list has every row of the set at one place.
Lists(out, rows, at, S) ==
  /\ DOMAIN out = DOMAIN at /\ at \in [DOMAIN out -> S]
  /\ \A n \in DOMAIN out : out[n] = rows[at[n]]
  /\ \A n, m \in DOMAIN out : at[n] = at[m] => n = m
  /\ \A i \in S : \E n \in DOMAIN out : at[n] = i

LEMMA SortedLists ==
  ASSUME NEW rows \in Seq(Listed), NEW measure \in Measures, NEW S \in SUBSET (DOMAIN rows)
  PROVE  /\ Sorted(rows, measure, S) \in Seq(Listed)
         /\ Len(Sorted(rows, measure, S)) = Cardinality(S)
         /\ \E at : Lists(Sorted(rows, measure, S), rows, at, S)
<1> DEFINE N == Cardinality(S)
           at == [n \in 1..N |-> CHOOSE i \in S : Place(rows, measure, S, i) = n - 1]
           out == Sorted(rows, measure, S)
<1>1. N \in Nat /\ \A i \in S : rows[i] \in Listed
  BY PlaceOnto, RowsType DEF Measures
<1>2. \A n \in 1..N : at[n] \in S /\ Place(rows, measure, S, at[n]) = n - 1
  BY PlaceOnto
<1>3. out = [n \in 1..N |-> rows[at[n]]]
  BY DEF Sorted
<1> HIDE DEF at, out
<1>4. DOMAIN at = 1..N /\ DOMAIN out = 1..N /\ \A n \in 1..N : out[n] = rows[at[n]]
  BY <1>3 DEF at
<1>5. out \in [1..N -> Listed]
  BY <1>1, <1>2, <1>3
<1>6. out \in Seq(Listed) /\ Len(out) = N
  BY <1>1, <1>5
<1>7. at \in [1..N -> S]
  BY <1>2 DEF at
<1>8. ASSUME NEW n \in 1..N, NEW m \in 1..N, at[n] = at[m] PROVE n = m
  <2>1. n - 1 = m - 1 /\ n \in Int /\ m \in Int
    BY <1>2, <1>8
  <2>2. QED
    BY <2>1
<1>9. ASSUME NEW i \in S PROVE \E n \in 1..N : at[n] = i
  <2>1. PICK n \in 1..N : n = Place(rows, measure, S, i) + 1
    BY <1>1, PlaceType
  <2>2. Place(rows, measure, S, at[n]) = Place(rows, measure, S, i)
    <3>1. Place(rows, measure, S, i) \in Int
      BY <1>1, PlaceType
    <3>2. QED
      BY <1>2, <2>1, <3>1
  <2>3. QED
    BY <1>2, <2>2, PlaceOnto
<1>10. Lists(out, rows, at, S)
  BY <1>4, <1>7, <1>8, <1>9 DEF Lists
<1> QED
  BY <1>6, <1>10 DEF out

\* A row that is not among the top largest of a measure has that many ahead of it, which
\* are.
LEMMA LargestOutdo ==
  ASSUME NEW rows \in Seq(Listed), NEW measure \in Measures, NEW top \in Nat,
         NEW r \in DOMAIN rows, r \notin Largest(rows, measure, top)
  PROVE  /\ Largest(rows, measure, top) \in SUBSET (DOMAIN rows)
         /\ Cardinality(Largest(rows, measure, top)) >= top
         /\ \A h \in Largest(rows, measure, top) : rows[h][measure] >= rows[r][measure]
<1> DEFINE D == DOMAIN rows
           L == Largest(rows, measure, top)
           place(i) == Place(rows, measure, D, i)
<1>1. L \in SUBSET D /\ \A i \in D : i \in L <=> place(i) < top
  BY DEF Largest
<1>2. Cardinality(D) \in Nat /\ \A i \in D : place(i) \in 0..(Cardinality(D) - 1)
  BY PlaceOnto, PlaceType
<1>3. ~(place(r) < top)
  BY <1>1
<1>4. \A h \in L : rows[h][measure] >= rows[r][measure]
  <2> TAKE h \in L
  <2>1. h \in D /\ place(h) < place(r)
    BY <1>1, <1>2, <1>3
  <2>2. h # r /\ ~Ahead(rows, measure, r, h)
    <3>1. Ahead(rows, measure, r, h) => place(r) < place(h)
      BY <2>1, PlaceStrict
    <3>2. place(h) \in Int /\ place(r) \in Int
      BY <1>2, <2>1
    <3> HIDE DEF place
    <3> QED
      BY <2>1, <3>1, <3>2
  <2>3. QED
    BY <2>1, <2>2, AheadOrder
<1>5. Cardinality(L) >= top
  <2> DEFINE f == [i \in L |-> place(i) + 1]
  <2>1. f \in [L -> 1..top]
    BY <1>1, <1>2
  <2>2. ASSUME NEW n \in 1..top PROVE \E i \in L : f[i] = n
    <3>1. n \in 1..Cardinality(D)
      BY <1>2, <1>3
    <3>2. PICK i \in D : place(i) = n - 1
      BY <3>1, PlaceOnto
    <3>3. i \in L
      BY <1>1, <3>2
    <3>4. f[i] = n
      BY <3>2, <3>3
    <3> QED
      BY <3>3, <3>4
  <2>3. f \in Surjection(L, 1..top)
    <3> HIDE DEF f
    <3> QED
      BY <2>1, <2>2 DEF Surjection
  <2>4. IsFiniteSet(L)
    BY <1>1, RowsType, FS_Subset
  <2>5. Cardinality(1..top) <= Cardinality(L)
    <3> HIDE DEF f, L
    <3> QED
      BY <2>3, <2>4, FS_Surjection
  <2>6. Cardinality(1..top) = top
    BY FS_Interval
  <2>7. Cardinality(L) \in Nat
    BY <2>4, FS_CardinalityType
  <2>8. QED
    BY <2>5, <2>6, <2>7
<1> QED
  BY <1>1, <1>4, <1>5

Heavy(rows) == Largest(rows, "mem", TopMem)
Busy(rows) == {i \in Largest(rows, "cpu", TopCpu) : rows[i].pid \notin {rows[h].pid : h \in Heavy(rows)}}

\* The table returned lists the heaviest and the busiest, each once.
LEMMA TopRowsList ==
  ASSUME NEW rows \in Seq(Listed)
  PROVE  \E at : Lists(TopRows(rows), rows, at, Heavy(rows) \cup Busy(rows))
<1> DEFINE a == Sorted(rows, "mem", Heavy(rows))
           b == Sorted(rows, "cpu", Busy(rows))
           out == TopRows(rows)
           A == Len(a)
           B == Len(b)
<1>1. out = a \o b
  BY DEF TopRows, Heavy, Busy
<1>2. Heavy(rows) \in SUBSET (DOMAIN rows) /\ Busy(rows) \in SUBSET (DOMAIN rows)
  BY DEF Heavy, Busy, Largest
<1>3. Heavy(rows) \cap Busy(rows) = {}
  BY DEF Busy
<1>4. PICK x : Lists(a, rows, x, Heavy(rows)) /\ a \in Seq(Listed)
  BY <1>2, SortedLists DEF Measures
<1>5. PICK y : Lists(b, rows, y, Busy(rows)) /\ b \in Seq(Listed)
  BY <1>2, SortedLists DEF Measures
<1> HIDE DEF a, b, out
<1>6. /\ A \in Nat /\ B \in Nat /\ DOMAIN a = 1..A /\ DOMAIN b = 1..B /\ DOMAIN out = 1..(A + B)
      /\ \A n \in 1..(A + B) : out[n] = IF n <= A THEN a[n] ELSE b[n - A]
  BY <1>1, <1>4, <1>5
<1> HIDE DEF A, B
<1> DEFINE at == [n \in 1..(A + B) |-> IF n <= A THEN x[n] ELSE y[n - A]]
<1>7. \A n \in 1..A : x[n] \in Heavy(rows) /\ a[n] = rows[x[n]]
  BY <1>4, <1>6 DEF Lists
<1>8. \A n \in 1..B : y[n] \in Busy(rows) /\ b[n] = rows[y[n]]
  BY <1>5, <1>6 DEF Lists
<1>9. \A n \in 1..(A + B) : /\ n <= A => n \in 1..A /\ at[n] = x[n]
                            /\ ~(n <= A) => n - A \in 1..B /\ at[n] = y[n - A]
  BY <1>6
<1>10. DOMAIN at = DOMAIN out
  BY <1>6
<1> HIDE DEF at
<1>11. ASSUME NEW n \in DOMAIN out
       PROVE  at[n] \in Heavy(rows) \cup Busy(rows) /\ out[n] = rows[at[n]]
  BY <1>6, <1>7, <1>8, <1>9
<1>12. ASSUME NEW n \in DOMAIN out, NEW m \in DOMAIN out, at[n] = at[m]
       PROVE  n = m
  <2>1. CASE n <= A /\ m <= A
    BY <1>4, <1>6, <1>9, <1>12, <2>1 DEF Lists
  <2>2. CASE ~(n <= A) /\ ~(m <= A)
    <3>1. \A p, q \in 1..B : y[p] = y[q] => p = q
      BY <1>5, <1>6 DEF Lists
    <3>2. n - A \in 1..B /\ m - A \in 1..B /\ y[n - A] = y[m - A]
      BY <1>6, <1>9, <1>12, <2>2
    <3>3. n - A = m - A
      BY <3>1, <3>2
    <3>4. QED
      BY <1>6, <3>3
  <2>3. CASE n <= A /\ ~(m <= A)
    BY <1>3, <1>6, <1>7, <1>8, <1>9, <1>12, <2>3
  <2>4. CASE ~(n <= A) /\ m <= A
    BY <1>3, <1>6, <1>7, <1>8, <1>9, <1>12, <2>4
  <2>5. QED
    BY <2>1, <2>2, <2>3, <2>4
<1>13. ASSUME NEW i \in Heavy(rows) \cup Busy(rows)
       PROVE  \E n \in DOMAIN out : at[n] = i
  <2>1. CASE i \in Heavy(rows)
    <3>1. PICK n \in 1..A : x[n] = i
      BY <1>4, <1>6, <2>1 DEF Lists
    <3>2. n \in 1..(A + B) /\ n <= A
      BY <1>6
    <3>3. QED
      BY <1>6, <1>9, <3>1, <3>2
  <2>2. CASE i \in Busy(rows)
    <3>1. PICK n \in 1..B : y[n] = i
      BY <1>5, <1>6, <2>2 DEF Lists
    <3>2. n + A \in 1..(A + B) /\ ~(n + A <= A) /\ (n + A) - A = n
      BY <1>6
    <3>3. at[n + A] = y[n]
      BY <1>9, <3>2
    <3>4. QED
      BY <1>6, <3>1, <3>2, <3>3
  <2>3. QED
    BY <2>1, <2>2
<1>15. at \in [DOMAIN out -> Heavy(rows) \cup Busy(rows)]
  BY <1>6, <1>11 DEF at
<1>14. Lists(out, rows, at, Heavy(rows) \cup Busy(rows))
  BY <1>10, <1>11, <1>12, <1>13, <1>15 DEF Lists
<1> QED
  BY <1>14 DEF out

AsMuch(out, measure, v) == {n \in DOMAIN out : out[n][measure] >= v}

\* What is listed is counted.
LEMMA CountListed ==
  ASSUME NEW out, NEW rows, NEW at, NEW S, IsFiniteSet(DOMAIN out), Lists(out, rows, at, S),
         NEW L \in SUBSET S, NEW measure, NEW v,
         \A h \in L : rows[h][measure] >= v
  PROVE  Cardinality(L) <= Cardinality(AsMuch(out, measure, v))
<1> DEFINE Q == {n \in DOMAIN out : at[n] \in L}
           G == AsMuch(out, measure, v)
           f == [n \in Q |-> at[n]]
<1>1. f \in [Q -> L] /\ \A i \in L : \E n \in Q : f[n] = i
  BY DEF Lists
<1>2. Q \subseteq G
  BY DEF Lists, AsMuch
<1>3. IsFiniteSet(Q) /\ IsFiniteSet(G)
  BY FS_Subset DEF AsMuch
<1> HIDE DEF Q, G, f
<1>4. f \in Surjection(Q, L)
  BY <1>1 DEF Surjection
<1>5. Cardinality(L) <= Cardinality(Q) /\ IsFiniteSet(L)
  BY <1>3, <1>4, FS_Surjection
<1>6. Cardinality(Q) <= Cardinality(G)
  BY <1>2, <1>3, FS_Subset
<1>7. Cardinality(L) \in Nat /\ Cardinality(Q) \in Nat /\ Cardinality(G) \in Nat
  BY <1>3, <1>5, FS_CardinalityType
<1> QED
  BY <1>5, <1>6, <1>7 DEF G

\* No pid is listed twice, and a row that is not was outdone in both measures.
Fair(rows, out) ==
  /\ \A i, j \in DOMAIN out : out[i].pid = out[j].pid => i = j
  /\ \A n \in DOMAIN rows :
       LET r == rows[n]
       IN  \/ \E i \in DOMAIN out : out[i] = r
           \/ /\ Cardinality({i \in DOMAIN out : out[i].mem >= r.mem}) >= TopMem
              /\ Cardinality({i \in DOMAIN out : out[i].cpu >= r.cpu}) >= TopCpu

\* What TopRows cuts off was outdone in both measures by what it keeps.
LEMMA CutIsFair ==
  ASSUME NEW rows \in Seq(Listed), NEW out, out = TopRows(rows),
         \A i, j \in DOMAIN rows : rows[i].pid = rows[j].pid => i = j
  PROVE  Fair(rows, out)
<1> DEFINE S == Heavy(rows) \cup Busy(rows)
<1>1. PICK at : Lists(out, rows, at, S)
  BY TopRowsList
<1>2. S \subseteq DOMAIN rows
  BY DEF Heavy, Busy, Largest
<1>3. \A i, j \in DOMAIN out : out[i].pid = out[j].pid => i = j
  BY <1>1, <1>2 DEF Lists
<1>4. IsFiniteSet(DOMAIN out)
  <2>1. at \in Injection(DOMAIN out, S)
    BY <1>1 DEF Lists, Injection, IsInjective
  <2>2. IsFiniteSet(S)
    BY <1>2, RowsType, FS_Subset
  <2>3. QED
    BY <2>1, <2>2, FS_Injection
<1>5. ASSUME NEW n \in DOMAIN rows, ~ \E i \in DOMAIN out : out[i] = rows[n]
      PROVE  /\ Cardinality({i \in DOMAIN out : out[i].mem >= rows[n].mem}) >= TopMem
             /\ Cardinality({i \in DOMAIN out : out[i].cpu >= rows[n].cpu}) >= TopCpu
  <2>1. n \notin S
    BY <1>1, <1>5 DEF Lists
  <2>2. n \notin Largest(rows, "mem", TopMem)
    BY <2>1 DEF Heavy
  <2>3. n \notin Largest(rows, "cpu", TopCpu)
    BY <1>2, <2>1 DEF Busy, Heavy
  <2>4. Largest(rows, "mem", TopMem) \subseteq S /\ Largest(rows, "cpu", TopCpu) \subseteq S
    <3>1. Largest(rows, "cpu", TopCpu) \subseteq DOMAIN rows
      BY DEF Largest
    <3>2. \A i \in Largest(rows, "cpu", TopCpu) : i \notin Busy(rows) => i \in Heavy(rows)
      BY <1>2, <3>1 DEF Busy
    <3>3. QED
      BY <3>2 DEF Heavy
  <2>5. TopMem \in Nat /\ TopCpu \in Nat
    BY TableAssumption
  <2>6. ASSUME NEW measure \in Measures, NEW top \in Nat, n \notin Largest(rows, measure, top),
               Largest(rows, measure, top) \subseteq S
        PROVE  Cardinality(AsMuch(out, measure, rows[n][measure])) >= top
    <3>1. PICK L \in SUBSET S : L = Largest(rows, measure, top)
      BY <2>6
    <3>2. PICK G : G = AsMuch(out, measure, rows[n][measure])
      OBVIOUS
    <3>3. Cardinality(L) >= top /\ \A h \in L : rows[h][measure] >= rows[n][measure]
      BY <2>6, <3>1, LargestOutdo
    <3> HIDE DEF S
    <3>4. Cardinality(L) <= Cardinality(G)
      BY <1>1, <1>4, <3>2, <3>3, CountListed
    <3>5. IsFiniteSet(L) /\ IsFiniteSet(G)
      BY <1>2, <1>4, <3>2, RowsType, FS_Subset DEF AsMuch
    <3>6. Cardinality(L) \in Nat /\ Cardinality(G) \in Nat
      BY <3>5, FS_CardinalityType
    <3>7. QED
      BY <3>2, <3>3, <3>4, <3>6
  <2>8. /\ Cardinality(AsMuch(out, "mem", rows[n]["mem"])) >= TopMem
        /\ Cardinality(AsMuch(out, "cpu", rows[n]["cpu"])) >= TopCpu
    BY <2>2, <2>3, <2>4, <2>5, <2>6 DEF Measures
  <2>9. QED
    BY <2>8 DEF AsMuch
<1> QED
  BY <1>3, <1>5 DEF Fair

-----------------------------------------------------------------------------
(* The rows of a pass.                                                       *)

\* A pass takes a row of each pid once.
RowsInv(t) ==
  /\ \A i, j \in DOMAIN pass[t].rows : pass[t].rows[i].pid = pass[t].rows[j].pid => i = j
  /\ \A i \in DOMAIN pass[t].rows : pass[t].rows[i].pid \notin pass[t].left
  /\ pass[t].pc \in {"idle", "list"} => pass[t].rows = <<>>
  /\ pass[t].pc = "status" =>
       /\ pass[t].row.pid \notin pass[t].left
       /\ \A i \in DOMAIN pass[t].rows : pass[t].rows[i].pid # pass[t].row.pid

\* A process is read, or skipped because it is gone.
LEMMA StatStep ==
  ASSUME Inv, NEW t \in Threads, Stat(t)
  PROVE  \E p \in pass[t].left :
           /\ pass'[t].rows = pass[t].rows /\ pass'[t].left = pass[t].left \ {p}
           /\ \/ pass'[t].pc = "stat"
              \/ pass'[t].pc = "status" /\ pass'[t].row.pid = p
<1>0. pass \in [Threads -> Pass] /\ pass[t] \in Pass
  BY DEF Inv, TypeOK
<1>1. PICK p : p = Min(pass[t].left)
  OBVIOUS
<1>2. p \in pass[t].left
  <2>1. pass[t].left \in SUBSET Nat /\ pass[t].left # {}
    BY <1>0, TableAssumption DEF Stat, Pass
  <2>2. QED
    BY <1>1, <2>1, MinOfNat
<1>3. /\ pass'[t].rows = pass[t].rows /\ pass'[t].left = pass[t].left \ {p}
      /\ \/ pass'[t].pc = "stat"
         \/ pass'[t].pc = "status" /\ pass'[t].row.pid = p
  <2>1. CASE ~Alive(p)
    <3>1. pass'[t] = [pass[t] EXCEPT !.left = pass[t].left \ {p}]
      BY <1>0, <1>1, <2>1 DEF Stat
    <3>2. QED
      BY <1>0, <3>1 DEF Stat, Pass
  <2>2. CASE Alive(p)
    <3>1. PICK seen : seen = proc[p]
      OBVIOUS
    <3>2. PICK against : against = Against(p, seen, pass[t].now, pass[t].prev)
      OBVIOUS
    <3>3. PICK taken : taken = With(pass[t].samples, Key(p, seen.start),
                                   [ticks |-> seen.ticks, now |-> pass[t].now, start |-> seen.start])
      OBVIOUS
    <3>4. PICK row : row = [pid |-> p, start |-> seen.start, ticks |-> seen.ticks, against |-> against,
                            cpu |-> CpuPercent(seen, pass[t].uptime, pass[t].now, against)]
      OBVIOUS
    <3>5. pass'[t] = [pass[t] EXCEPT !.pc = "status", !.left = pass[t].left \ {p},
                                     !.samples = taken, !.row = row]
      BY <1>0, <1>1, <2>2, <3>1, <3>2, <3>3, <3>4 DEF Stat
    <3>6. row.pid = p
      BY <3>4
    <3>7. QED
      BY <1>0, <3>5, <3>6 DEF Pass
  <2>3. QED
    BY <2>1, <2>2
<1> QED
  BY <1>2, <1>3

LEMMA RowsKeep ==
  ASSUME Inv, NEW t \in Threads, RowsInv(t), [Next]_vars
  PROVE  RowsInv(t)'
<1>1. pass \in [Threads -> Pass] /\ pass[t] \in Pass /\ PassInv(t)
  BY DEF Inv, TypeOK
<1>2. CASE UNCHANGED pass[t]
  BY <1>2 DEF RowsInv
<1>3. CASE Begin(t)
  <2>1. CASE UNCHANGED pass
    BY <2>1, <1>2
  <2>2. CASE pass' = [pass EXCEPT ![t] = [Idle EXCEPT !.pc = "list", !.uptime = clock,
                                                      !.prev = prevSamples]]
    <3>1. pass'[t].pc = "list" /\ pass'[t].rows = <<>>
      BY <1>1, <2>2 DEF Idle
    <3>2. QED
      BY <3>1 DEF RowsInv
  <2>3. QED
    BY <1>3, <2>1, <2>2 DEF Begin
<1>4. CASE List(t)
  <2>1. pass'[t].pc = "stat" /\ pass'[t].rows = pass[t].rows /\ pass[t].pc = "list"
    BY <1>1, <1>4 DEF List, Pass
  <2>2. QED
    BY <2>1 DEF RowsInv
<1>5. CASE Stat(t)
  <2>1. PICK p \in pass[t].left :
             /\ pass'[t].rows = pass[t].rows /\ pass'[t].left = pass[t].left \ {p}
             /\ \/ pass'[t].pc = "stat"
                \/ pass'[t].pc = "status" /\ pass'[t].row.pid = p
    BY <1>5, StatStep
  <2>2. QED
    BY <2>1 DEF RowsInv
<1>6. CASE Status(t)
  <2>1. PICK mem \in Nat :
          pass' = [pass EXCEPT ![t].pc = "stat", ![t].row = NoRow,
                     ![t].rows = Append(@, [pid |-> pass[t].row.pid, mem |-> mem,
                                            cpu |-> pass[t].row.cpu])]
    BY <1>6, TableAssumption DEF Status
  <2> DEFINE line == [pid |-> pass[t].row.pid, mem |-> mem, cpu |-> pass[t].row.cpu]
             rows == pass[t].rows
  <2>2. /\ pass'[t].pc = "stat" /\ pass'[t].left = pass[t].left
        /\ pass'[t].rows = Append(rows, line)
    BY <1>1, <2>1 DEF Pass
  <2>3. rows \in Seq(Listed) /\ line \in Listed /\ line.pid = pass[t].row.pid
    <3>1. pass[t].row \in Row
      BY <1>1, <1>6 DEF PassInv, Status
    <3>2. QED
      BY <1>1, <3>1 DEF Pass, Row, Listed
  <2> HIDE DEF line, rows
  <2>4. /\ DOMAIN Append(rows, line) = DOMAIN rows \cup {Len(rows) + 1}
        /\ Append(rows, line)[Len(rows) + 1] = line
        /\ \A i \in DOMAIN rows : Append(rows, line)[i] = rows[i]
    BY <2>3
  <2>5. /\ \A i, j \in DOMAIN rows : rows[i].pid = rows[j].pid => i = j
        /\ \A i \in DOMAIN rows : rows[i].pid \notin pass[t].left /\ rows[i].pid # line.pid
        /\ line.pid \notin pass[t].left
    BY <1>6, <2>3 DEF RowsInv, Status, rows
  <2>6. QED
    BY <2>2, <2>4, <2>5 DEF RowsInv
<1>7. CASE End(t)
  <2>1. pass'[t] = Idle
    BY <1>1, <1>7 DEF End
  <2>2. QED
    BY <2>1 DEF RowsInv, Idle
<1>8. CASE \E u \in Threads \ {t} : Begin(u) \/ List(u) \/ Stat(u) \/ Status(u) \/ End(u)
  <2>1. UNCHANGED pass[t]
    BY <1>1, <1>8 DEF Begin, List, Stat, Status, End
  <2>2. QED
    BY <1>2, <2>1
<1>9. CASE Tick \/ (\E p \in Mortal : Fork(p) \/ Exit(p)) \/ UNCHANGED vars
  <2>1. UNCHANGED pass[t]
    BY <1>9 DEF Tick, Fork, Exit, vars
  <2>2. QED
    BY <1>2, <2>1
<1> QED
  BY <1>3, <1>4, <1>5, <1>6, <1>7, <1>8, <1>9 DEF Next

AllRows == \A t \in Threads : RowsInv(t)

\* The rows of a pass are of different pids, in every reachable state.
LEMMA RowsDiffer == Spec => []AllRows
<1>1. Init => AllRows
  BY DEF Init, AllRows, RowsInv, Idle
<1>2. Inv /\ AllRows /\ [Next]_vars => AllRows'
  BY RowsKeep DEF AllRows
<1> QED
  BY <1>1, <1>2, Invariant, PTL DEF Spec

\* "a memory-only cut dropped exactly the CPU hogs": what _collect_processes_sync leaves
\* out of the table was outdone by _TOP_BY_MEM and by _TOP_BY_CPU rows of it, whatever
\* ties there are, and it lists no pid twice.
THEOREM BusiestAreListed == Spec => BusiestListed
<1>1. ASSUME Inv, AllRows, [Next]_vars, NEW t \in Threads, pass[t].pc = "stat", pass'[t].pc = "idle"
      PROVE  Fair(pass[t].rows, shown')
  <2>1. pass \in [Threads -> Pass] /\ pass[t] \in Pass
    BY <1>1 DEF Inv, TypeOK
  <2>2. ASSUME NEW u \in Threads, u # t, Begin(u) \/ List(u) \/ Stat(u) \/ Status(u) \/ End(u)
        PROVE  pass'[t] = pass[t]
    BY <2>1, <2>2 DEF Begin, List, Stat, Status, End
  <2>3. ~Begin(t) /\ ~List(t) /\ ~Status(t)
    BY <1>1 DEF Begin, List, Status
  <2>4. ~Stat(t)
    BY <1>1, StatStep
  <2>5. CASE End(t)
    <3>1. shown' = TopRows(pass[t].rows) /\ pass[t].rows \in Seq(Listed)
      BY <2>1, <2>5 DEF End, Pass
    <3>2. \A i, j \in DOMAIN pass[t].rows : pass[t].rows[i].pid = pass[t].rows[j].pid => i = j
      BY <1>1 DEF AllRows, RowsInv
    <3>3. QED
      BY <3>1, <3>2, CutIsFair
  <2>6. CASE \E u \in Threads \ {t} : Begin(u) \/ List(u) \/ Stat(u) \/ Status(u) \/ End(u)
    BY <1>1, <2>2, <2>6
  <2>7. CASE Tick \/ (\E p \in Mortal : Fork(p) \/ Exit(p)) \/ UNCHANGED vars
    <3>1. pass' = pass
      BY <2>7 DEF Tick, Fork, Exit, vars
    <3>2. QED
      BY <1>1, <3>1
  <2>8. QED
    BY <1>1, <2>3, <2>4, <2>5, <2>6, <2>7 DEF Next
<1>2. Inv /\ AllRows /\ [Next]_vars =>
        [\A t \in Threads : pass[t].pc = "stat" /\ pass'[t].pc = "idle" =>
           /\ \A i, j \in DOMAIN shown' : shown'[i].pid = shown'[j].pid => i = j
           /\ \A n \in DOMAIN pass[t].rows :
                LET r == pass[t].rows[n]
                IN  \/ \E i \in DOMAIN shown' : shown'[i] = r
                    \/ /\ Cardinality({i \in DOMAIN shown' : shown'[i].mem >= r.mem}) >= TopMem
                       /\ Cardinality({i \in DOMAIN shown' : shown'[i].cpu >= r.cpu}) >= TopCpu]_vars
  BY <1>1 DEF Fair
<1> QED
  BY <1>2, Invariant, RowsDiffer, PTL DEF Spec, BusiestListed
=============================================================================
