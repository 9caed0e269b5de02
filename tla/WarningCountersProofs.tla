------------------------ MODULE WarningCountersProofs ------------------------
(***************************************************************************)
(* What GET /api/warnings guarantees, both halves of it.                   *)
(*                                                                         *)
(* For any number of requests, other callers and counters, and in whatever *)
(* order the samples reach the table, a newer sample passes for an         *)
(* increase only when something went up, and what went up is reported.     *)
(*                                                                         *)
(* For any node, the rest of the answer says what the collectors found.    *)
(***************************************************************************)
EXTENDS WarningCounters, NodeWarnings, FiniteSetTheorems, WellFoundedInduction, TLAPS

Names == SUBSET Counters
Reading == [state : {"none", "failed", "ok"}, at : Nat, names : Names, bad : Names,
            value : [Counters -> Nat]]
Rows == [known : BOOLEAN, value : Nat, last : Nat]
Callers == Requests \cup Sections

TypeOK ==
  /\ fitted \in Names /\ up \in SUBSET Nics /\ blind \in Names
  /\ now \in Nat
  /\ hw \in [Counters -> Nat] /\ rose \in [Counters -> Nat]
  /\ entry \in [Collectors -> Reading]
  /\ waiting \in [Collectors -> Seq(Callers)]
  /\ busy \in SUBSET Collectors /\ raised \in [Collectors -> SUBSET Callers]
  /\ got \in [Requests -> [Collectors -> Reading]]
  /\ ready \in Seq(Requests)
  /\ table \in [Counters -> Rows]
  /\ seen \in [Counters -> Nat] /\ since \in [Counters -> Nat] /\ gone \in [Counters -> Nat]

-----------------------------------------------------------------------------
(* Samples and rows.                                                         *)

\* A sample of k that is cached or on its way to the table.
InPlay(x, k) == x = entry[k] \/ \E q \in Requests : x = got[q][k]

Good(x, n) == n \in x.names /\ n \notin x.bad

\* A value that is 0 or no less than what was counted: only a sum can lack a part.
Clean(x, n) == n \in x.names /\ (n \in x.bad => n \in Nics)

\* Since a value of n was read at this time the kernel's counter has not gone up: it is
\* the same or was reset, and so is what every later sample says.
Settled(n, value, at) ==
  rose[n] < at =>
    /\ hw[n] \in {value, 0}
    /\ \A y \in Reading : InPlay(y, Source(n)) /\ Clean(y, n) /\ y.at > at
                            => y.value[n] \in {value, 0}

\* What a sample says of a counter it lists: no more than the kernel counted since the
\* interface came; a value that was read is the kernel's until that goes up or is reset.
Sane(x, n) ==
  /\ x.at > gone[n] => x.value[n] <= hw[n]
  /\ Good(x, n) /\ x.at > rose[n] /\ x.at > gone[n] => x.value[n] = hw[n]
  /\ Good(x, n) => Settled(n, x.value[n], x.at)

SampleInv ==
  /\ \A k \in Collectors : \A x \in Reading : InPlay(x, k) =>
       x.at <= now /\ (x.state # "ok" => x.names = {})
  /\ \A n \in Counters : \A x \in Reading :
       InPlay(x, Source(n)) /\ n \in x.names => Sane(x, n)

\* A counter that has gone up since its interface came is not 0.
NodeInv ==
  \A n \in Counters : /\ rose[n] <= now /\ gone[n] <= now
                      /\ rose[n] > gone[n] => hw[n] >= 1

\* A row that was read is settled like a sample.  A followed counter is no less than its
\* row says, and if it went up and the row shows it, the row was marked since.
RowOf(n) ==
  /\ table[n].known /\ n \notin blind => Settled(n, table[n].value, seen[n]) /\ seen[n] <= now
  /\ since[n] # Never => /\ table[n].known /\ table[n].value <= hw[n]
                         /\ gone[n] < since[n] /\ since[n] <= now
  /\ since[n] # Never /\ rose[n] > since[n] /\ table[n].value = hw[n]
       => table[n].last >= rose[n]

RowInv == \A n \in Counters : RowOf(n)

\* Who computes is the first of its queue.
QueueInv == \A k \in busy : waiting[k] # <<>>

Inv == TypeOK /\ QueueInv /\ SampleInv /\ NodeInv /\ RowInv

-----------------------------------------------------------------------------
(* Facts about the definitions.                                              *)

LEMMA SourceType ==
  \A n \in Counters : /\ Source(n) \in Collectors
                      /\ n \in Nics => Source(n) = "nics" /\ n \notin Ecc
                      /\ n \notin Nics => n \in Ecc /\ Source(n) = "memory"
BY CountersAssumption DEF Counters, Collectors, Source

\* A sample that is none lists nothing.
LEMMA NoneType ==
  /\ None \in Reading /\ None.names = {} /\ None.state = "none" /\ None.at = 0
  /\ Failed \in Reading /\ Failed.names = {} /\ Failed.state = "failed" /\ Failed.at = 0
BY DEF None, Failed, Reading, Names

LEMMA RangeType ==
  ASSUME NEW S, NEW s \in Seq(S) PROVE Range(s) \subseteq S
BY DEF Range

-----------------------------------------------------------------------------
(* Types.                                                                    *)

LEMMA InitInv == Init => Inv
<1> SUFFICES ASSUME Init PROVE Inv
  OBVIOUS
<1>1. TypeOK
  <2>1. fitted \in Names
    BY CountersAssumption DEF Init, Names
  <2>2. hw \in [Counters -> Nat]
    BY DEF Init
  <2>3. NoRow \in Rows
    BY DEF NoRow, Rows, Never
  <2>4. <<>> \in Seq(Callers) /\ <<>> \in Seq(Requests)
    OBVIOUS
  <2>5. QED
    BY <2>1, <2>2, <2>3, <2>4, NoneType DEF Init, TypeOK, Names, Never
<1>2. QueueInv
  BY DEF Init, QueueInv
<1>3. \A k \in Collectors : \A x : InPlay(x, k) => x = None
  BY DEF Init, InPlay
<1>4. SampleInv
  BY <1>1, <1>3, NoneType, SourceType DEF SampleInv, Init
<1>5. NodeInv
  BY DEF Init, NodeInv, Never
<1>6. RowInv
  BY DEF Init, RowInv, RowOf, NoRow
<1>7. QED
  BY <1>1, <1>2, <1>4, <1>5, <1>6 DEF Inv

LEMMA NodeTypes ==
  ASSUME Inv,
         Tick \/ (\E n \in Counters : Rise(n)) \/ (\E n \in Nics : Unplug(n) \/ Plug(n))
  PROVE  TypeOK' /\ QueueInv'
<1> USE DEF Inv, TypeOK, QueueInv, locks, history
<1>1. CASE Tick
  BY <1>1 DEF Tick
<1>2. ASSUME NEW n \in Counters, Rise(n) PROVE TypeOK' /\ QueueInv'
  BY <1>2 DEF Rise
<1>3. ASSUME NEW n \in Nics, Unplug(n) PROVE TypeOK' /\ QueueInv'
  BY <1>3 DEF Unplug, Never
<1>4. ASSUME NEW n \in Nics, Plug(n) PROVE TypeOK' /\ QueueInv'
  BY <1>4 DEF Plug
<1>5. QED
  BY <1>1, <1>2, <1>3, <1>4

LEMMA QueueTypes ==
  ASSUME TypeOK, QueueInv, NEW q \in Callers, NEW stale \in SUBSET Collectors, Queue(q, stale)
  PROVE  /\ waiting' \in [Collectors -> Seq(Callers)] /\ busy' \in SUBSET Collectors
         /\ raised' \in [Collectors -> SUBSET Callers] /\ QueueInv'
<1>1. \A k \in Collectors : /\ waiting[k] \in Seq(Callers)
                            /\ Append(waiting[k], q) \in Seq(Callers)
                            /\ Append(waiting[k], q) # <<>>
  <2>1. ASSUME NEW s \in Seq(Callers) PROVE Append(s, q) \in Seq(Callers) /\ Append(s, q) # <<>>
    <3>1. Len(Append(s, q)) = Len(s) + 1 /\ Len(s) \in Nat
      OBVIOUS
    <3>2. Append(s, q) = <<>> => Len(Append(s, q)) = 0
      OBVIOUS
    <3>3. QED
      BY <3>1, <3>2
  <2>2. QED
    BY <2>1 DEF TypeOK
<1>2. waiting' \in [Collectors -> Seq(Callers)]
  BY <1>1 DEF Queue
<1>3. busy' \in SUBSET Collectors /\ raised' \in [Collectors -> SUBSET Callers]
  BY DEF Queue, TypeOK
<1>4. ASSUME NEW k \in busy' PROVE waiting'[k] # <<>>
  BY <1>1, <1>3, <1>4 DEF Queue, QueueInv
<1>5. QED
  BY <1>2, <1>3, <1>4 DEF QueueInv

LEMMA ReturnTypes ==
  ASSUME TypeOK, NEW k \in Collectors, waiting[k] # <<>>, NEW sample \in Reading,
         Return(k, sample)
  PROVE  /\ Head(waiting[k]) \in Callers /\ Range(Tail(waiting[k])) \subseteq Callers
         /\ waiting' \in [Collectors -> Seq(Callers)]
         /\ \A j \in Collectors : j # k => waiting'[j] = waiting[j]
         /\ got' \in [Requests -> [Collectors -> Reading]] /\ ready' \in Seq(Requests)
         /\ UNCHANGED <<env, table, history>>
         /\ \A q \in Requests, j \in Collectors :
              got'[q][j] = got[q][j] \/ (j = k /\ got'[q][j] = sample)
<1>1. waiting[k] \in Seq(Callers)
  BY DEF TypeOK
<1>2. Head(waiting[k]) \in Callers /\ Tail(waiting[k]) \in Seq(Callers)
  BY <1>1
<1>3. Range(Tail(waiting[k])) \subseteq Callers
  BY <1>2, RangeType
<1>4. /\ waiting' \in [Collectors -> Seq(Callers)]
      /\ \A j \in Collectors : j # k => waiting'[j] = waiting[j]
  BY <1>2 DEF Return, TypeOK
<1>5. got' \in [Requests -> [Collectors -> Reading]]
  BY DEF Return, TypeOK
<1>6. ready' \in Seq(Requests)
  BY DEF Return, TypeOK
<1>7. \A q \in Requests, j \in Collectors :
        got'[q][j] = got[q][j] \/ (j = k /\ got'[q][j] = sample)
  BY DEF Return, TypeOK
<1>8. QED
  BY <1>2, <1>3, <1>4, <1>5, <1>6, <1>7 DEF Return

-----------------------------------------------------------------------------
(* Steps that leave the counters alone.                                      *)

\* No new sample comes into play but those that list nothing.
Carried ==
  \A k \in Collectors : \A x \in Reading : InPlay(x, k)' => InPlay(x, k) \/ x \in {None, Failed}

LEMMA SettledKeeps ==
  ASSUME TypeOK, Carried, UNCHANGED <<hw, rose>>, NEW n \in Counters, NEW value, NEW at,
         Settled(n, value, at)
  PROVE  Settled(n, value, at)'
BY NoneType, SourceType DEF Settled, Carried, Clean, Source

LEMMA SamplesKeep ==
  ASSUME Inv, Carried, UNCHANGED <<hw, rose, gone>>, now' \in Nat, now' >= now
  PROVE  SampleInv' /\ NodeInv'
<1>1. ASSUME NEW k \in Collectors, NEW x \in Reading, InPlay(x, k)'
      PROVE  x.at <= now' /\ (x.state # "ok" => x.names = {})
  <2>1. x.at \in Nat /\ now \in Nat
    BY DEF Reading, Inv, TypeOK
  <2>2. CASE InPlay(x, k)
    BY <2>1, <2>2 DEF Inv, SampleInv
  <2>3. CASE x \in {None, Failed}
    BY <2>3, NoneType
  <2>4. QED
    BY <1>1, <2>2, <2>3 DEF Carried
<1>2. ASSUME NEW n \in Counters, NEW x \in Reading, InPlay(x, Source(n))', n \in x.names
      PROVE  Sane(x, n)'
  <2>1. InPlay(x, Source(n))
    BY <1>2, NoneType, SourceType DEF Carried, Source
  <2>2. Sane(x, n)
    BY <1>2, <2>1 DEF Inv, SampleInv
  <2>3. Good(x, n) => Settled(n, x.value[n], x.at)'
    BY <2>2, SettledKeeps DEF Sane, Inv
  <2>4. QED
    BY <2>2, <2>3 DEF Sane, Good
<1>3. SampleInv'
  BY <1>1, <1>2 DEF SampleInv, Source
<1>4. NodeInv'
  BY DEF Inv, NodeInv, TypeOK
<1>5. QED
  BY <1>3, <1>4

LEMMA RowsKeep ==
  ASSUME Inv, Carried, UNCHANGED <<hw, rose, gone, table, blind, seen, since>>,
         now' \in Nat, now' >= now
  PROVE  RowInv'
<1> SUFFICES ASSUME NEW n \in Counters PROVE RowOf(n)'
  BY DEF RowInv
<1>1. RowOf(n) /\ TypeOK
  BY DEF Inv, RowInv
<1>2. table[n].known /\ n \notin blind => Settled(n, table[n].value, seen[n])'
  BY <1>1, SettledKeeps DEF RowOf
<1>3. QED
  BY <1>1, <1>2 DEF RowOf, TypeOK

LEMMA CarriedKeeps ==
  ASSUME Inv, Carried, TypeOK', QueueInv', now' >= now,
         UNCHANGED <<hw, rose, gone, table, blind, seen, since>>
  PROVE  Inv'
<1>1. now' \in Nat
  BY DEF TypeOK
<1>2. QED
  BY <1>1, SamplesKeep, RowsKeep DEF Inv

LEMMA TickKeeps == ASSUME Inv, Tick PROVE Inv'
<1>1. Carried
  BY DEF Tick, Carried, InPlay
<1>2. now' >= now
  BY DEF Tick, Inv, TypeOK
<1>3. QED
  BY <1>1, <1>2, NodeTypes, CarriedKeeps DEF Tick, history

LEMMA PlugKeeps == ASSUME Inv, NEW c \in Nics, Plug(c) PROVE Inv'
<1>1. Carried
  BY DEF Plug, Carried, InPlay
<1>2. now' >= now
  BY DEF Plug, Inv, TypeOK
<1>3. QED
  BY <1>1, <1>2, NodeTypes, CarriedKeeps DEF Plug, history

LEMMA ArriveKeeps == ASSUME Inv, NEW r \in Requests, Arrive(r) PROVE Inv'
<1>1. TypeOK /\ QueueInv /\ r \in Callers
  BY DEF Inv, Callers
<1>2. PICK stale \in SUBSET Collectors : Queue(r, stale)
  BY DEF Arrive
<1>3. \A q \in Requests, k \in Collectors : got'[q][k] \in {got[q][k], entry[k], None}
  BY <1>1 DEF Arrive, TypeOK
<1>4. got' \in [Requests -> [Collectors -> Reading]]
  BY <1>1, NoneType DEF Arrive, TypeOK
<1>5. ready' \in Seq(Requests)
  BY <1>1 DEF Arrive, TypeOK
<1>6. TypeOK' /\ QueueInv'
  BY <1>1, <1>2, <1>4, <1>5, QueueTypes DEF Arrive, TypeOK, env, history
<1>7. Carried
  BY <1>3 DEF Carried, InPlay, Arrive
<1>8. now' >= now
  BY <1>1 DEF Arrive, env, TypeOK
<1>9. QED
  BY <1>6, <1>7, <1>8, CarriedKeeps DEF Arrive, env, history

LEMMA PollKeeps ==
  ASSUME Inv, NEW s \in Sections, NEW k \in Collectors, Poll(s, k) PROVE Inv'
<1>1. TypeOK /\ QueueInv /\ s \in Callers /\ {k} \in SUBSET Collectors
  BY DEF Inv, Callers
<1>2. TypeOK' /\ QueueInv'
  BY <1>1, QueueTypes DEF Poll, TypeOK, env, history
<1>3. Carried
  BY DEF Carried, InPlay, Poll
<1>4. now' >= now
  BY <1>1 DEF Poll, env, TypeOK
<1>5. QED
  BY <1>2, <1>3, <1>4, CarriedKeeps DEF Poll, env, history

\* The first of a queue goes with a sample that is already in play, or with none.
LEMMA ReturnKeeps ==
  ASSUME Inv, NEW k \in Collectors, waiting[k] # <<>>, UNCHANGED entry,
         busy' \in {busy, busy \ {k}}, k \notin busy',
         raised' \in [Collectors -> SUBSET Callers],
         NEW sample \in {entry[k], Failed}, Return(k, sample)
  PROVE  Inv'
<1>1. TypeOK /\ QueueInv /\ sample \in Reading
  BY NoneType DEF Inv, TypeOK
<1>2. TypeOK'
  BY <1>1, ReturnTypes DEF TypeOK, env, history
<1>3. QueueInv'
  BY <1>1, ReturnTypes DEF QueueInv, TypeOK
<1>4. Carried
  <2>1. \A q \in Requests, j \in Collectors :
          got'[q][j] = got[q][j] \/ (j = k /\ got'[q][j] = sample)
    BY <1>1, ReturnTypes
  <2>2. QED
    BY <2>1 DEF Carried, InPlay
<1>5. UNCHANGED <<env, table, history>>
  BY <1>1, ReturnTypes
<1>6. now' >= now
  BY <1>1, <1>5 DEF env, TypeOK
<1>7. QED
  BY <1>2, <1>3, <1>4, <1>5, <1>6, CarriedKeeps DEF env, history

LEMMA WakeKeeps == ASSUME Inv, NEW k \in Collectors, Wake(k) PROVE Inv'
<1>1. /\ waiting[k] # <<>> /\ k \notin busy /\ UNCHANGED entry
      /\ raised' \in [Collectors -> SUBSET Callers]
  BY DEF Wake, Inv, TypeOK
<1>2. CASE Return(k, entry[k]) /\ UNCHANGED busy
  BY <1>1, <1>2, ReturnKeeps
<1>3. CASE Return(k, Failed) /\ UNCHANGED busy
  BY <1>1, <1>3, ReturnKeeps
<1>4. CASE busy' = busy \cup {k} /\ UNCHANGED <<env, waiting, got, ready, table, history>>
  <2>1. TypeOK' /\ QueueInv'
    BY <1>1, <1>4 DEF Inv, TypeOK, QueueInv, env, history
  <2>2. Carried
    BY <1>1, <1>4 DEF Carried, InPlay
  <2>3. now' >= now
    BY <1>4 DEF env, Inv, TypeOK
  <2>4. QED
    BY <1>4, <2>1, <2>2, <2>3, CarriedKeeps DEF env, history
<1>5. QED
  BY <1>2, <1>3, <1>4 DEF Wake

-----------------------------------------------------------------------------
(* The counters move.                                                        *)

\* A step of the node that leaves every cache and every request alone.
LEMMA RiseKeeps == ASSUME Inv, NEW c \in Counters, Rise(c) PROVE Inv'
<1>1. /\ UNCHANGED <<entry, got, now, gone, table, blind, seen, since>>
      /\ hw' = [hw EXCEPT ![c] = @ + 1] /\ rose' = [rose EXCEPT ![c] = now]
  BY DEF Rise, history
<1>2. TypeOK' /\ QueueInv' /\ TypeOK
  BY NodeTypes DEF Inv
<1>3. \A k \in Collectors : \A x : InPlay(x, k)' <=> InPlay(x, k)
  BY <1>1 DEF InPlay
<1>4. ASSUME NEW n \in Counters, NEW value, NEW at \in Nat, at <= now, Settled(n, value, at)
      PROVE  Settled(n, value, at)'
  BY <1>1, <1>2, <1>3, <1>4, SourceType DEF Settled, TypeOK, Source, Clean
<1>5. NodeInv'
  BY <1>1, <1>2 DEF Inv, NodeInv, TypeOK
<1>6. ASSUME NEW n \in Counters, NEW x \in Reading, InPlay(x, Source(n))', n \in x.names
      PROVE  Sane(x, n)'
  <2>1. InPlay(x, Source(n)) /\ Source(n) \in Collectors
    BY <1>3, <1>6, SourceType DEF Source
  <2>2. Sane(x, n) /\ x.at <= now
    BY <1>6, <2>1 DEF Inv, SampleInv
  <2>3. x.at \in Nat /\ x.value[n] \in Nat
    BY DEF Reading
  <2>4. Good(x, n) => Settled(n, x.value[n], x.at)'
    BY <1>4, <2>2, <2>3 DEF Sane
  <2>5. QED
    BY <1>1, <1>2, <2>2, <2>3, <2>4 DEF Sane, Good, TypeOK
<1>7. SampleInv'
  BY <1>1, <1>3, <1>6 DEF Inv, SampleInv, Source
<1>8. ASSUME NEW n \in Counters PROVE RowOf(n)'
  <2>1. RowOf(n) /\ seen[n] \in Nat /\ table[n] \in Rows
    BY <1>2 DEF Inv, RowInv, TypeOK
  <2>2. PICK value \in Nat, at \in Nat : value = table[n].value /\ at = seen[n]
    BY <2>1 DEF Rows
  <2>3. table[n].known /\ n \notin blind => Settled(n, value, at)'
    BY <1>4, <2>1, <2>2 DEF RowOf
  <2>4. value = table'[n].value /\ at = seen'[n]
    BY <1>1, <2>2
  <2>5. table'[n].known /\ n \notin blind' =>
          Settled(n, table[n].value, seen[n])' /\ seen'[n] <= now'
    BY <1>1, <2>1, <2>3, <2>4 DEF RowOf
  <2>6. /\ now \in Nat /\ hw[n] \in Nat /\ hw'[n] \in Nat /\ rose[n] \in Nat
        /\ since[n] \in Nat /\ gone[n] \in Nat /\ table[n].last \in Nat
    BY <1>2, <2>1 DEF TypeOK, Rows
  <2>7. UNCHANGED <<now, gone[n], table[n], since[n]>>
    BY <1>1
  <2>8. CASE n = c
    <3>1. hw'[n] = hw[n] + 1 /\ rose'[n] = now
      BY <1>1, <1>2, <2>8 DEF TypeOK
    <3>2. table[n].value \in Nat
      BY <2>2
    <3>3. QED
      BY <2>1, <2>5, <2>6, <2>7, <3>1, <3>2 DEF RowOf
  <2>9. CASE n # c
    <3>1. hw'[n] = hw[n] /\ rose'[n] = rose[n]
      BY <1>1, <1>2, <2>9 DEF TypeOK
    <3>2. QED
      BY <2>1, <2>5, <2>7, <3>1 DEF RowOf
  <2>10. QED
    BY <2>8, <2>9
<1>9. QED
  BY <1>2, <1>5, <1>7, <1>8 DEF Inv, RowInv

LEMMA UnplugKeeps == ASSUME Inv, NEW c \in Nics, Unplug(c) PROVE Inv'
<1>1. /\ UNCHANGED <<entry, got, now, rose, table, blind, seen>>
      /\ hw' = [hw EXCEPT ![c] = 0] /\ gone' = [gone EXCEPT ![c] = now]
      /\ since' = [since EXCEPT ![c] = Never]
  BY DEF Unplug
<1>2. TypeOK' /\ QueueInv' /\ TypeOK
  BY NodeTypes DEF Inv
<1>3. \A k \in Collectors : \A x : InPlay(x, k)' <=> InPlay(x, k)
  BY <1>1 DEF InPlay
<1>4. ASSUME NEW n \in Counters, NEW value, NEW at \in Nat, Settled(n, value, at)
      PROVE  Settled(n, value, at)'
  BY <1>1, <1>2, <1>3, <1>4, SourceType DEF Settled, TypeOK, Source, Clean
<1>5. NodeInv'
  BY <1>1, <1>2 DEF Inv, NodeInv, TypeOK
<1>6. ASSUME NEW n \in Counters, NEW x \in Reading, InPlay(x, Source(n))', n \in x.names
      PROVE  Sane(x, n)'
  <2>1. InPlay(x, Source(n)) /\ Source(n) \in Collectors
    BY <1>3, <1>6, SourceType DEF Source
  <2>2. Sane(x, n) /\ x.at <= now
    BY <1>6, <2>1 DEF Inv, SampleInv
  <2>3. x.at \in Nat /\ x.value[n] \in Nat
    BY DEF Reading
  <2>4. Good(x, n) => Settled(n, x.value[n], x.at)'
    BY <1>4, <2>2, <2>3 DEF Sane
  <2>5. QED
    BY <1>1, <1>2, <2>2, <2>3, <2>4 DEF Sane, Good, TypeOK
<1>7. SampleInv'
  BY <1>1, <1>3, <1>6 DEF Inv, SampleInv, Source
<1>8. ASSUME NEW n \in Counters PROVE RowOf(n)'
  <2>1. RowOf(n) /\ seen[n] \in Nat /\ table[n] \in Rows
    BY <1>2 DEF Inv, RowInv, TypeOK
  <2>2. PICK value \in Nat, at \in Nat : value = table[n].value /\ at = seen[n]
    BY <2>1 DEF Rows
  <2>3. table[n].known /\ n \notin blind => Settled(n, value, at)'
    BY <1>4, <2>1, <2>2 DEF RowOf
  <2>4. value = table'[n].value /\ at = seen'[n]
    BY <1>1, <2>2
  <2>5. table'[n].known /\ n \notin blind' =>
          Settled(n, table[n].value, seen[n])' /\ seen'[n] <= now'
    BY <1>1, <2>1, <2>3, <2>4 DEF RowOf
  <2>6. /\ now \in Nat /\ hw[n] \in Nat /\ hw'[n] \in Nat /\ rose[n] \in Nat
        /\ since[n] \in Nat /\ gone[n] \in Nat /\ table[n].last \in Nat
    BY <1>2, <2>1 DEF TypeOK, Rows
  <2>7. QED
    BY <1>1, <1>2, <2>1, <2>2, <2>5, <2>6 DEF RowOf, TypeOK
<1>9. QED
  BY <1>2, <1>5, <1>7, <1>8 DEF Inv, RowInv

-----------------------------------------------------------------------------
(* A collector answers.                                                      *)

\* What a new sample y of k is: of now, with the kernel's values where it was read.
New(y, k) ==
  /\ y.state = "ok" /\ y.at = now
  /\ \A n \in y.names : /\ Source(n) = k
                        /\ y.value[n] <= hw[n]
                        /\ n \in y.bad /\ n \in Nics => y.value[n] = 0
                        /\ n \notin y.bad => y.value[n] = hw[n]

LEMMA SamplesType ==
  ASSUME TypeOK, NEW read \in Names, NEW names \in SUBSET read, NEW k \in Collectors,
         \A n \in names : Source(n) = k, NEW y \in Samples(names, read)
  PROVE  y \in Reading /\ New(y, k)
<1>1. PICK bad \in Refusals(read) :
        y \in {[state |-> "ok", at |-> now, names |-> names, bad |-> bad, value |-> value] :
                 value \in {[n \in Counters |-> IF n \in bad THEN v[n]
                                               ELSE IF n \in read THEN hw[n] ELSE 0] :
                              v \in {v \in [bad -> 0..MaxValue] : \A n \in bad : v[n] \in Refused(n)}}}
  BY DEF Samples
<1>2. PICK v \in [bad -> 0..MaxValue] :
        /\ \A n \in bad : v[n] \in Refused(n)
        /\ y = [state |-> "ok", at |-> now, names |-> names, bad |-> bad,
                value |-> [n \in Counters |-> IF n \in bad THEN v[n]
                                              ELSE IF n \in read THEN hw[n] ELSE 0]]
  BY <1>1
<1>3. bad \in SUBSET read /\ \A n \in bad : v[n] \in Nat
  BY <1>2, CountersAssumption DEF Refusals
<1>4. /\ now \in Nat /\ read \subseteq Counters
      /\ \A n \in Counters : hw[n] \in Nat
  BY DEF TypeOK, Names
<1>5. [n \in Counters |-> IF n \in bad THEN v[n] ELSE IF n \in read THEN hw[n] ELSE 0]
        \in [Counters -> Nat]
  BY <1>3, <1>4
<1>6. y \in Reading
  BY <1>2, <1>3, <1>4, <1>5 DEF Reading, Names
<1>7. ASSUME NEW n \in names
      PROVE  /\ y.value[n] <= hw[n]
             /\ n \in bad /\ n \in Nics => y.value[n] = 0
             /\ n \notin bad => y.value[n] = hw[n]
  <2>1. n \in Counters /\ n \in read /\ hw[n] \in Nat
    BY <1>4
  <2>2. y.value[n] = IF n \in bad THEN v[n] ELSE hw[n]
    BY <1>2, <2>1
  <2>3. n \in bad => v[n] \in Refused(n) /\ v[n] \in Nat
    BY <1>2, <1>3
  <2>4. n \in Nics => n \notin Ecc
    BY CountersAssumption
  <2>5. QED
    BY <2>1, <2>2, <2>3, <2>4 DEF Refused
<1>8. QED
  BY <1>2, <1>6, <1>7 DEF New

LEMMA NewSample ==
  ASSUME TypeOK, NEW k \in Collectors, NEW y \in SamplesOf(k)
  PROVE  y \in Reading /\ New(y, k)
<1>1. CASE k = "nics"
  <2>1. PICK names \in Listings : y \in Samples(names, up)
    BY <1>1 DEF SamplesOf, NicSamples
  <2>2. names \in SUBSET up /\ up \in Names
    BY <2>1 DEF Listings, TypeOK, Names, Counters
  <2>3. \A n \in names : Source(n) = k
    BY <1>1, <2>2, SourceType DEF TypeOK, Names
  <2>4. QED
    BY <2>1, <2>2, <2>3, SamplesType
<1>2. CASE k # "nics"
  <2>1. y \in Samples(Ecc \cap fitted, Ecc \cap fitted) /\ k = "memory"
    BY <1>2 DEF SamplesOf, MemorySamples, Collectors
  <2>2. Ecc \cap fitted \in Names /\ \A n \in Ecc \cap fitted : Source(n) = k
    BY <2>1 DEF Names, Counters, Source
  <2>3. QED
    BY <2>1, <2>2, SamplesType
<1>3. QED
  BY <1>1, <1>2

\* The outcome y of a computation of k reaches all who wait for it; those who then have

\* A new sample agrees with every value that was settled before, and is settled itself.
LEMMA SampleKeeps ==
  ASSUME Inv, NEW k \in Collectors, k \in busy, NEW y \in SamplesOf(k),
         busy' = busy \ {k}, entry' = [entry EXCEPT ![k] = y],
         raised' = [raised EXCEPT ![k] = {}], Return(k, y)
  PROVE  Inv'
<1>1. TypeOK /\ QueueInv /\ waiting[k] # <<>> /\ y \in Reading /\ New(y, k)
  BY NewSample DEF Inv, QueueInv
<1>2. /\ UNCHANGED <<now, hw, rose, gone, table, blind, seen, since>>
      /\ waiting' \in [Collectors -> Seq(Callers)]
      /\ \A j \in Collectors : j # k => waiting'[j] = waiting[j]
      /\ \A q \in Requests, j \in Collectors :
           got'[q][j] = got[q][j] \/ (j = k /\ got'[q][j] = y)
  BY <1>1, ReturnTypes DEF env, history
<1>3. TypeOK'
  BY <1>1, ReturnTypes DEF TypeOK, env, history
<1>4. QueueInv'
  BY <1>1, <1>2 DEF QueueInv, TypeOK
<1>5. \A j \in Collectors : \A x \in Reading : InPlay(x, j)' => InPlay(x, j) \/ (x = y /\ j = k)
  BY <1>1, <1>2 DEF InPlay, TypeOK
<1>6. /\ now \in Nat /\ y.at = now
      /\ \A n \in Counters : hw[n] \in Nat /\ rose[n] \in Nat /\ gone[n] \in Nat
      /\ \A x \in Reading : x.at \in Nat
  BY <1>1 DEF TypeOK, New, Reading
<1>7. ASSUME NEW n \in Counters, NEW value, NEW at, Settled(n, value, at)
      PROVE  Settled(n, value, at)'
  <2>1. Clean(y, n) => y.value[n] \in {hw[n], 0}
    BY <1>1, SourceType DEF Clean, New
  <2>2. QED
    BY <1>2, <1>5, <1>7, <2>1, SourceType DEF Settled, Source, Clean
<1>8. ASSUME NEW n \in Counters, n \in y.names PROVE Sane(y, n)'
  <2>1. y.value[n] <= hw[n] /\ (n \notin y.bad => y.value[n] = hw[n])
    BY <1>1, <1>8 DEF New
  <2>2. \A x \in Reading : InPlay(x, Source(n))' => ~(x.at > y.at)
    <3>1. Source(n) \in Collectors
      BY SourceType
    <3>2. \A x \in Reading : InPlay(x, Source(n)) => x.at <= now
      BY <3>1 DEF Inv, SampleInv
    <3>3. QED
      BY <1>5, <1>6, <3>1, <3>2 DEF Source
  <2>3. Good(y, n) => Settled(n, y.value[n], y.at)'
    BY <1>2, <2>1, <2>2 DEF Settled, Good, Source
  <2>4. QED
    BY <1>2, <2>1, <2>3 DEF Sane, Good
<1>9. ASSUME NEW n \in Counters, NEW x \in Reading, InPlay(x, Source(n))', n \in x.names
      PROVE  Sane(x, n)'
  <2>1. CASE x = y
    BY <1>8, <1>9, <2>1
  <2>2. CASE InPlay(x, Source(n))
    <3>1. Sane(x, n)
      BY <1>9, <2>2 DEF Inv, SampleInv
    <3>2. Good(x, n) => Settled(n, x.value[n], x.at)'
      BY <1>7, <3>1 DEF Sane
    <3>3. QED
      BY <1>2, <3>1, <3>2 DEF Sane, Good
  <2>3. QED
    BY <1>5, <1>9, <2>1, <2>2, SourceType DEF Source
<1>10. ASSUME NEW j \in Collectors, NEW x \in Reading, InPlay(x, j)'
       PROVE  x.at <= now' /\ (x.state # "ok" => x.names = {})
  BY <1>1, <1>2, <1>5, <1>6, <1>10 DEF Inv, SampleInv, New
<1>11. SampleInv'
  BY <1>9, <1>10 DEF SampleInv, Source
<1>12. NodeInv'
  BY <1>2 DEF Inv, NodeInv
<1>13. ASSUME NEW n \in Counters PROVE RowOf(n)'
  <2>1. RowOf(n) /\ seen[n] \in Nat /\ table[n] \in Rows
    BY <1>1 DEF Inv, RowInv, TypeOK
  <2>2. PICK value \in Nat, at \in Nat : value = table[n].value /\ at = seen[n]
    BY <2>1 DEF Rows
  <2>3. table[n].known /\ n \notin blind => Settled(n, value, at)'
    BY <1>7, <2>1, <2>2 DEF RowOf
  <2>4. value = table'[n].value /\ at = seen'[n]
    BY <1>2, <2>2
  <2>5. QED
    BY <1>2, <2>1, <2>3, <2>4 DEF RowOf
<1>14. QED
  BY <1>3, <1>4, <1>11, <1>12, <1>13 DEF Inv, RowInv

LEMMA CompleteKeeps == ASSUME Inv, NEW k \in Collectors, Complete(k) PROVE Inv'
<1>1. k \in busy /\ waiting[k] # <<>> /\ busy' = busy \ {k} /\ TypeOK
  BY DEF Complete, Inv, QueueInv
<1>2. ASSUME NEW y \in SamplesOf(k), entry' = [entry EXCEPT ![k] = y],
             raised' = [raised EXCEPT ![k] = {}], Return(k, y)
      PROVE  Inv'
  BY <1>1, <1>2, SampleKeeps
<1>3. CASE /\ raised' = [raised EXCEPT ![k] = Range(Tail(waiting[k]))]
           /\ Return(k, Failed) /\ UNCHANGED entry
  <2>1. Range(Tail(waiting[k])) \subseteq Callers
    BY <1>1, <1>3, NoneType, ReturnTypes
  <2>2. raised' \in [Collectors -> SUBSET Callers]
    BY <1>1, <1>3, <2>1 DEF TypeOK
  <2>3. QED
    BY <1>1, <1>3, <2>2, ReturnKeeps
<1>4. QED
  BY <1>2, <1>3 DEF Complete

-----------------------------------------------------------------------------
(* A request aggregates.                                                     *)

\* What becomes of a counter of which the answer has the sample x.
RowStep(n, x) ==
  /\ n \in x.names => /\ seen'[n] = x.at /\ (n \in blind' <=> n \in x.bad)
                      /\ table'[n] = Bumped(n, x.value[n])
                      /\ since'[n] = IF x.at <= gone[n] THEN Never
                                     ELSE IF since[n] = Never THEN now ELSE since[n]
  /\ n \notin x.names => /\ seen'[n] = seen[n] /\ (n \in blind' <=> n \in blind)
                         /\ \/ table'[n] = table[n] /\ since'[n] = since[n]
                            \/ table'[n] = NoRow /\ since'[n] = Never

LEMMA AggregateRow ==
  ASSUME Inv, NEW q \in Requests, Aggregate(q), NEW n \in Counters
  PROVE  RowStep(n, got[q][Source(n)])
<1>1. TypeOK /\ Source(n) \in Collectors
  BY SourceType DEF Inv
<1>2. n \in Sampled(q) <=> n \in got[q][Source(n)].names
  BY DEF Sampled
<1>3. n \in Forgotten(q) => n \notin got[q][Source(n)].names
  BY SourceType DEF Forgotten
<1>4. /\ table'[n] = IF n \in Sampled(q) THEN Row(q, n)
                     ELSE IF n \in Forgotten(q) THEN NoRow ELSE table[n]
      /\ n \in blind' <=> IF n \in Sampled(q) THEN n \in got[q][Source(n)].bad ELSE n \in blind
      /\ seen'[n] = IF n \in Sampled(q) THEN got[q][Source(n)].at ELSE seen[n]
      /\ since'[n] = IF n \in Forgotten(q) THEN Never
                     ELSE IF n \notin Sampled(q) THEN since[n]
                     ELSE IF got[q][Source(n)].at <= gone[n] THEN Never
                     ELSE IF since[n] = Never THEN now ELSE since[n]
  BY DEF Aggregate
<1>5. Row(q, n) = Bumped(n, got[q][Source(n)].value[n])
  BY DEF Row
<1>6. QED
  BY <1>2, <1>3, <1>4, <1>5 DEF RowStep

\* A row that is known and sees another value than its own and 0 is marked now.
LEMMA BumpedFacts ==
  ASSUME TypeOK, NEW n \in Counters, NEW value \in Nat
  PROVE  /\ Bumped(n, value) \in Rows
         /\ Bumped(n, value).known /\ Bumped(n, value).value = value
         /\ table[n].known /\ value \notin {table[n].value, 0} => Bumped(n, value).last = now
         /\ ~(table[n].known /\ value \notin {table[n].value, 0}) =>
              Bumped(n, value).last = table[n].last
BY DEF Bumped, TypeOK, Rows

LEMMA AggregateTypes ==
  ASSUME Inv, NEW q \in Requests, Aggregate(q)
  PROVE  TypeOK' /\ QueueInv'
<1>1. TypeOK /\ QueueInv
  BY DEF Inv
<1>2. UNCHANGED <<env, entry, locks, gone>>
  BY DEF Aggregate
<1>3. ready' \in Seq(Requests)
  BY <1>1 DEF Aggregate, TypeOK
<1>4. got' \in [Requests -> [Collectors -> Reading]]
  BY <1>1, NoneType DEF Aggregate, TypeOK
<1>5. /\ DOMAIN table' = Counters /\ DOMAIN seen' = Counters /\ DOMAIN since' = Counters
      /\ table' = [n \in Counters |-> table'[n]] /\ seen' = [n \in Counters |-> seen'[n]]
      /\ since' = [n \in Counters |-> since'[n]] /\ blind' \in Names
  BY DEF Aggregate, Names
<1>6. ASSUME NEW n \in Counters
      PROVE  table'[n] \in Rows /\ seen'[n] \in Nat /\ since'[n] \in Nat
  <2>1. PICK x \in Reading : x = got[q][Source(n)]
    BY <1>1, SourceType DEF TypeOK
  <2>2. RowStep(n, x)
    BY <2>1, AggregateRow
  <2>3. x.at \in Nat /\ x.value[n] \in Nat
    BY DEF Reading
  <2>4. Bumped(n, x.value[n]) \in Rows /\ NoRow \in Rows
    BY <1>1, <2>3, BumpedFacts DEF NoRow, Rows, Never
  <2>5. QED
    BY <1>1, <2>2, <2>3, <2>4 DEF RowStep, TypeOK, Never
<1>7. table' \in [Counters -> Rows] /\ seen' \in [Counters -> Nat] /\ since' \in [Counters -> Nat]
  BY <1>5, <1>6
<1>8. TypeOK'
  BY <1>1, <1>2, <1>3, <1>4, <1>5, <1>7 DEF TypeOK, env, locks
<1>9. QueueInv'
  BY <1>1, <1>2 DEF QueueInv, locks
<1>10. QED
  BY <1>8, <1>9

LEMMA AggregateKeeps == ASSUME Inv, NEW q \in Requests, Aggregate(q) PROVE Inv'
<1>1. TypeOK /\ TypeOK' /\ QueueInv'
  BY AggregateTypes DEF Inv
<1>2. UNCHANGED <<now, hw, rose, gone, entry>>
  BY DEF Aggregate, env
<1>3. Carried
  <2>1. \A r \in Requests, k \in Collectors : got'[r][k] \in {got[r][k], None}
    BY <1>1 DEF Aggregate, TypeOK
  <2>2. QED
    BY <1>2, <2>1 DEF Carried, InPlay
<1>4. SampleInv' /\ NodeInv'
  <2>1. now' \in Nat /\ now' >= now
    BY <1>1, <1>2 DEF TypeOK
  <2>2. QED
    BY <1>2, <1>3, <2>1, SamplesKeep
<1>5. ASSUME NEW n \in Counters PROVE RowOf(n)'
  <2>1. PICK x \in Reading : x = got[q][Source(n)]
    BY <1>1, SourceType DEF TypeOK
  <2>2. RowStep(n, x) /\ RowOf(n)
    BY <2>1, AggregateRow DEF Inv, RowInv
  <2>3. /\ x.at \in Nat /\ x.value[n] \in Nat /\ now \in Nat /\ hw[n] \in Nat
        /\ rose[n] \in Nat /\ gone[n] \in Nat /\ since[n] \in Nat /\ seen[n] \in Nat
        /\ table[n] \in Rows
    BY <1>1 DEF Reading, TypeOK
  <2>4. PICK value \in Nat, at \in Nat : value = table'[n].value /\ at = seen'[n]
    BY <1>1 DEF TypeOK, Rows
  <2>5. /\ rose[n] <= now /\ gone[n] <= now /\ (rose[n] > gone[n] => hw[n] >= 1)
    BY DEF Inv, NodeInv
  <2>6. CASE n \in x.names
    <3>1. x.at <= now /\ Sane(x, n)
      <4>1. Source(n) \in Collectors /\ InPlay(x, Source(n))
        BY <2>1, SourceType DEF InPlay
      <4>2. QED
        BY <2>6, <4>1 DEF Inv, SampleInv
    <3>2. PICK row \in Rows : row = Bumped(n, x.value[n])
      BY <1>1, <2>3, BumpedFacts
    <3>3. /\ row.known /\ row.value = x.value[n]
          /\ table[n].known /\ row.value \notin {table[n].value, 0} => row.last = now
          /\ row.value = table[n].value => row.last = table[n].last
      BY <1>1, <2>3, <3>2, BumpedFacts
    <3>4. /\ table'[n] = row /\ seen'[n] = x.at /\ (n \in blind' <=> n \in x.bad)
          /\ since'[n] = IF x.at <= gone[n] THEN Never
                         ELSE IF since[n] = Never THEN now ELSE since[n]
      BY <2>2, <2>6, <3>2 DEF RowStep
    <3>5. n \notin blind' => Settled(n, value, at) /\ seen'[n] <= now
      BY <2>4, <2>6, <3>1, <3>3, <3>4 DEF Sane, Good
    <3>6. n \notin blind' => Settled(n, table[n].value, seen[n])' /\ seen'[n] <= now'
      <4>1. n \notin blind' => Settled(n, value, at)'
        BY <1>1, <1>2, <1>3, <3>5, SettledKeeps
      <4>2. QED
        BY <1>2, <2>4, <3>5, <4>1
    <3>7. since'[n] # Never => /\ table'[n].known /\ table'[n].value <= hw'[n]
                               /\ gone'[n] < since'[n] /\ since'[n] <= now'
      BY <1>2, <2>2, <2>3, <2>5, <3>1, <3>3, <3>4 DEF RowOf, Sane, Never
    <3>8. since'[n] # Never /\ rose'[n] > since'[n] /\ table'[n].value = hw'[n]
            => table'[n].last >= rose'[n]
      <4>1. SUFFICES ASSUME since'[n] # Never, rose[n] > since'[n], row.value = hw[n]
                     PROVE  row.last >= rose[n]
        BY <1>2, <3>4
      <4>2. since[n] # Never /\ since'[n] = since[n]
        BY <2>3, <2>5, <3>4, <4>1
      <4>3. table[n].known /\ gone[n] < since[n] /\ hw[n] >= 1
        BY <2>2, <2>3, <2>5, <4>1, <4>2 DEF RowOf
      <4>4. CASE table[n].value = hw[n]
        BY <2>2, <3>3, <4>1, <4>2, <4>4 DEF RowOf
      <4>5. CASE table[n].value # hw[n]
        BY <2>3, <2>5, <3>3, <4>1, <4>3, <4>5
      <4>6. QED
        BY <4>4, <4>5
    <3>9. QED
      BY <3>6, <3>7, <3>8 DEF RowOf
  <2>7. CASE n \notin x.names /\ table'[n] = table[n] /\ since'[n] = since[n]
    <3>1. seen'[n] = seen[n] /\ (n \in blind' <=> n \in blind)
      BY <2>2, <2>7 DEF RowStep
    <3>2. table[n].known /\ n \notin blind => Settled(n, value, at)'
      BY <1>1, <1>2, <1>3, <2>2, <2>4, <2>7, <3>1, SettledKeeps DEF RowOf
    <3>3. table'[n].known /\ n \notin blind' =>
            Settled(n, table[n].value, seen[n])' /\ seen'[n] <= now'
      BY <1>2, <2>2, <2>4, <2>7, <3>1, <3>2 DEF RowOf
    <3>4. QED
      BY <1>2, <2>2, <2>7, <3>3 DEF RowOf
  <2>8. CASE n \notin x.names /\ table'[n] = NoRow /\ since'[n] = Never
    BY <2>8 DEF RowOf, NoRow
  <2>9. QED
    BY <2>2, <2>6, <2>7, <2>8 DEF RowStep
<1>6. QED
  BY <1>1, <1>4, <1>5 DEF Inv, RowInv

-----------------------------------------------------------------------------
(* The invariant and what follows from it.                                   *)

LEMMA StutterKeeps == ASSUME Inv, UNCHANGED vars PROVE Inv'
<1>1. Carried /\ now' >= now
  BY DEF vars, env, Carried, InPlay, Inv, TypeOK
<1>2. TypeOK' /\ QueueInv'
  BY DEF vars, env, locks, history, Inv, TypeOK, QueueInv
<1>3. QED
  BY <1>1, <1>2, CarriedKeeps DEF vars, env, history

\* The inductive invariant behind the theorems below.
THEOREM Invariant == Spec => []Inv
<1>1. Inv /\ [Next]_vars => Inv'
  <2> SUFFICES ASSUME Inv, [Next]_vars PROVE Inv'
    OBVIOUS
  <2>1. CASE Tick
    BY <2>1, TickKeeps
  <2>2. CASE \E n \in Counters : Rise(n)
    BY <2>2, RiseKeeps
  <2>3. CASE \E n \in Nics : Unplug(n) \/ Plug(n)
    BY <2>3, UnplugKeeps, PlugKeeps
  <2>4. CASE \E q \in Requests : Arrive(q) \/ Aggregate(q)
    BY <2>4, ArriveKeeps, AggregateKeeps
  <2>5. CASE \E k \in Collectors : Complete(k) \/ Wake(k)
    BY <2>5, CompleteKeeps, WakeKeeps
  <2>6. CASE \E s \in Sections, k \in Collectors : Poll(s, k)
    BY <2>6, PollKeeps
  <2>7. CASE UNCHANGED vars
    BY <2>7, StutterKeeps
  <2>8. QED
    BY <2>1, <2>2, <2>3, <2>4, <2>5, <2>6, <2>7 DEF Next
<1>2. QED
  BY <1>1, InitInv, PTL DEF Spec

\* The row, the samples and the queues keep their types: _counters holds numbers
\* whatever the collectors returned.
THEOREM CountersTypeCorrect == Spec => []TypeOK
<1>1. Inv => TypeOK
  BY DEF Inv
<1>2. QED
  BY <1>1, Invariant, PTL

\* Every step but an aggregation leaves the table and what it rests on alone, an
\* unplugged interface excepted.
LEMMA TableSteps ==
  ASSUME [Next]_vars
  PROVE  \/ \E q \in Requests : Aggregate(q)
         \/ UNCHANGED <<table, seen, blind>>
BY DEF Next, Tick, Rise, Unplug, Plug, Arrive, Poll, Complete, Wake, Return, history, vars

\* A sample newer than the row's makes _counter_severity mark the row as moving only
\* after a rise of the kernel's counter, or where a refused reading is on one side of
\* the comparison.
THEOREM IncreasesAreReal == Spec => OnlyRealIncreases
<1>1. ASSUME Inv, [Next]_vars, NEW n \in Counters, seen'[n] > seen[n],
             table'[n].last # table[n].last, table'[n].last # Never
      PROVE  rose[n] >= seen[n] \/ n \in blind \/ n \in Ecc \cap blind'
  <2>1. PICK q \in Requests : Aggregate(q)
    BY <1>1, TableSteps
  <2>2. PICK x \in Reading : x = got[q][Source(n)]
    BY <1>1, SourceType DEF Inv, TypeOK
  <2>3. RowStep(n, x) /\ InPlay(x, Source(n)) /\ RowOf(n)
    BY <1>1, <2>1, <2>2, AggregateRow DEF InPlay, Inv, RowInv
  <2>4. n \in x.names
    BY <1>1, <2>3 DEF RowStep, NoRow
  <2>5. PICK value \in Nat : value = x.value[n]
    BY DEF Reading
  <2>6. /\ table'[n] = Bumped(n, value) /\ x.at = seen'[n]
        /\ n \in blind' <=> n \in x.bad
    BY <2>3, <2>4, <2>5 DEF RowStep
  <2>7. table[n].known /\ value \notin {table[n].value, 0}
    BY <1>1, <2>6, BumpedFacts DEF Inv
  <2>8. n \notin Ecc \cap blind' => Clean(x, n)
    BY <2>4, <2>6, SourceType DEF Clean
  <2>9. n \notin blind => Settled(n, table[n].value, seen[n])
    BY <2>3, <2>7 DEF RowOf
  <2>10. rose[n] \in Nat /\ seen[n] \in Nat
    BY <1>1 DEF Inv, TypeOK
  <2>11. QED
    BY <1>1, <2>3, <2>5, <2>6, <2>7, <2>8, <2>9, <2>10 DEF Settled
<1>2. Inv /\ [Next]_vars =>
        [\A n \in Counters :
           /\ seen'[n] > seen[n]
           /\ table'[n].last # table[n].last /\ table'[n].last # Never
           => rose[n] >= seen[n] \/ n \in blind \/ n \in Ecc \cap blind']_vars
  BY <1>1
<1>3. QED
  BY <1>2, Invariant, PTL DEF Spec, OnlyRealIncreases

\* A counter the table follows that went up within the window is reported in full by
\* every answer whose sample read it since.
THEOREM RiseIsReported == Spec => RiseReported
<1>1. ASSUME Inv, NEW q \in Requests, NEW n \in Counters,
             LET sample == got[q][Source(n)]
             IN  /\ n \in up \cup Ecc
                 /\ since[n] # Never /\ rose[n] > since[n]
                 /\ n \in sample.names \ sample.bad /\ sample.at > rose[n]
                 /\ now - rose[n] < Window
                 /\ Aggregate(q)
      PROVE  Reported(q, n) = "full"
  <2>1. PICK x \in Reading : x = got[q][Source(n)]
    BY <1>1, SourceType DEF Inv, TypeOK
  <2>2. /\ since[n] # Never /\ rose[n] > since[n]
        /\ n \in x.names \ x.bad /\ x.at > rose[n] /\ now - rose[n] < Window
        /\ InPlay(x, Source(n)) /\ RowOf(n) /\ TypeOK
    BY <1>1, <2>1 DEF Inv, RowInv, InPlay
  <2>3. PICK value \in Nat : value = x.value[n]
    BY DEF Reading
  <2>4. /\ now \in Nat /\ rose[n] \in Nat /\ since[n] \in Nat /\ gone[n] \in Nat
        /\ x.at \in Nat /\ hw[n] \in Nat /\ table[n] \in Rows /\ Window \in Nat
    BY <2>2, CountersAssumption DEF TypeOK, Reading
  <2>5. /\ table[n].known /\ gone[n] < since[n] /\ rose[n] > 0 /\ rose[n] <= now
        /\ rose[n] > gone[n] /\ hw[n] >= 1
    BY <1>1, <2>2, <2>4 DEF RowOf, Inv, NodeInv, Never
  <2>6. value = hw[n]
    <3>1. Sane(x, n)
      BY <1>1, <2>2 DEF Inv, SampleInv
    <3>2. QED
      BY <2>2, <2>3, <2>4, <2>5, <3>1 DEF Sane, Good
  <2>7. PICK row \in Rows : row = Bumped(n, value)
    BY <2>2, BumpedFacts
  <2>8. row.value = value /\ row.last >= rose[n]
    <3>1. CASE table[n].value = value
      BY <2>2, <2>6, <2>7, <3>1, BumpedFacts DEF RowOf
    <3>2. CASE table[n].value # value
      BY <2>2, <2>4, <2>5, <2>6, <2>7, <3>2, BumpedFacts
    <3>3. QED
      BY <3>1, <3>2
  <2>9. Severity(row) = "full"
    BY <2>2, <2>4, <2>5, <2>6, <2>8 DEF Severity, Never, Rows
  <2>10. n \in Sampled(q) /\ Row(q, n) = row
    BY <2>1, <2>2, <2>3, <2>7 DEF Sampled, Row
  <2>11. QED
    BY <2>9, <2>10 DEF Reported
<1>2. Inv =>
        [\A q \in Requests, n \in Counters :
           LET sample == got[q][Source(n)]
           IN  /\ n \in up \cup Ecc
               /\ since[n] # Never /\ rose[n] > since[n]
               /\ n \in sample.names \ sample.bad /\ sample.at > rose[n]
               /\ now - rose[n] < Window
               /\ Aggregate(q)
               => Reported(q, n) = "full"]_vars
  BY <1>1
<1>3. QED
  BY <1>2, Invariant, PTL DEF RiseReported

\* An answer forgets the interfaces its sample does not list and no other, and none at
\* all when collect_nics failed.
THEOREM OnlyTheGoneForgotten == Spec => ForgetsOnlyTheGone
<1>1. ASSUME Inv, NEW q \in Requests, Aggregate(q), NEW n \in Nics
      PROVE  IF got[q]["nics"].state = "failed" THEN table'[n] = table[n]
             ELSE table'[n].known <=> n \in got[q]["nics"].names
  <2>1. PICK x \in Reading : x = got[q]["nics"]
    BY <1>1 DEF Inv, TypeOK, Collectors
  <2>2. /\ n \in Counters /\ Source(n) = "nics"
        /\ x.state # "ok" => x.names = {}
    BY <1>1, <2>1, SourceType DEF Inv, Counters, SampleInv, InPlay, Collectors
  <2>3. n \in Sampled(q) <=> n \in x.names
    BY <2>1, <2>2 DEF Sampled
  <2>4. n \in Forgotten(q) <=> x.state # "failed" /\ n \notin x.names
    BY <2>1 DEF Forgotten
  <2>5. table'[n] = IF n \in Sampled(q) THEN Row(q, n)
                    ELSE IF n \in Forgotten(q) THEN NoRow ELSE table[n]
    BY <1>1, <2>2 DEF Aggregate
  <2>6. Row(q, n).known /\ ~NoRow.known
    BY DEF Row, Bumped, NoRow
  <2>7. QED
    BY <2>1, <2>2, <2>3, <2>4, <2>5, <2>6
<1>2. Inv =>
        [\A q \in Requests : Aggregate(q) =>
           \A n \in Nics : IF got[q]["nics"].state = "failed"
                              THEN table'[n] = table[n]
                              ELSE table'[n].known <=> n \in got[q]["nics"].names]_vars
  BY <1>1
<1>3. QED
  BY <1>2, Invariant, PTL DEF ForgetsOnlyTheGone

-----------------------------------------------------------------------------
(* The other warnings of the answer.                                         *)

\* An answer is given once, for one node.
AnswerInv == node \in Inputs /\ (asked => answer = Warnings(node, failing))

LEMMA Given == AnswerSpec => []AnswerInv
<1>1. AnswerInit => AnswerInv
  BY DEF AnswerInit, AnswerInv
<1>2. AnswerInv /\ [GetWarnings]_answerVars => AnswerInv'
  BY DEF GetWarnings, answerVars, AnswerInv
<1> QED
  BY <1>1, <1>2, PTL DEF AnswerSpec

\* What the answer takes from each collector.
Smart(n, failed) ==
  UNION {SmartWarnings(r) :
           r \in Section("smart", CollectAllSmart(n.drives), failed)}
Hot(n, failed) ==
  UNION {SensorWarnings(t) :
           t \in Section("sensors", CollectSensors(n.sensors), failed)}
Full(n, failed) ==
  UNION {DiskWarnings(u) :
           u \in Section("disk_usage", CollectDiskUsage(n.disks), failed)}
K8sExpiring(n, failed) ==
  UNION {CertWarnings(c, "k8s_certs") :
           c \in {c \in Section("k8s_certs", CollectK8sCerts(n.certs), failed) :
                    K8sCertShown(c, "talos_certs" \in failed)}}
TalosExpiring(n, failed) ==
  UNION {CertWarnings(c, "talos_certs") :
           c \in Section("talos_certs", CollectTalosCerts(n.certs), failed)}
Etcd(n, failed) ==
  UNION {EtcdWarnings(severity) :
           severity \in Section("components", CollectEtcd(n.etcd), failed)}
Conditions(n, failed) ==
  UNION {ConditionWarnings(c) :
           c \in Section("k8s_node", CollectConditions(n.object), failed)}
Kernel(n, failed) == Section("dmesg", CollectDmesg(n.log), failed)
Own(n, failed) ==
  Missing(failed)
  \cup If(~n.etcd.hostNetwork, Warning("info", "dashboard", "hostNetwork", "node"))

LEMMA IfSays == \A c, x, w : w \in If(c, x) <=> c /\ w = x
  BY DEF If

\* What is said of a drive, and why.
SmartWarn(r, severity, what) == Warning(severity, "smart", what, r.device)

LEMMA SmartSays ==
  ASSUME NEW r
  PROVE  SmartWarnings(r) =
           If(r.passed = "no", SmartWarn(r, "critical", "failed"))
           \cup If(r.error /\ ~r.standby, SmartWarn(r, "warning", "not readable"))
           \cup If(r.pending > 0, SmartWarn(r, "warning", "pending"))
           \cup If(r.offline > 0, SmartWarn(r, "critical", "offline"))
           \cup {SmartWarn(r, IF issue \in CriticalIssues THEN "critical" ELSE "warning", issue) :
                   issue \in r.issues}
           \cup If(r.realloc > 0, SmartWarn(r, "warning", "reallocated"))
           \cup If(r.wear # Unknown /\ r.wear < 20, SmartWarn(r, "warning", "wear"))
           \cup If(r.temp > 60, SmartWarn(r, IF r.temp > 70 THEN "critical" ELSE "warning",
                                                 "temperature"))
  BY DEF SmartWarnings, SmartWarn

LEMMA SmartWhy ==
  ASSUME NEW r, NEW w \in SmartWarnings(r)
  PROVE  /\ w.source = "smart" /\ w.on = r.device
         /\ \/ w.what = "failed" /\ r.passed = "no"
            \/ w.what = "not readable" /\ r.error /\ ~r.standby
            \/ w.what = "wear" /\ r.wear # Unknown /\ r.wear < 20
            \/ w.what \in r.issues \cup {"pending", "offline", "reallocated", "temperature"}
<1> DEFINE Fits(what) == w.source = "smart" /\ w.on = r.device /\ w.what = what
<1>1. CASE w \in If(r.passed = "no", SmartWarn(r, "critical", "failed"))
  <2>1. r.passed = "no" /\ w = SmartWarn(r, "critical", "failed")
    BY <1>1 DEF If
  <2>2. QED
    BY <2>1 DEF SmartWarn, Warning
<1>2. CASE w \in If(r.error /\ ~r.standby, SmartWarn(r, "warning", "not readable"))
  <2>1. r.error /\ ~r.standby /\ w = SmartWarn(r, "warning", "not readable")
    BY <1>2 DEF If
  <2>2. QED
    BY <2>1 DEF SmartWarn, Warning
<1>3. CASE w \in If(r.wear # Unknown /\ r.wear < 20, SmartWarn(r, "warning", "wear"))
  <2>1. r.wear # Unknown /\ r.wear < 20 /\ w = SmartWarn(r, "warning", "wear")
    BY <1>3 DEF If
  <2>2. QED
    BY <2>1 DEF SmartWarn, Warning
<1>4. CASE \/ w \in If(r.pending > 0, SmartWarn(r, "warning", "pending"))
           \/ w \in If(r.offline > 0, SmartWarn(r, "critical", "offline"))
           \/ w \in If(r.realloc > 0, SmartWarn(r, "warning", "reallocated"))
           \/ w \in If(r.temp > 60, SmartWarn(r, IF r.temp > 70 THEN "critical" ELSE "warning",
                                                     "temperature"))
  <2>1. Fits("pending") \/ Fits("offline") \/ Fits("reallocated") \/ Fits("temperature")
    BY <1>4 DEF If, SmartWarn, Warning
  <2>2. QED
    BY <2>1
<1>5. CASE w \in {SmartWarn(r, IF issue \in CriticalIssues THEN "critical" ELSE "warning", issue) :
                    issue \in r.issues}
  <2>1. \E issue \in r.issues : Fits(issue)
    BY <1>5 DEF SmartWarn, Warning
  <2>2. QED
    BY <2>1
<1> QED
  BY <1>1, <1>2, <1>3, <1>4, <1>5, SmartSays

LEMMA SmartSource == ASSUME NEW n, NEW failed, NEW w \in Smart(n, failed) PROVE w.source = "smart"
  BY SmartWhy DEF Smart

LEMMA HotSource == ASSUME NEW n, NEW failed, NEW w \in Hot(n, failed) PROVE w.source = "temperature"
  BY DEF Hot, SensorWarnings, If, Warning

LEMMA FullSource == ASSUME NEW n, NEW failed, NEW w \in Full(n, failed) PROVE w.source = "disk"
  BY DEF Full, DiskWarnings, If, Warning

LEMMA K8sSource ==
  ASSUME NEW n, NEW failed, NEW w \in K8sExpiring(n, failed) PROVE w.source = "k8s_certs"
  BY DEF K8sExpiring, CertWarnings, If, Warning

LEMMA TalosSource ==
  ASSUME NEW n, NEW failed, NEW w \in TalosExpiring(n, failed) PROVE w.source = "talos_certs"
  BY DEF TalosExpiring, CertWarnings, If, Warning

LEMMA EtcdSource == ASSUME NEW n, NEW failed, NEW w \in Etcd(n, failed) PROVE w.source = "components"
  BY DEF Etcd, EtcdWarnings, If, Warning

LEMMA ConditionSource ==
  ASSUME NEW n, NEW failed, NEW w \in Conditions(n, failed) PROVE w.source = "k8s_node"
  BY DEF Conditions, ConditionWarnings, If, Warning

LEMMA FaultSource == ASSUME NEW n, NEW failed, NEW w \in Kernel(n, failed) PROVE w.source = "dmesg"
  BY DEF Kernel, Section, CollectDmesg, Scan, Warning

LEMMA OwnSource == ASSUME NEW n, NEW failed, NEW w \in Own(n, failed) PROVE w.source = "dashboard"
  BY DEF Own, Missing, If, Warning

LEMMA Parts ==
  ASSUME NEW n, NEW failed
  PROVE  Warnings(n, failed) =
           Own(n, failed) \cup Kernel(n, failed) \cup Smart(n, failed) \cup Hot(n, failed)
           \cup Full(n, failed) \cup K8sExpiring(n, failed) \cup TalosExpiring(n, failed)
           \cup Etcd(n, failed) \cup Conditions(n, failed)
  BY DEF Warnings, Own, Kernel, Smart, Hot, Full, K8sExpiring, TalosExpiring, Etcd, Conditions

From(warnings, source) == {w \in warnings : w.source = source}

LEMMA Sorted ==
  ASSUME NEW n, NEW failed
  PROVE  LET told == Warnings(n, failed)
         IN  /\ From(told, "dashboard") = Own(n, failed)
             /\ From(told, "dmesg") = Kernel(n, failed)
             /\ From(told, "smart") = Smart(n, failed)
             /\ From(told, "temperature") = Hot(n, failed)
             /\ From(told, "disk") = Full(n, failed)
             /\ From(told, "k8s_certs") = K8sExpiring(n, failed)
             /\ From(told, "talos_certs") = TalosExpiring(n, failed)
             /\ From(told, "components") = Etcd(n, failed)
             /\ From(told, "k8s_node") = Conditions(n, failed)
  BY Parts, OwnSource, FaultSource, SmartSource, HotSource, FullSource, K8sSource, TalosSource,
     EtcdSource, ConditionSource DEF From

-----------------------------------------------------------------------------
(* Drives.                                                                   *)

Json(d) == d.outcome = "json"
FailedDrive(d) == Json(d) /\ d.enabled # "no" /\ (d.passed = "no" \/ 3 \in d.exit)
Unreadable(d) ==
  \/ d.outcome \in {"busy", "odd", "raised"}
  \/ ~d.asleep /\ (Json(d) => 1 \in d.exit)
Texts == {"prefail attribute", "past threshold", "error log", "self-test log"}

LEMMA IssueTexts == \A bit \in DOMAIN Issues : Issues[bit] \in Texts
<1>1. DOMAIN Issues = 4..7
  BY DEF Issues
<1>2. /\ Issues[4] = "prefail attribute" /\ Issues[5] = "past threshold"
      /\ Issues[6] = "error log" /\ Issues[7] = "self-test log"
  BY DEF Issues
<1>3. \A bit \in 4..7 : bit = 4 \/ bit = 5 \/ bit = 6 \/ bit = 7
  OBVIOUS
<1> QED
  BY <1>1, <1>2, <1>3 DEF Texts

RightReport(r, d) ==
  /\ r.device = d.name
  /\ (r.passed = "no") <=> FailedDrive(d)
  /\ (r.error /\ ~r.standby) <=> Unreadable(d)
  /\ r.wear = IF Json(d) THEN Wear(d) ELSE Unknown
  /\ r.issues \subseteq Texts

\* There is one report of a drive that has a device node.
LEMMA DriveReport ==
  ASSUME NEW d, IsDrive(d), d.outcome # "no device"
  PROVE  \E r : DriveReports(d) = {r} /\ RightReport(r, d)
<1> DEFINE failed == [NotReported EXCEPT !.device = d.name, !.error = TRUE]
           sleeping == [NotReported EXCEPT !.device = d.name, !.standby = TRUE]
<1>f. /\ failed.device = d.name /\ failed.passed = "unknown" /\ failed.error = TRUE
      /\ failed.standby = FALSE /\ failed.wear = Unknown /\ failed.issues = {}
  BY DEF NotReported
<1>s. /\ sleeping.device = d.name /\ sleeping.passed = "unknown" /\ sleeping.error = FALSE
      /\ sleeping.standby = TRUE /\ sleeping.wear = Unknown /\ sleeping.issues = {}
  BY DEF NotReported
<1>1. CASE d.outcome \in {"busy", "odd", "raised"}
  <2>1. DriveReports(d) = {failed}
    BY <1>1 DEF DriveReports
  <2>2. RightReport(failed, d)
    <3> HIDE DEF failed
    <3> QED
      BY <1>1, <1>f DEF RightReport, FailedDrive, Unreadable, Json
  <2>3. QED
    BY <2>1, <2>2
<1>2. CASE d.outcome \in {"silent", "text"} /\ d.asleep
  <2>1. DriveReports(d) = {sleeping}
    BY <1>2 DEF DriveReports
  <2>2. RightReport(sleeping, d)
    <3> HIDE DEF sleeping
    <3> QED
      BY <1>2, <1>s DEF RightReport, FailedDrive, Unreadable, Json
  <2>3. QED
    BY <2>1, <2>2
<1>3. CASE d.outcome \in {"silent", "text"} /\ ~d.asleep
  <2>1. DriveReports(d) = {failed}
    BY <1>3 DEF DriveReports
  <2>2. RightReport(failed, d)
    <3> HIDE DEF failed
    <3> QED
      BY <1>3, <1>f DEF RightReport, FailedDrive, Unreadable, Json
  <2>3. QED
    BY <2>1, <2>2
<1>4. CASE Json(d)
  <2> DEFINE r == ParseSmart(d)
  <2>1. DriveReports(d) = {r}
    BY <1>4 DEF DriveReports, Json
  <2>2. (r.passed = "no") <=> FailedDrive(d)
    BY <1>4 DEF ParseSmart, Health, ExitFailing, FailedDrive
  <2>3. r.issues \subseteq Texts
    BY IssueTexts DEF ParseSmart
  <2>4. (r.error /\ ~r.standby) <=> Unreadable(d)
    BY <1>4 DEF ParseSmart, ExitOpen, Unreadable, Json
  <2>5. r.wear = Wear(d) /\ r.device = d.name
    BY DEF ParseSmart
  <2>6. RightReport(r, d)
    BY <1>4, <2>2, <2>3, <2>4, <2>5 DEF RightReport
  <2>7. QED
    BY <2>1, <2>6
<1> QED
  BY <1>1, <1>2, <1>3, <1>4 DEF IsDrive, Json

LEMMA MinOfFive == \A S \in SUBSET (1..5) : S # {} => Min(S) \in S
<1> SUFFICES ASSUME NEW S \in SUBSET (1..5), S # {} PROVE \E x \in S : \A y \in S : x =< y
  BY DEF Min
<1>1. CASE 1 \in S
  BY <1>1
<1>2. CASE 1 \notin S /\ 2 \in S
  BY <1>2
<1>3. CASE 1 \notin S /\ 2 \notin S /\ 3 \in S
  BY <1>3
<1>4. CASE 1 \notin S /\ 2 \notin S /\ 3 \notin S /\ 4 \in S
  BY <1>4
<1>5. CASE 1 \notin S /\ 2 \notin S /\ 3 \notin S /\ 4 \notin S
  <2>1. \A y \in S : y = 5
    BY <1>5
  <2>2. 5 \in S
    BY <2>1
  <2>3. QED
    BY <2>1, <2>2
<1> QED
  BY <1>1, <1>2, <1>3, <1>4, <1>5

\* The figures a drive gives for the life it has left.
Left(d) ==
  {d.attrs[id] : id \in DOMAIN d.attrs \cap {177, 231, 233, 202, 169}}
  \cup {100 - used : used \in {d.nvmeUsed, d.endurance} \ {Unknown}}

LEMMA WearIsLeft ==
  ASSUME NEW d, IsDrive(d)
  PROVE  IF Left(d) = {} THEN Wear(d) = Unknown
         ELSE \E n \in Left(d) : n \in Int /\ Wear(d) = Max0(n)
<1> DEFINE vendor == {i \in DOMAIN WearIds : WearIds[i] \in DOMAIN d.attrs}
<1>1. /\ DOMAIN WearIds = 1..5
      /\ \A i \in 1..5 : WearIds[i] \in {177, 231, 233, 202, 169}
      /\ \A id \in {177, 231, 233, 202, 169} : \E i \in 1..5 : WearIds[i] = id
  BY DEF WearIds
<1>2. \A used \in {d.nvmeUsed, d.endurance} \ {Unknown} : 100 - used \in Left(d) /\ 100 - used \in Int
  <2> TAKE used \in {d.nvmeUsed, d.endurance} \ {Unknown}
  <2>1. used \in Nat
    BY DEF IsDrive
  <2>2. 100 - used \in {100 - u : u \in {d.nvmeUsed, d.endurance} \ {Unknown}}
    OBVIOUS
  <2>3. QED
    BY <2>1, <2>2 DEF Left
<1>3. CASE d.nvmeUsed # Unknown
  <2>1. Wear(d) = Max0(100 - d.nvmeUsed)
    BY <1>3 DEF Wear
  <2>2. QED
    BY <1>2, <1>3, <2>1
<1>4. CASE d.nvmeUsed = Unknown /\ vendor # {}
  <2>1. PICK i \in vendor : i = Min(vendor)
    BY <1>1, <1>4, MinOfFive
  <2> DEFINE id == WearIds[i]
  <2>2. id \in DOMAIN d.attrs \cap {177, 231, 233, 202, 169}
    BY <1>1, <2>1
  <2>3. Wear(d) = d.attrs[id]
    BY <1>4, <2>1 DEF Wear
  <2> HIDE DEF id, vendor
  <2>4. Wear(d) \in Left(d)
    BY <2>2, <2>3 DEF Left
  <2>a. \A k \in DOMAIN d.attrs : d.attrs[k] \in Nat
    BY DEF IsDrive
  <2>5. Wear(d) \in Nat
    BY <2>2, <2>3, <2>a
  <2>6. Max0(Wear(d)) = Wear(d)
    BY <2>5 DEF Max0
  <2>7. Left(d) # {} /\ Wear(d) \in Int
    BY <2>4, <2>5
  <2>8. QED
    BY <2>4, <2>6, <2>7
<1>6. CASE d.nvmeUsed = Unknown /\ vendor = {} /\ d.endurance # Unknown
  <2>1. Wear(d) = Max0(100 - d.endurance)
    BY <1>6 DEF Wear
  <2>2. QED
    BY <1>2, <1>6, <2>1
<1>5. CASE d.nvmeUsed = Unknown /\ vendor = {} /\ d.endurance = Unknown
  <2>1. Wear(d) = Unknown
    BY <1>5 DEF Wear
  <2>2. Left(d) = {}
    BY <1>1, <1>5 DEF Left
  <2>3. QED
    BY <2>1, <2>2
<1> QED
  BY <1>3, <1>4, <1>5, <1>6

\* A warning that names a drive is about the report of that drive.
LEMMA DriveNamed ==
  ASSUME NEW n, WellFormed(n), NEW failed, NEW d \in n.drives,
         NEW w \in Smart(n, failed), w.on = d.name
  PROVE  /\ ~d.remote /\ d.outcome # "no device"
         /\ \E r : w \in SmartWarnings(r) /\ RightReport(r, d)
<1>1. PICK r \in CollectAllSmart(n.drives) : w \in SmartWarnings(r)
  BY DEF Smart, Section
<1>2. PICK e \in n.drives : ~e.remote /\ r \in DriveReports(e)
  BY DEF CollectAllSmart, SmartCandidates
<1>3. e.outcome # "no device"
  BY <1>2 DEF DriveReports
<1>4. IsDrive(e) /\ (e.name = d.name => e = d)
  BY DEF WellFormed
<1>5. RightReport(r, e)
  BY <1>2, <1>3, <1>4, DriveReport
<1>6. e.name = d.name
  BY <1>1, <1>5, SmartWhy DEF RightReport
<1> QED
  BY <1>1, <1>2, <1>3, <1>4, <1>5, <1>6

\* What is said of the report of a drive is in the answer.
LEMMA DriveTold ==
  ASSUME NEW n, WellFormed(n), NEW failed, "smart" \notin failed, NEW d \in n.drives,
         ~d.remote, d.outcome # "no device"
  PROVE  \E r : RightReport(r, d) /\ SmartWarnings(r) \subseteq Smart(n, failed)
<1>1. PICK r : DriveReports(d) = {r} /\ RightReport(r, d)
  BY DriveReport DEF WellFormed
<1>2. r \in CollectAllSmart(n.drives)
  BY <1>1 DEF CollectAllSmart, SmartCandidates
<1> QED
  BY <1>1, <1>2 DEF Smart, Section

Said(w, d, what) == w.source = "smart" /\ w.what = what /\ w.on = d.name

LEMMA Verdicts ==
  ASSUME NEW r, NEW d, RightReport(r, d)
  PROVE  /\ FailedDrive(d) => \E w \in SmartWarnings(r) : Said(w, d, "failed")
         /\ Unreadable(d) => \E w \in SmartWarnings(r) : Said(w, d, "not readable")
         /\ r.wear # Unknown /\ r.wear < 20
              => \E w \in SmartWarnings(r) : Said(w, d, "wear")
         /\ \A w \in SmartWarnings(r) :
              /\ w.what = "failed" => FailedDrive(d)
              /\ w.what = "not readable" => Unreadable(d)
              /\ w.what = "wear" => r.wear # Unknown /\ r.wear < 20
<1>1. FailedDrive(d) => \E w \in SmartWarnings(r) : Said(w, d, "failed")
  <2>1. r.passed = "no" => SmartWarn(r, "critical", "failed") \in SmartWarnings(r)
    BY SmartSays DEF If
  <2>2. Said(SmartWarn(r, "critical", "failed"), d, "failed")
    BY DEF Said, SmartWarn, Warning, RightReport
  <2>3. QED
    BY <2>1, <2>2 DEF RightReport
<1>2. Unreadable(d) => \E w \in SmartWarnings(r) : Said(w, d, "not readable")
  <2>1. r.error /\ ~r.standby => SmartWarn(r, "warning", "not readable") \in SmartWarnings(r)
    BY SmartSays DEF If
  <2>2. Said(SmartWarn(r, "warning", "not readable"), d, "not readable")
    BY DEF Said, SmartWarn, Warning, RightReport
  <2>3. QED
    BY <2>1, <2>2 DEF RightReport
<1>3. r.wear # Unknown /\ r.wear < 20 => \E w \in SmartWarnings(r) : Said(w, d, "wear")
  <2>1. r.wear # Unknown /\ r.wear < 20
          => SmartWarn(r, "warning", "wear") \in SmartWarnings(r)
    BY SmartSays DEF If
  <2>2. Said(SmartWarn(r, "warning", "wear"), d, "wear")
    BY DEF Said, SmartWarn, Warning, RightReport
  <2>3. QED
    BY <2>1, <2>2
<1>4. ASSUME NEW w \in SmartWarnings(r)
      PROVE  /\ w.what = "failed" => FailedDrive(d)
             /\ w.what = "not readable" => Unreadable(d)
             /\ w.what = "wear" => r.wear # Unknown /\ r.wear < 20
  BY SmartWhy DEF RightReport, Texts
<1> QED
  BY <1>1, <1>2, <1>3, <1>4

\* What the report says of the wear, when the figures for the life left agree.
LEMMA WearAgrees ==
  ASSUME NEW r, NEW d, IsDrive(d), RightReport(r, d)
  PROVE  /\ Json(d) /\ Left(d) # {} /\ (\A left \in Left(d) : left < 20)
              => r.wear # Unknown /\ r.wear < 20
         /\ (\A left \in Left(d) : left >= 20) => ~(r.wear # Unknown /\ r.wear < 20)
<1>1. CASE ~Json(d) \/ Left(d) = {}
  BY <1>1, WearIsLeft DEF RightReport
<1>2. CASE Json(d) /\ Left(d) # {}
  <2>1. PICK left \in Left(d) : left \in Int /\ r.wear = Max0(left)
    BY <1>2, WearIsLeft DEF RightReport
  <2>2. /\ left < 20 => r.wear # Unknown /\ r.wear < 20
        /\ left >= 20 => r.wear >= 20
    BY <2>1 DEF Max0, Unknown
  <2>3. r.wear \in Int
    BY <2>1 DEF Max0
  <2>4. QED
    BY <1>2, <2>1, <2>2, <2>3
<1> QED
  BY <1>1, <1>2

\* "must not page anyone", "the dying one": a drive is reported exactly as it is.
THEOREM DrivesJudged == AnswerSpec => []DriveJudged
<1>1. AnswerInv => DriveJudged
  <2> SUFFICES ASSUME AnswerInv, asked, "smart" \notin failing, NEW d \in node.drives
               PROVE  LET said(what) == \E w \in answer :
                                          w.source = "smart" /\ w.what = what /\ w.on = d.name
                      IN  IF d.remote \/ d.outcome = "no device"
                          THEN \A w \in answer : w.source = "smart" => w.on # d.name
                          ELSE /\ said("failed") <=> FailedDrive(d)
                               /\ said("not readable") <=> Unreadable(d)
                               /\ Json(d) /\ Left(d) # {} /\ (\A n \in Left(d) : n < 20) => said("wear")
                               /\ (\A n \in Left(d) : n >= 20) => ~said("wear")
    BY DEF DriveJudged, FailedDrive, Unreadable, Left, Json
  <2>1. WellFormed(node) /\ IsDrive(d)
    BY WarningsAssumption DEF AnswerInv, WellFormed
  <2>2. \A w : w \in answer /\ w.source = "smart" <=> w \in Smart(node, failing)
    BY Sorted DEF AnswerInv, From
  <2>3. ASSUME NEW w \in answer, w.source = "smart", w.on = d.name
        PROVE  /\ ~d.remote /\ d.outcome # "no device"
               /\ \E r : w \in SmartWarnings(r) /\ RightReport(r, d)
    BY <2>1, <2>2, <2>3, DriveNamed
  <2>4. CASE d.remote \/ d.outcome = "no device"
    BY <2>3, <2>4
  <2>5. CASE ~(d.remote \/ d.outcome = "no device")
    <3> DEFINE said(what) == \E w \in answer : w.source = "smart" /\ w.what = what /\ w.on = d.name
    <3>1. PICK r : RightReport(r, d) /\ SmartWarnings(r) \subseteq Smart(node, failing)
      BY <2>1, <2>5, DriveTold
    <3>2. \A what : (\E w \in SmartWarnings(r) : Said(w, d, what)) => said(what)
      BY <2>2, <3>1 DEF Said
    <3>3. said("failed") <=> FailedDrive(d)
      BY <2>3, <3>1, <3>2, Verdicts
    <3>4. said("not readable") <=> Unreadable(d)
      BY <2>3, <3>1, <3>2, Verdicts
    <3>5. Json(d) /\ Left(d) # {} /\ (\A n \in Left(d) : n < 20) => said("wear")
      <4>1. Json(d) /\ Left(d) # {} /\ (\A n \in Left(d) : n < 20)
              => r.wear # Unknown /\ r.wear < 20
        BY <2>1, <3>1, WearAgrees
      <4>2. r.wear # Unknown /\ r.wear < 20
              => \E w \in SmartWarnings(r) : Said(w, d, "wear")
        BY <3>1, Verdicts
      <4>3. QED
        BY <3>2, <4>1, <4>2
    <3>6. (\A n \in Left(d) : n >= 20) => ~said("wear")
      BY <2>1, <2>3, Verdicts, WearAgrees
    <3>7. QED
      BY <2>5, <3>3, <3>4, <3>5, <3>6
  <2>6. QED
    BY <2>4, <2>5
<1> QED
  BY <1>1, Given, PTL

-----------------------------------------------------------------------------
(* etcd.                                                                     *)

LEMMA AtLeast == ASSUME NEW a \in Nat, NEW b \in Nat \ {0}, NEW c \in Nat, c * b <= a PROVE a \div b >= c
  BY SMTT(30)

LEMMA Below == ASSUME NEW a \in Nat, NEW b \in Nat \ {0}, NEW c \in Nat, a < c * b PROVE a \div b < c
  BY SMTT(30)

\* From 80 percent of its quota on, in tenths, and below 49.
LEMMA Tenths ==
  ASSUME NEW e, e.size \in Nat, e.quota \in Nat
  PROVE  /\ 5 * e.size >= 4 * Quota(e) => QuotaTenths(e) >= 800
         /\ 100 * e.size < 49 * Quota(e) => QuotaTenths(e) < 500
<1> DEFINE a == 2000 * e.size + Quota(e)
           b == 2 * Quota(e)
<1>1. Quota(e) \in Nat \ {0}
  BY DEF Quota, DefaultQuota
<1>2. a \in Nat /\ b \in Nat \ {0} /\ QuotaTenths(e) = a \div b
  BY <1>1 DEF QuotaTenths
<1>3. 5 * e.size >= 4 * Quota(e) => 800 * b <= a
  BY <1>1
<1>4. 100 * e.size < 49 * Quota(e) => a < 500 * b
  BY <1>1
<1> HIDE DEF a, b
<1>5. 800 * b <= a => a \div b >= 800
  BY <1>2, AtLeast
<1>6. a < 500 * b => a \div b < 500
  BY <1>2, Below
<1> QED
  BY <1>2, <1>3, <1>4, <1>5, <1>6

\* "flag it before it gets there": the answer is about the share of the quota in use,
\* from 80 percent on and below 49, whatever the quota.
THEOREM EtcdIsFlagged == AnswerSpec => []EtcdFlagged
<1>1. AnswerInv => EtcdFlagged
  <2> SUFFICES ASSUME AnswerInv, asked, "components" \notin failing
               PROVE  LET e == node.etcd
                          said == {w.severity : w \in {w \in answer : w.source = "components"}}
                      IN  /\ e.hostNetwork /\ e.health = "healthy" /\ e.answers
                               /\ 5 * e.size >= 4 * Quota(e) => said = {"critical"}
                          /\ 100 * e.size < 49 * Quota(e) => said = {}
    BY DEF EtcdFlagged, Quota
  <2> DEFINE e == node.etcd
             said == {w.severity : w \in {w \in answer : w.source = "components"}}
             found == CollectEtcd(e)
  <2>1. e.size \in Nat /\ e.quota \in Nat
    BY WarningsAssumption DEF AnswerInv, WellFormed
  <2>2. said = {w.severity : w \in UNION {EtcdWarnings(severity) : severity \in found}}
    BY Sorted DEF AnswerInv, From, Etcd, Section
  <2>3. ASSUME e.hostNetwork /\ e.health = "healthy" /\ e.answers, 5 * e.size >= 4 * Quota(e)
        PROVE  said = {"critical"}
    <3>1. QuotaTenths(e) >= 800
      BY <2>1, <2>3, Tenths
    <3>2. found = {"critical"}
      BY <2>3, <3>1 DEF CollectEtcd, DefragSeverity
    <3>3. EtcdWarnings("critical") = {Warning("critical", "components", "quota", "etcd")}
      BY DEF EtcdWarnings, If
    <3>4. said = {Warning("critical", "components", "quota", "etcd").severity}
      <4> HIDE DEF said, found
      <4> QED
        BY <2>2, <3>2, <3>3
    <3>5. QED
      BY <3>4 DEF Warning
  <2>4. ASSUME 100 * e.size < 49 * Quota(e)
        PROVE  said = {}
    <3>1. QuotaTenths(e) < 500 /\ QuotaTenths(e) \in Int
      BY <2>1, <2>4, Tenths DEF QuotaTenths, Quota, DefaultQuota
    <3>2. found \subseteq {"ok"}
      BY <3>1 DEF CollectEtcd, DefragSeverity
    <3>3. EtcdWarnings("ok") = {}
      BY DEF EtcdWarnings, If
    <3>4. QED
      BY <2>2, <3>2, <3>3
  <2>5. QED
    BY <2>3, <2>4
<1> QED
  BY <1>1, Given, PTL

-----------------------------------------------------------------------------
(* A collector that fails.                                                   *)

\* What the answer takes from a collector depends on that collector alone, but for
\* the certificates of the Kubernetes one.
LEMMA SourceAlone ==
  ASSUME NEW n, NEW failed
  PROVE  /\ Kernel(n, failed) = IF "dmesg" \in failed THEN {} ELSE Kernel(n, {})
         /\ Smart(n, failed) = IF "smart" \in failed THEN {} ELSE Smart(n, {})
         /\ Full(n, failed) = IF "disk_usage" \in failed THEN {} ELSE Full(n, {})
         /\ Hot(n, failed) = IF "sensors" \in failed THEN {} ELSE Hot(n, {})
         /\ Etcd(n, failed) = IF "components" \in failed THEN {} ELSE Etcd(n, {})
         /\ Conditions(n, failed) = IF "k8s_node" \in failed THEN {} ELSE Conditions(n, {})
         /\ TalosExpiring(n, failed) = IF "talos_certs" \in failed THEN {} ELSE TalosExpiring(n, {})
  BY DEF Kernel, Smart, Full, Hot, Etcd, Conditions, TalosExpiring, Section

\* "rather than taking every other subsystem's warnings down with it": a collector
\* that fails costs its own warnings and is named.
THEOREM FailureIsContained == AnswerSpec => []FailureCostsOneSource
<1>1. AnswerInv => FailureCostsOneSource
  <2> SUFFICES ASSUME AnswerInv, asked
               PROVE  /\ \A s \in {"dmesg", "smart", "disk", "temperature", "components", "k8s_node",
                                     "talos_certs"} :
                           LET source == IF s = "disk" THEN "disk_usage"
                                         ELSE IF s = "temperature" THEN "sensors" ELSE s
                           IN  From(answer, s) = IF source \in failing THEN {}
                                                 ELSE From(Warnings(node, {}), s)
                      /\ {w.on : w \in {w \in From(answer, "dashboard") : w.what = "missing"}} = failing
    BY DEF FailureCostsOneSource, From
  <2>1. answer = Warnings(node, failing)
    BY DEF AnswerInv
  <2>2. ASSUME NEW s \in {"dmesg", "smart", "disk", "temperature", "components", "k8s_node",
                          "talos_certs"}
        PROVE  LET source == IF s = "disk" THEN "disk_usage"
                             ELSE IF s = "temperature" THEN "sensors" ELSE s
               IN  From(answer, s) = IF source \in failing THEN {}
                                     ELSE From(Warnings(node, {}), s)
    BY <2>1, Sorted, SourceAlone
  <2>3. {w.on : w \in {w \in From(answer, "dashboard") : w.what = "missing"}} = failing
    <3>1. From(answer, "dashboard") = Own(node, failing)
      BY <2>1, Sorted
    <3>2. \A s : Warning("warning", "dashboard", "missing", s).on = s
      BY DEF Warning
    <3>3. {w \in Own(node, failing) : w.what = "missing"} = Missing(failing)
      BY DEF Own, Missing, If, Warning
    <3>4. QED
      BY <3>1, <3>2, <3>3 DEF Missing
  <2>4. QED
    BY <2>2, <2>3
<1> QED
  BY <1>1, Given, PTL

-----------------------------------------------------------------------------
(* Certificates.                                                             *)

CertWarning(c, collector) ==
  Warning(ExpirySeverity(c.days), collector, "expires", c.name)

\* The certificates a collector warns of.
ByK8s(n, failed, c) ==
  /\ "k8s_certs" \notin failed /\ c.dir \in K8sDirs /\ c.k8sReads
  /\ "talos_certs" \in failed \/ c.dir # "secrets"
  /\ c.days < 90
First(certs, i) ==
  \A j \in TalosFinds(certs) : certs[j].file = certs[i].file => ~Before(certs, j, i)
ByTalos(n, failed, i) ==
  /\ "talos_certs" \notin failed /\ i \in TalosFinds(n.certs) /\ First(n.certs, i)
  /\ n.certs[i].talosReads /\ n.certs[i].days < 90

LEMMA CertSays ==
  ASSUME NEW c, c.days \in Int, NEW collector
  PROVE  CertWarnings(c, collector) = IF c.days < 90 THEN {CertWarning(c, collector)} ELSE {}
  BY DEF CertWarnings, CertWarning, If, ExpirySeverity

LEMMA K8sSays ==
  ASSUME NEW n, AreCerts(n.certs), NEW failed
  PROVE  \A w : w \in K8sExpiring(n, failed) <=>
           \E i \in DOMAIN n.certs : ByK8s(n, failed, n.certs[i]) /\ w = CertWarning(n.certs[i], "k8s_certs")
<1>1. \A i \in DOMAIN n.certs : n.certs[i].days \in Int
  BY DEF AreCerts
<1>2. \A w : w \in K8sExpiring(n, failed) <=>
        \E i \in DOMAIN n.certs :
          /\ "k8s_certs" \notin failed /\ n.certs[i].dir \in K8sDirs /\ n.certs[i].k8sReads
          /\ "talos_certs" \in failed \/ n.certs[i].dir # "secrets"
          /\ w \in CertWarnings(n.certs[i], "k8s_certs")
  BY DEF K8sExpiring, Section, CollectK8sCerts, K8sCertShown, ToSet
<1> QED
  BY <1>1, <1>2, CertSays DEF ByK8s

LEMMA TalosSays ==
  ASSUME NEW n, AreCerts(n.certs), NEW failed
  PROVE  \A w : w \in TalosExpiring(n, failed) <=>
           \E i \in DOMAIN n.certs : ByTalos(n, failed, i) /\ w = CertWarning(n.certs[i], "talos_certs")
<1>1. \A i \in DOMAIN n.certs : n.certs[i].days \in Int
  BY DEF AreCerts
<1>2. TalosFinds(n.certs) \subseteq DOMAIN n.certs
  BY DEF TalosFinds
<1>3. \A w : w \in TalosExpiring(n, failed) <=>
        \E i \in TalosFinds(n.certs) :
          /\ "talos_certs" \notin failed /\ First(n.certs, i) /\ n.certs[i].talosReads
          /\ w \in CertWarnings(n.certs[i], "talos_certs")
  BY DEF TalosExpiring, Section, CollectTalosCerts, First
<1> QED
  BY <1>1, <1>2, <1>3, CertSays DEF ByTalos

\* Two certificates with one file are one, or the kubelet's under two names.
LEMMA Twins ==
  ASSUME NEW certs, AreCerts(certs), NEW i \in DOMAIN certs, NEW j \in DOMAIN certs
  PROVE  /\ certs[i].name = certs[j].name => i = j
         /\ certs[i].file = certs[j].file /\ i # j => certs[i].dir = "kubelet" /\ certs[j].dir = "kubelet"
         /\ certs[i].file = certs[j].file => /\ certs[i].dir = certs[j].dir
                                            /\ certs[i].days = certs[j].days
                                            /\ certs[i].talosReads = certs[j].talosReads
         /\ i \in Int /\ j \in Int
  BY DEF AreCerts

AboutCert(warnings, n, c) ==
  {w \in warnings : /\ w.source \in {"k8s_certs", "talos_certs"}
                    /\ \E d \in {d \in ToSet(n.certs) : d.file = c.file} : w.on = d.name}

\* A warning about a certificate is a collector's, of a name of its file.
LEMMA CertWhy ==
  ASSUME NEW n, AreCerts(n.certs), NEW failed, NEW c,
         NEW w \in AboutCert(Warnings(n, failed), n, c)
  PROVE  \E i \in DOMAIN n.certs :
           /\ n.certs[i].file = c.file
           /\ \/ ByK8s(n, failed, n.certs[i]) /\ w = CertWarning(n.certs[i], "k8s_certs")
              \/ ByTalos(n, failed, i) /\ w = CertWarning(n.certs[i], "talos_certs")
<1>1. PICK k \in DOMAIN n.certs : n.certs[k].file = c.file /\ w.on = n.certs[k].name
  BY DEF AboutCert, ToSet
<1>2. w \in K8sExpiring(n, failed) \/ w \in TalosExpiring(n, failed)
  BY Sorted DEF AboutCert, From
<1>3. PICK i \in DOMAIN n.certs :
           \/ ByK8s(n, failed, n.certs[i]) /\ w = CertWarning(n.certs[i], "k8s_certs")
           \/ ByTalos(n, failed, i) /\ w = CertWarning(n.certs[i], "talos_certs")
  BY <1>2, K8sSays, TalosSays
<1>4. w.on = n.certs[i].name
  BY <1>3 DEF CertWarning, Warning
<1>5. i = k
  <2>1. n.certs[i].name = n.certs[k].name => i = k
    BY Twins
  <2>2. QED
    BY <1>1, <1>4, <2>1
<1> QED
  BY <1>1, <1>3, <1>5

\* Only one of the names of a file is warned of, by one collector.
LEMMA CertOnce ==
  ASSUME NEW n, AreCerts(n.certs), NEW failed, NEW c,
         NEW v \in AboutCert(Warnings(n, failed), n, c),
         NEW w \in AboutCert(Warnings(n, failed), n, c)
  PROVE  v = w
<1> DEFINE Of(i, x) == \/ ByK8s(n, failed, n.certs[i]) /\ x = CertWarning(n.certs[i], "k8s_certs")
                       \/ ByTalos(n, failed, i) /\ x = CertWarning(n.certs[i], "talos_certs")
<1>1. PICK i \in DOMAIN n.certs : n.certs[i].file = c.file /\ Of(i, v)
  BY CertWhy
<1>2. PICK j \in DOMAIN n.certs : n.certs[j].file = c.file /\ Of(j, w)
  BY CertWhy
<1>3. n.certs[i].file = n.certs[j].file
  BY <1>1, <1>2
<1>4. CASE i # j
  <2>1. n.certs[i].dir = "kubelet" /\ n.certs[j].dir = "kubelet"
    BY <1>3, <1>4, Twins
  <2>2. ByTalos(n, failed, i) /\ ByTalos(n, failed, j)
    BY <1>1, <1>2, <2>1 DEF ByK8s, K8sDirs
  <2>3. ~Before(n.certs, j, i) /\ ~Before(n.certs, i, j)
    BY <1>3, <2>2 DEF ByTalos, First
  <2>4. ~(j < i) /\ ~(i < j)
    BY <2>1, <2>3 DEF Before
  <2>5. QED
    BY <1>4, <2>4, Twins
<1>5. CASE i = j
  <2>1. ~(ByK8s(n, failed, n.certs[i]) /\ ByTalos(n, failed, i))
    BY DEF ByK8s, ByTalos, TalosFinds, TalosDirs, K8sDirs
  <2>2. QED
    BY <1>1, <1>2, <1>5, <2>1
<1> QED
  BY <1>4, <1>5

LEMMA Least ==
  ASSUME NEW S \in SUBSET Nat, S # {}
  PROVE  \E x \in S : \A y \in S : x <= y
<1> DEFINE R == {ss \in Nat \X Nat : ss[1] < ss[2]}
<1>1. IsWellFoundedOn(R, Nat)
  BY NatLessThanWellFounded DEF OpToRel
<1> HIDE DEF R
<1>2. PICK x \in S : \A y \in S : ~ (<<y, x>> \in R)
  BY <1>1, WFMin
<1>3. \A y \in S : ~ (y < x)
  BY <1>2 DEF R
<1> QED
  BY <1>3

\* Of the names of a file in the Talos directories, one is found first.
LEMMA FirstName ==
  ASSUME NEW certs, AreCerts(certs), NEW i \in TalosFinds(certs)
  PROVE  \E j \in TalosFinds(certs) : certs[j].file = certs[i].file /\ First(certs, j)
<1> DEFINE names == {j \in TalosFinds(certs) : certs[j].file = certs[i].file}
<1>1. TalosFinds(certs) \subseteq DOMAIN certs /\ DOMAIN certs \subseteq Nat
  BY DEF TalosFinds, AreCerts
<1>2. names \in SUBSET Nat /\ i \in names
  BY <1>1
<1>3. PICK j \in names : \A k \in names : j <= k
  BY <1>2, Least
<1>4. ASSUME NEW k \in names
      PROVE  ~Before(certs, k, j)
  <2>1. certs[k].file = certs[j].file /\ k \in DOMAIN certs /\ j \in DOMAIN certs
    BY <1>1
  <2>2. certs[k].dir = certs[j].dir /\ k \in Int /\ j \in Int
    BY <2>1, Twins
  <2>3. ~(k < j)
    BY <1>3, <2>2
  <2>4. ~(TalosDirs[certs[k].dir] < TalosDirs[certs[j].dir])
    <3>1. certs[j].dir \in {"secrets", "kubelet"}
      BY DEF TalosFinds, TalosDirs
    <3>2. TalosDirs["secrets"] = 1 /\ TalosDirs["kubelet"] = 2
      BY DEF TalosDirs
    <3>3. QED
      BY <2>2, <3>1, <3>2
  <2>5. QED
    BY <2>3, <2>4 DEF Before
<1> QED
  BY <1>4 DEF First

\* A certificate that expires, and was read, is warned of.
LEMMA CertTold ==
  ASSUME NEW n, AreCerts(n.certs), NEW failed, NEW i \in DOMAIN n.certs, n.certs[i].days < 90,
         \/ "talos_certs" \notin failed /\ n.certs[i].dir \in {"secrets", "kubelet"} /\ n.certs[i].talosReads
         \/ "k8s_certs" \notin failed /\ n.certs[i].dir \in K8sDirs /\ n.certs[i].k8sReads,
         ~(n.certs[i].dir = "secrets" /\ "talos_certs" \notin failed /\ ~n.certs[i].talosReads)
  PROVE  AboutCert(Warnings(n, failed), n, n.certs[i]) # {}
<1> DEFINE told == AboutCert(Warnings(n, failed), n, n.certs[i])
<1>1. ASSUME NEW j \in DOMAIN n.certs, n.certs[j].file = n.certs[i].file, NEW collector,
             CertWarning(n.certs[j], collector) \in Warnings(n, failed),
             collector \in {"k8s_certs", "talos_certs"}
      PROVE  told # {}
  <2>1. /\ CertWarning(n.certs[j], collector).source = collector
        /\ CertWarning(n.certs[j], collector).on = n.certs[j].name
    BY DEF CertWarning, Warning
  <2>2. n.certs[j] \in {d \in ToSet(n.certs) : d.file = n.certs[i].file}
    BY <1>1 DEF ToSet
  <2>3. CertWarning(n.certs[j], collector) \in told
    BY <1>1, <2>1, <2>2 DEF AboutCert
  <2>4. QED
    BY <2>3
<1>2. CASE ByK8s(n, failed, n.certs[i])
  <2>1. CertWarning(n.certs[i], "k8s_certs") \in Warnings(n, failed)
    BY <1>2, K8sSays, Parts
  <2>2. QED
    BY <1>1, <2>1
<1>3. CASE "talos_certs" \notin failed /\ i \in TalosFinds(n.certs) /\ n.certs[i].talosReads
  <2>1. PICK j \in TalosFinds(n.certs) : n.certs[j].file = n.certs[i].file /\ First(n.certs, j)
    BY <1>3, FirstName
  <2>2. j \in DOMAIN n.certs
    BY DEF TalosFinds
  <2>3. n.certs[j].days < 90 /\ n.certs[j].talosReads
    BY <1>3, <2>1, <2>2, Twins
  <2>4. ByTalos(n, failed, j)
    BY <1>3, <2>1, <2>3 DEF ByTalos
  <2>5. CertWarning(n.certs[j], "talos_certs") \in Warnings(n, failed)
    BY <2>2, <2>4, TalosSays, Parts
  <2>6. QED
    BY <1>1, <2>1, <2>2, <2>5
<1>4. i \in TalosFinds(n.certs) <=> n.certs[i].dir \in {"secrets", "kubelet"}
  BY DEF TalosFinds, TalosDirs
<1> QED
  BY <1>2, <1>3, <1>4 DEF ByK8s

\* "one expiring cert must raise one warning": whatever links, directories and failures
\* there are, never two and never none of what could be read.
THEOREM CertsWarnedOnce == AnswerSpec => []CertWarnedOnce
<1>1. AnswerInv => CertWarnedOnce
  <2> SUFFICES ASSUME AnswerInv, asked, NEW c \in ToSet(node.certs)
               PROVE  LET told == AboutCert(answer, node, c)
                          read == \/ /\ "talos_certs" \notin failing
                                     /\ c.dir \in {"secrets", "kubelet"} /\ c.talosReads
                                  \/ /\ "k8s_certs" \notin failing
                                     /\ c.dir \in K8sDirs /\ c.k8sReads
                          missed == c.dir = "secrets" /\ "talos_certs" \notin failing /\ ~c.talosReads
                      IN  /\ Cardinality(told) <= 1
                          /\ c.days < 90 /\ read /\ ~missed => told # {}
                          /\ c.days >= 90 => told = {}
    BY DEF CertWarnedOnce, AboutCert
  <2> DEFINE told == AboutCert(answer, node, c)
  <2>1. AreCerts(node.certs) /\ answer = Warnings(node, failing)
    BY WarningsAssumption DEF AnswerInv, WellFormed
  <2>2. PICK i \in DOMAIN node.certs : c = node.certs[i]
    BY DEF ToSet
  <2>3. Cardinality(told) <= 1
    <3>1. \A v, w \in told : v = w
      BY <2>1, CertOnce
    <3>2. CASE told = {}
      BY <3>2, FS_EmptySet
    <3>3. CASE told # {}
      <4>1. PICK w : told = {w}
        BY <3>1, <3>3
      <4>2. Cardinality({w}) = 1
        BY FS_Singleton
      <4>3. QED
        BY <4>1, <4>2
    <3>4. QED
      BY <3>2, <3>3
  <2>4. ASSUME c.days >= 90 PROVE told = {}
    <3> SUFFICES ASSUME NEW w \in told PROVE FALSE
      OBVIOUS
    <3>1. PICK j \in DOMAIN node.certs :
               node.certs[j].file = c.file /\ node.certs[j].days < 90
      BY <2>1, CertWhy DEF ByK8s, ByTalos
    <3>2. node.certs[j].days = c.days
      BY <2>1, <2>2, <3>1, Twins
    <3>3. c.days \in Int
      BY <2>1, <2>2 DEF AreCerts
    <3>4. QED
      BY <2>4, <3>1, <3>2, <3>3
  <2>5. QED
    BY <2>1, <2>2, <2>3, <2>4, CertTold
<1> QED
  BY <1>1, Given, PTL

-----------------------------------------------------------------------------
(* The kernel log.                                                           *)

Fault(rule, events) ==
  [Warning(IF rule \in CriticalRules THEN "critical" ELSE "warning", "dmesg",
                  RuleSources[rule], Rules[rule]) EXCEPT !.events = events]
Recent(log) == {i \in DOMAIN log.lines : Age(log.lines[i], log) <= WindowHours}
Hits(log, rule) == {i \in Recent(log) : RuleOf(rule, log.lines[i])}

LEMMA ScanSays ==
  ASSUME NEW log
  PROVE  Scan(log) = {Fault(rule, Hits(log, rule)) :
                               rule \in {rule \in DOMAIN Rules : Hits(log, rule) # {}}}
  BY DEF Scan, Fault, Hits, Recent

LEMMA RuleNumbers == DOMAIN Rules \subseteq Nat
  BY DEF Rules

\* A line that matches a rule is of one rule.
LEMMA OneRule ==
  ASSUME NEW line, line.patterns \subseteq DOMAIN Rules
  PROVE  /\ (\E rule \in line.patterns : rule \notin line.excludes)
              => \E rule \in DOMAIN Rules : RuleOf(rule, line)
         /\ \A rule \in DOMAIN Rules : RuleOf(rule, line)
              => \E r \in line.patterns : r \notin line.excludes
         /\ \A r, s \in DOMAIN Rules :
              RuleOf(r, line) /\ RuleOf(s, line) => r = s
<1> DEFINE matched == {rule \in line.patterns : rule \notin line.excludes}
<1>1. matched \in SUBSET Nat /\ matched \subseteq DOMAIN Rules
  BY RuleNumbers
<1>2. \A rule : Matches(rule, line) <=> rule \in matched
  BY DEF Matches
<1>3. ASSUME matched # {} PROVE \E rule \in DOMAIN Rules : RuleOf(rule, line)
  <2>1. PICK rule \in matched : \A other \in matched : rule <= other
    BY <1>1, <1>3, Least
  <2>2. \A other \in 1..(rule - 1) : other \notin matched
    <3> HIDE DEF matched
    <3> QED
      BY <1>1, <2>1
  <2>3. QED
    BY <1>1, <1>2, <2>1, <2>2 DEF RuleOf
<1>4. ASSUME NEW r \in DOMAIN Rules, NEW s \in DOMAIN Rules,
             RuleOf(r, line), RuleOf(s, line)
      PROVE  r = s
  <2>1. r \in Nat /\ s \in Nat
    BY RuleNumbers
  <2>2. r >= 1 /\ s >= 1
    BY DEF Rules
  <2>3. r \notin 1..(s - 1) /\ s \notin 1..(r - 1)
    BY <1>4 DEF RuleOf
  <2>4. QED
    BY <2>1, <2>2, <2>3
<1> QED
  BY <1>2, <1>3, <1>4 DEF RuleOf

\* "Every rule matches an error event": each of the last week is counted once.
THEOREM KernelFaultsCountedOnce == AnswerSpec => []KernelFaultCountedOnce
<1>1. AnswerInv => KernelFaultCountedOnce
  <2> SUFFICES ASSUME AnswerInv, asked, "dmesg" \notin failing, node.log.format # "unreadable",
                      NEW i \in DOMAIN node.log.lines
               PROVE  LET l == node.log.lines[i]
                          fault == \E rule \in l.patterns : rule \notin l.excludes
                          dated == l.stamped /\ (node.log.format = "iso" \/ node.log.bootKnown)
                          counts == {w \in answer : w.source = "dmesg" /\ i \in w.events}
                      IN  Cardinality(counts) =
                            IF fault /\ (dated => l.age <= WindowHours) THEN 1 ELSE 0
    BY DEF KernelFaultCountedOnce
  <2> DEFINE log == node.log
             l == log.lines[i]
             fault == \E rule \in l.patterns : rule \notin l.excludes
             dated == l.stamped /\ (log.format = "iso" \/ log.bootKnown)
             counts == {w \in answer : w.source = "dmesg" /\ i \in w.events}
  <2>1. IsLog(log)
    BY WarningsAssumption DEF AnswerInv, WellFormed
  <2>2. counts = {w \in Scan(log) : i \in w.events}
    BY Sorted DEF AnswerInv, From, Kernel, Section, CollectDmesg
  <2>3. \A rule, events : Fault(rule, events).events = events
    BY DEF Fault, Warning
  <2>4. i \in Recent(log) <=> (dated => l.age <= WindowHours)
    BY <2>1 DEF IsLog, Recent, Age, Unknown, WindowHours
  <2> HIDE DEF counts
  <2>5. CASE fault /\ i \in Recent(log)
    <3>1. PICK rule \in DOMAIN Rules : RuleOf(rule, l)
      BY <2>1, <2>5, OneRule DEF IsLog
    <3>2. \A r \in DOMAIN Rules : i \in Hits(log, r) <=> r = rule
      BY <2>1, <2>5, <3>1, OneRule DEF IsLog, Hits
    <3>3. counts = {Fault(rule, Hits(log, rule))}
      BY <2>2, <2>3, <3>1, <3>2, ScanSays
    <3>4. Cardinality(counts) = 1
      BY <3>3, FS_Singleton
    <3>5. QED
      BY <2>4, <2>5, <3>4 DEF counts
  <2>6. CASE ~(fault /\ i \in Recent(log))
    <3>1. \A r \in DOMAIN Rules : i \notin Hits(log, r)
      BY <2>1, <2>6, OneRule DEF IsLog, Hits
    <3>2. counts = {}
      BY <2>2, <2>3, <3>1, ScanSays
    <3>3. Cardinality(counts) = 0
      BY <3>2, FS_EmptySet
    <3>4. QED
      BY <2>4, <2>6, <3>3 DEF counts
  <2>7. QED
    BY <2>5, <2>6
<1> QED
  BY <1>1, Given, PTL

-----------------------------------------------------------------------------
(* Filesystems.                                                              *)

Usage(view, i) ==
  [mount |-> view.mounts[i].mount, filesystem |-> view.mounts[i].dev,
   severity |-> DiskSeverity(view.used[view.mounts[i].dev])]

\* No filesystem of a later line is mounted on the same path.
Top(view, i) ==
  \A j \in ParseMountinfo(view.mounts) :
    view.mounts[j].mount = view.mounts[i].mount =>
      Entered(view.mounts, j) <= Entered(view.mounts, i)

LEMMA DfSays ==
  ASSUME NEW view
  PROVE  Df(view) =
           {Usage(view, i) : i \in {i \in ParseMountinfo(view.mounts) :
                                     Top(view, i) /\ ~view.hung /\ view.used[view.mounts[i].dev] # Unknown}}
  BY DEF Df, Usage, Top

\* df prints nothing of a filesystem that cannot fill up.
LEMMA OnlyFillable ==
  ASSUME NEW view, NEW u \in Df(view)
  PROVE  \E i \in DOMAIN view.mounts :
           /\ u = Usage(view, i)
           /\ view.mounts[i].type # "skip" /\ ~view.mounts[i].ro
  BY DfSays DEF ParseMountinfo, Fillable

\* Of the lines of a filesystem one is kept.
LEMMA OneKept ==
  ASSUME NEW view, IsView(view), NEW i \in Fillable(view.mounts)
  PROVE  /\ \E k \in ParseMountinfo(view.mounts) : view.mounts[k].dev = view.mounts[i].dev
         /\ \A j, k \in ParseMountinfo(view.mounts) :
              view.mounts[j].dev = view.mounts[k].dev => j = k
<1> DEFINE lines == view.mounts
           same == {j \in Fillable(lines) : lines[j].dev = lines[i].dev}
           lengths == {lines[j].length : j \in same}
<1>1. /\ \A j \in Fillable(lines) : j \in Nat /\ lines[j].length \in Nat
      /\ i \in same
  BY DEF IsView, Fillable
<1>2. lengths \in SUBSET Nat /\ lengths # {}
  BY <1>1
<1>3. PICK short \in lengths : \A length \in lengths : short <= length
  <2> HIDE DEF lengths
  <2> QED
    BY <1>2, Least
<1> DEFINE shortest == {j \in same : lines[j].length = short}
<1>4. shortest \in SUBSET Nat /\ shortest # {}
  BY <1>1, <1>3
<1>5. PICK k \in shortest : \A j \in shortest : k <= j
  <2> HIDE DEF shortest
  <2> QED
    BY <1>4, Least
<1>6. k \in Fillable(lines) /\ lines[k].dev = lines[i].dev /\ lines[k].length = short
  BY <1>5
<1>7. ASSUME NEW j \in Fillable(lines), lines[j].dev = lines[k].dev
      PROVE  lines[k].length < lines[j].length \/ (lines[k].length = lines[j].length /\ k <= j)
  <2>1. j \in same /\ lines[j].length \in lengths
    BY <1>6, <1>7
  <2>2. short <= lines[j].length /\ short \in Nat /\ lines[j].length \in Nat
    BY <1>1, <1>2, <1>3, <2>1
  <2>3. CASE lines[j].length = short
    BY <1>5, <1>6, <2>1, <2>3
  <2>4. CASE lines[j].length # short
    BY <1>6, <2>2, <2>4
  <2>5. QED
    BY <2>3, <2>4
<1>8. k \in ParseMountinfo(lines)
  BY <1>6, <1>7 DEF ParseMountinfo, SameFilesystem
<1>9. ASSUME NEW j \in ParseMountinfo(lines), NEW m \in ParseMountinfo(lines),
             lines[j].dev = lines[m].dev
      PROVE  j = m
  <2>1. /\ j \in Nat /\ m \in Nat /\ lines[j].length \in Nat /\ lines[m].length \in Nat
        /\ j \in Fillable(lines) /\ m \in Fillable(lines)
    BY <1>1 DEF ParseMountinfo
  <2>2. /\ lines[j].length < lines[m].length \/ (lines[j].length = lines[m].length /\ j <= m)
        /\ lines[m].length < lines[j].length \/ (lines[m].length = lines[j].length /\ m <= j)
    BY <1>9, <2>1 DEF ParseMountinfo, SameFilesystem
  <2>3. QED
    BY <2>1, <2>2
<1> QED
  BY <1>6, <1>8, <1>9

LEMMA EnteredType ==
  ASSUME NEW view, IsView(view), NEW i \in Fillable(view.mounts)
  PROVE  Entered(view.mounts, i) \in Nat
<1> DEFINE same == {j \in Fillable(view.mounts) :
                      SameFilesystem(view.mounts[j], view.mounts[i])}
<1>1. same \in SUBSET Nat /\ same # {}
  BY DEF IsView, Fillable, SameFilesystem
<1>2. Entered(view.mounts, i) = Min(same)
  BY DEF Entered
<1> HIDE DEF same
<1>3. \E x \in same : \A y \in same : x <= y
  BY <1>1, Least
<1>4. Min(same) \in same
  BY <1>3 DEF Min
<1> QED
  BY <1>1, <1>2, <1>4

\* df prints one line for a filesystem that can fill up and that no other hides.
LEMMA OneUsage ==
  ASSUME NEW view, IsView(view), ~view.hung,
         NEW i \in Fillable(view.mounts),
         view.used[view.mounts[i].dev] # Unknown,
         \A j, k \in DOMAIN view.mounts :
           /\ view.mounts[k].dev = view.mounts[i].dev
           /\ view.mounts[j].mount = view.mounts[k].mount
           => view.mounts[j].dev = view.mounts[i].dev
  PROVE  \E k \in DOMAIN view.mounts :
           /\ view.mounts[k].dev = view.mounts[i].dev
           /\ {u \in Df(view) : u.filesystem = view.mounts[i].dev} = {Usage(view, k)}
<1>1. PICK k \in ParseMountinfo(view.mounts) : view.mounts[k].dev = view.mounts[i].dev
  BY OneKept
<1>2. ParseMountinfo(view.mounts) \subseteq Fillable(view.mounts)
      /\ Fillable(view.mounts) \subseteq DOMAIN view.mounts
  BY DEF ParseMountinfo, Fillable
<1>3. \A j \in ParseMountinfo(view.mounts) : view.mounts[j].dev = view.mounts[i].dev => j = k
  BY <1>1, OneKept
<1>4. Top(view, k)
  <2> SUFFICES ASSUME NEW j \in ParseMountinfo(view.mounts),
                      view.mounts[j].mount = view.mounts[k].mount
               PROVE  Entered(view.mounts, j) <= Entered(view.mounts, k)
    BY DEF Top
  <2>1. j = k
    BY <1>1, <1>2, <1>3
  <2>2. Entered(view.mounts, k) \in Nat
    BY <1>1, <1>2, EnteredType
  <2>3. QED
    BY <2>1, <2>2
<1>5. \A j : Usage(view, j).filesystem = view.mounts[j].dev
  BY DEF Usage
<1>6. Usage(view, k) \in Df(view)
  BY <1>1, <1>4, DfSays
<1>7. ASSUME NEW u \in Df(view), u.filesystem = view.mounts[i].dev
      PROVE  u = Usage(view, k)
  BY <1>3, <1>5, <1>7, DfSays
<1> QED
  BY <1>1, <1>2, <1>5, <1>6, <1>7

LEMMA DiskSays ==
  ASSUME NEW u
  PROVE  /\ u.severity = "ok" => DiskWarnings(u) = {}
         /\ u.severity # "ok" =>
              DiskWarnings(u) = {Warning(u.severity, "disk", u.mount, u.filesystem)}
         /\ \A w \in DiskWarnings(u) : w.on = u.filesystem /\ w.severity = u.severity
  BY DEF DiskWarnings, If, Warning

\* A filesystem is told of by what df says of it.
LEMMA FullSays ==
  ASSUME NEW n, NEW failed, "disk_usage" \notin failed
  PROVE  \A w : w \in Full(n, failed) <=>
           \E u \in CollectDiskUsage(n.disks) : w \in DiskWarnings(u)
  BY DEF Full, Section

\* A filesystem of which every line is read-only or skipped has no line of df.
LEMMA ReadOnlySilent ==
  ASSUME NEW n, NEW failed, NEW dev, "disk_usage" \notin failed,
         \A m \in ToSet(n.disks.host.mounts) \cup ToSet(n.disks.container.mounts) :
           m.dev = dev => m.ro \/ m.type = "skip"
  PROVE  \A w \in Full(n, failed) : w.on # dev
<1> SUFFICES ASSUME NEW w \in Full(n, failed), w.on = dev PROVE FALSE
  OBVIOUS
<1>1. PICK u \in CollectDiskUsage(n.disks) : w \in DiskWarnings(u)
  BY FullSays
<1>2. u.filesystem = dev
  BY <1>1, DiskSays
<1>3. PICK view \in {n.disks.host, n.disks.container} : u \in Df(view)
  BY <1>1 DEF CollectDiskUsage
<1>4. PICK i \in DOMAIN view.mounts :
           u = Usage(view, i) /\ view.mounts[i].type # "skip" /\ ~view.mounts[i].ro
  BY <1>3, OnlyFillable
<1>5. view.mounts[i].dev = dev
  BY <1>2, <1>4 DEF Usage
<1>6. view.mounts[i] \in ToSet(view.mounts)
  BY DEF ToSet
<1> QED
  BY <1>3, <1>4, <1>5, <1>6

\* A writable filesystem that no other hides is told of by its usage, once.
LEMMA WritableTold ==
  ASSUME NEW n, IsView(n.disks.host), ~n.disks.host.hung,
         NEW failed, "disk_usage" \notin failed, NEW i \in DOMAIN n.disks.host.mounts,
         ~n.disks.host.mounts[i].ro, n.disks.host.mounts[i].type = "disk",
         n.disks.host.used[n.disks.host.mounts[i].dev] # Unknown,
         \A j, k \in DOMAIN n.disks.host.mounts :
           /\ n.disks.host.mounts[k].dev = n.disks.host.mounts[i].dev
           /\ n.disks.host.mounts[j].mount = n.disks.host.mounts[k].mount
           => n.disks.host.mounts[j].dev = n.disks.host.mounts[i].dev
  PROVE  LET dev == n.disks.host.mounts[i].dev
             severity == DiskSeverity(n.disks.host.used[dev])
             told == {w \in Full(n, failed) : w.on = dev}
         IN  /\ severity = "ok" => told = {}
             /\ severity # "ok" => \E w : told = {w} /\ w.severity = severity
<1> DEFINE host == n.disks.host
           dev == host.mounts[i].dev
           severity == DiskSeverity(host.used[dev])
           told == {w \in Full(n, failed) : w.on = dev}
<1>1. i \in Fillable(host.mounts)
  BY DEF Fillable
<1>2. PICK k \in DOMAIN host.mounts :
           host.mounts[k].dev = dev /\ {u \in Df(host) : u.filesystem = dev} = {Usage(host, k)}
  BY <1>1, OneUsage
<1>3. PICK u \in Df(host) : u = Usage(host, k)
  BY <1>2
<1>4. u.filesystem = dev /\ u.severity = severity
  BY <1>2, <1>3 DEF Usage
<1>5. CollectDiskUsage(n.disks) = Df(host)
  BY <1>3 DEF CollectDiskUsage
<1>6. told = DiskWarnings(u)
  <2>1. \A w \in told : w \in DiskWarnings(u)
    BY <1>2, <1>3, <1>5, FullSays, DiskSays
  <2>2. \A w \in DiskWarnings(u) : w \in told
    BY <1>4, <1>5, FullSays, DiskSays
  <2>3. QED
    BY <2>1, <2>2
<1>7. u.severity # "ok" => \E w : told = {w} /\ w.severity = severity
  <2> SUFFICES ASSUME u.severity # "ok" PROVE \E w : told = {w} /\ w.severity = severity
    OBVIOUS
  <2> DEFINE w == Warning(u.severity, "disk", u.mount, u.filesystem)
  <2>1. told = {w}
    BY <1>6, DiskSays
  <2>2. w.severity = severity
    BY <1>4 DEF Warning
  <2>3. QED
    BY <2>1, <2>2
<1>8. u.severity = "ok" => told = {}
  BY <1>6, DiskSays
<1> QED
  BY <1>4, <1>7, <1>8

\* A filesystem that fills up is reported once, with the severity of its usage; one that
\* is only mounted read-only is not.
THEOREM FullDisksToldOnce == AnswerSpec => []FullDiskOnce
<1>1. AnswerInv => FullDiskOnce
  <2> SUFFICES ASSUME AnswerInv, asked, "disk_usage" \notin failing, ~node.disks.host.hung,
                      NEW dev \in DOMAIN node.disks.host.used
               PROVE  LET host == node.disks.host
                          lines == {m \in ToSet(host.mounts) : m.dev = dev}
                          others == {m \in ToSet(node.disks.container.mounts) : m.dev = dev}
                          fillable == \E m \in lines : ~m.ro /\ m.type = "disk"
                          hidden == \E m \in lines, o \in ToSet(host.mounts) :
                                      m.mount = o.mount /\ o.dev # dev
                          told == {w \in answer : w.source = "disk" /\ w.on = dev}
                      IN  /\ (\A m \in lines \cup others : m.ro \/ m.type = "skip") => told = {}
                          /\ host.used[dev] # Unknown /\ fillable /\ ~hidden =>
                               /\ Cardinality(told) = IF host.used[dev] >= 85 THEN 1 ELSE 0
                               /\ \A w \in told : w.severity = "critical" <=> host.used[dev] >= 95
    BY DEF FullDiskOnce
  <2> DEFINE host == node.disks.host
             lines == {m \in ToSet(host.mounts) : m.dev = dev}
             others == {m \in ToSet(node.disks.container.mounts) : m.dev = dev}
             fillable == \E m \in lines : ~m.ro /\ m.type = "disk"
             hidden == \E m \in lines, o \in ToSet(host.mounts) :
                         m.mount = o.mount /\ o.dev # dev
             told == {w \in answer : w.source = "disk" /\ w.on = dev}
  <2>1. IsView(host)
    BY WarningsAssumption DEF AnswerInv, WellFormed
  <2>2. told = {w \in Full(node, failing) : w.on = dev}
    BY Sorted DEF AnswerInv, From
  <2>3. ASSUME \A m \in lines \cup others : m.ro \/ m.type = "skip" PROVE told = {}
    <3>1. \A w \in Full(node, failing) : w.on # dev
      BY <2>3, ReadOnlySilent
    <3>2. QED
      BY <2>2, <3>1
  <2>4. ASSUME host.used[dev] # Unknown, fillable, ~hidden
        PROVE  /\ Cardinality(told) = IF host.used[dev] >= 85 THEN 1 ELSE 0
               /\ \A w \in told : w.severity = "critical" <=> host.used[dev] >= 95
    <3>1. PICK i \in DOMAIN host.mounts :
               host.mounts[i].dev = dev /\ ~host.mounts[i].ro /\ host.mounts[i].type = "disk"
      BY <2>4 DEF ToSet
    <3>2. \A j, k \in DOMAIN host.mounts :
            host.mounts[k].dev = dev /\ host.mounts[j].mount = host.mounts[k].mount
              => host.mounts[j].dev = dev
      BY <2>4 DEF ToSet
    <3> DEFINE severity == DiskSeverity(host.used[dev])
    <3>3. /\ severity = "ok" => told = {}
          /\ severity # "ok" => \E w : told = {w} /\ w.severity = severity
      BY <2>1, <2>2, <2>4, <3>1, <3>2, WritableTold
    <3>4. host.used[dev] \in Nat
      BY <2>1, <2>4 DEF IsView
    <3>5. /\ severity = "ok" <=> ~(host.used[dev] >= 85)
          /\ severity = "critical" <=> host.used[dev] >= 95
      BY <3>4 DEF DiskSeverity
    <3> HIDE DEF severity, told
    <3>6. CASE severity = "ok"
      BY <3>3, <3>4, <3>5, <3>6, FS_EmptySet
    <3>7. CASE severity # "ok"
      <4>1. PICK w : told = {w} /\ w.severity = severity
        BY <3>3, <3>7
      <4>2. Cardinality({w}) = 1
        BY FS_Singleton
      <4>3. QED
        BY <3>5, <3>7, <4>1, <4>2
    <3>8. QED
      BY <3>6, <3>7
  <2>5. QED
    BY <2>3, <2>4
<1> QED
  BY <1>1, Given, PTL
=============================================================================
