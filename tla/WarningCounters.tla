--------------------------- MODULE WarningCounters ---------------------------
(***************************************************************************)
(* The lifetime error counters behind GET /api/warnings: NIC and ECC       *)
(* counters are sampled by cached collectors, and get_warnings compares    *)
(* each sample with the one in the module-level _counters table to tell a  *)
(* counter that still moves from one that moved long ago.                  *)
(*                                                                         *)
(* Several requests run at once.  Each awaits every collector and then     *)
(* aggregates without suspending.  A collector is a ttl_cache (module      *)
(* TtlCache): a caller gets the fresh entry without the lock or queues for *)
(* the lock, and the queue is woken one caller at a time, each in a turn   *)
(* of the event loop of its own.  A request that finds everything fresh    *)
(* can therefore pass one that is still to be woken.                       *)
(***************************************************************************)
EXTENDS Naturals, FiniteSets, Sequences, SequencesExt

CONSTANTS
  Nics,      (* interface names collect_nics does not skip                    *)
  Ecc,       (* ECC counters, each a sum over the memory controllers          *)
  Nodes,     (* the sets of these counters a node may have hardware for       *)
  Requests,  (* concurrent GET /api/warnings                                  *)
  Sections,  (* callers of a collector from the other routers                 *)
  Ttl,       (* CACHE_TTL of the collectors                                   *)
  Window,    (* COUNTER_WINDOW_HOURS                                          *)
  Faults,    (* what sysfs may refuse: "listing", "reading"                   *)
  MaxTime,   (* model bound: last clock reading                               *)
  MaxValue   (* model bound: highest counter value                            *)

Counters == Nics \cup Ecc

\* The collectors the counters come from; the others only delay the aggregation,
\* as each of these two does for the other's counters.
Collectors == {"nics", "memory"}

ASSUME CountersAssumption ==
  /\ Requests \cap Sections = {}
  /\ Nics \cap Ecc = {} /\ Nodes \subseteq SUBSET Counters
  /\ Ttl \in Nat /\ Window \in Nat /\ MaxTime \in Nat /\ MaxValue \in Nat
  /\ Faults \subseteq {"listing", "reading"}

VARIABLES
  fitted,   (* the counters of this node                                      *)
  now,      (* time.monotonic()                                               *)
  hw,       (* the counters the kernel keeps                                  *)
  up,       (* interfaces present in /sys/class/net                           *)
  rose,     (* when each kernel counter last went up (history)                *)
  entry,    (* collector -> its cached sample                                 *)
  waiting,  (* collector -> who holds its lock or queues for it, in order     *)
  busy,     (* collectors the first of that queue is computing                *)
  raised,   (* collector -> callers that were queued when it raised           *)
  got,      (* request -> collector -> the sample it got                      *)
  ready,    (* requests whose collectors all answered, in that order          *)
  table,    (* _counters: last value, and when it was seen to go up           *)
  blind,    (* counters whose row comes from a refused reading (history)      *)
  seen,     (* counter -> when the sample in the table was taken (history)    *)
  since,    (* counter -> since when the table follows it (history)           *)
  gone      (* counter -> when its interface last went away (history)         *)

env == <<fitted, now, hw, up, rose>>
history == <<blind, seen, since, gone>>
locks == <<waiting, busy, raised>>
vars == <<env, entry, locks, got, ready, table, history>>

Never == 0     \* time starts at 1
None == [state |-> "none", at |-> 0, names |-> {}, bad |-> {},
         value |-> [n \in Counters |-> 0]]
Failed == [None EXCEPT !.state = "failed"]
NoRow == [known |-> FALSE, value |-> 0, last |-> Never]

Init ==
  /\ fitted \in Nodes
  /\ now = 1
  /\ hw \in {v \in [Counters -> {0, 1}] : \A n \in Counters \ fitted : v[n] = 0}
  /\ up = Nics \cap fitted
  /\ rose = [n \in Counters |-> Never]
  /\ entry = [k \in Collectors |-> None]
  /\ waiting = [k \in Collectors |-> <<>>]
  /\ busy = {}
  /\ raised = [k \in Collectors |-> {}]
  /\ got = [q \in Requests |-> [k \in Collectors |-> None]]
  /\ ready = <<>>
  /\ table = [n \in Counters |-> NoRow]
  /\ blind = {}
  /\ seen = [n \in Counters |-> Never]
  /\ since = [n \in Counters |-> Never]
  /\ gone = [n \in Counters |-> Never]

-----------------------------------------------------------------------------
(* The node.                                                                 *)

Tick ==
  /\ now < MaxTime
  /\ now' = now + 1
  /\ UNCHANGED <<fitted, hw, up, rose, entry, locks, got, ready, table, history>>

Rise(n) ==
  /\ n \in up \cup (Ecc \cap fitted)
  /\ hw[n] < MaxValue
  /\ hw' = [hw EXCEPT ![n] = @ + 1]
  /\ rose' = [rose EXCEPT ![n] = now]
  /\ UNCHANGED <<fitted, now, up, entry, locks, got, ready, table, history>>

\* The interface goes away; when it is back its counter starts at zero.
Unplug(n) ==
  /\ n \in up
  /\ up' = up \ {n}
  /\ hw' = [hw EXCEPT ![n] = 0]
  /\ since' = [since EXCEPT ![n] = Never]
  /\ gone' = [gone EXCEPT ![n] = now]
  /\ UNCHANGED <<fitted, now, rose, entry, locks, got, ready, table, blind, seen>>

Plug(n) ==
  /\ n \in (Nics \cap fitted) \ up
  /\ up' = up \cup {n}
  /\ UNCHANGED <<fitted, now, hw, rose, entry, locks, got, ready, table, history>>

-----------------------------------------------------------------------------
(* The collectors.                                                           *)

\* What reading a counter file can give when it is refused: read_file turns the
\* error into "", which is 0 for a NIC; a memory controller that cannot be read is
\* left out of the sum.
Refused(n) == IF n \in Ecc THEN 0..hw[n] ELSE {0}

Refusals(names) == IF "reading" \in Faults THEN SUBSET names ELSE {{}}

\* What collect_nics can list: os.listdir failing gives no interface, no error.
Listings == {up} \cup IF "listing" \in Faults THEN {{}} ELSE {}

\* The samples of the counters in read, under the names listed.
Samples(names, read) ==
  UNION {{[state |-> "ok", at |-> now, names |-> names, bad |-> bad, value |-> value] :
            value \in {[n \in Counters |-> IF n \in bad THEN v[n]
                                          ELSE IF n \in read THEN hw[n] ELSE 0] :
                         v \in {v \in [bad -> 0..MaxValue] : \A n \in bad : v[n] \in Refused(n)}}} :
         bad \in Refusals(read)}

NicSamples == UNION {Samples(names, up) : names \in Listings}

\* Without a memory controller the sums are 0 for ever, which reports nothing.
MemorySamples == Samples(Ecc \cap fitted, Ecc \cap fitted)

SamplesOf(k) == IF k = "nics" THEN NicSamples ELSE MemorySamples

Fresh(k) == entry[k].state = "ok" /\ now < entry[k].at + Ttl

Source(n) == IF n \in Ecc THEN "memory" ELSE "nics"

AllIn(g) == \A k \in Collectors : g[k].state # "none"

Idle(q) == /\ got[q] = [k \in Collectors |-> None]
           /\ \A k \in Collectors : q \notin Range(waiting[k])
           /\ q \notin Range(ready)

\* The callers in the queue take their places behind those who are there; the one
\* who finds the lock free takes it and computes.
Queue(q, stale) ==
  /\ waiting' = [k \in Collectors |->
                   IF k \in stale THEN Append(waiting[k], q) ELSE waiting[k]]
  /\ busy' = busy \cup {k \in stale : waiting[k] = <<>>}
  /\ UNCHANGED raised

\* GET /api/warnings: gather_sections starts every collector.  Fresh entries
\* come at once, for the others the request queues.
Arrive(q) ==
  /\ Idle(q)
  /\ got' = [got EXCEPT ![q] = [k \in Collectors |-> IF Fresh(k) THEN entry[k] ELSE None]]
  /\ Queue(q, {k \in Collectors : ~Fresh(k)})
  /\ ready' = IF AllIn(got'[q]) THEN Append(ready, q) ELSE ready
  /\ UNCHANGED <<env, entry, table, history>>

\* Another router asks for a collector; only what it leaves in the cache matters.
Poll(s, k) ==
  /\ s \notin Range(waiting[k])
  /\ ~Fresh(k)
  /\ Queue(s, {k})
  /\ UNCHANGED <<env, entry, got, ready, table, history>>

\* The first of the queue returns from the collector with this sample and
\* releases the lock.  A request goes on once all its collectors returned.
Return(k, sample) ==
  LET q == Head(waiting[k])
  IN  /\ waiting' = [waiting EXCEPT ![k] = Tail(@)]
      /\ got' = IF q \in Requests THEN [got EXCEPT ![q][k] = sample] ELSE got
      /\ ready' = IF q \in Requests /\ AllIn(got'[q]) THEN Append(ready, q) ELSE ready
      /\ UNCHANGED <<env, table, history>>

\* The computation ends: with a sample, which is cached, or with an exception,
\* which those in the queue share.
Complete(k) ==
  /\ k \in busy
  /\ busy' = busy \ {k}
  /\ \/ \E sample \in SamplesOf(k) :
          /\ entry' = [entry EXCEPT ![k] = sample]
          /\ raised' = [raised EXCEPT ![k] = {}]
          /\ Return(k, sample)
     \/ /\ raised' = [raised EXCEPT ![k] = Range(Tail(waiting[k]))]
        /\ Return(k, Failed)
        /\ UNCHANGED entry

\* The first waiter gets the lock that was released: it takes what was cached
\* meanwhile, shares the exception, or computes in its turn.
Wake(k) ==
  LET q == Head(waiting[k])
  IN  /\ waiting[k] # <<>> /\ k \notin busy
      /\ raised' = [raised EXCEPT ![k] = @ \ {q}]
      /\ UNCHANGED entry
      /\ \/ Fresh(k) /\ Return(k, entry[k]) /\ UNCHANGED busy
         \/ ~Fresh(k) /\ q \in raised[k] /\ Return(k, Failed) /\ UNCHANGED busy
         \/ /\ ~Fresh(k) /\ q \notin raised[k]
            /\ busy' = busy \cup {k}
            /\ UNCHANGED <<env, waiting, got, ready, table, history>>

-----------------------------------------------------------------------------
(* The aggregation.                                                          *)

\* Mutant: the time of the last increase is not carried over.
BumpedForgetful(n, value) ==
  [known |-> TRUE, value |-> value,
   last |-> IF table[n].known /\ value > table[n].value THEN now ELSE Never]

\* Mutant: >= for >.
BumpedOnEqual(n, value) ==
  [known |-> TRUE, value |-> value,
   last |-> IF table[n].known /\ value >= table[n].value THEN now ELSE table[n].last]

\* _counter_severity: the row after value was seen.
Bumped(n, value) ==
  LET row == table[n]
      moved == value > row.value \/ (value < row.value /\ value > 0)
  IN  [known |-> TRUE, value |-> value,
       last |-> IF row.known /\ moved THEN now ELSE row.last]

\* _counter_severity: what is reported of a row.
Severity(row) ==
  IF row.value = 0 THEN "nothing"
  ELSE IF row.last # Never /\ now - row.last < Window THEN "full" ELSE "info"

\* Mutant: an interface that is not in the sample loses its row even when the
\* collector failed.
ForgottenAlways(q) == {n \in Nics : n \notin got[q]["nics"].names}

\* Interfaces that are gone are forgotten, unless collect_nics failed.
Forgotten(q) ==
  {n \in Nics : got[q]["nics"].state # "failed" /\ n \notin got[q]["nics"].names}

\* The counters a request has samples of, none of a collector that failed.
Sampled(q) == {n \in Counters : n \in got[q][Source(n)].names}

Row(q, n) == Bumped(n, got[q][Source(n)].value[n])

\* What the answer of a request says of a counter.
Reported(q, n) == IF n \in Sampled(q) THEN Severity(Row(q, n)) ELSE "nothing"

\* The request resumes after gather_sections and runs to its end.
Aggregate(q) ==
  LET sampleOf(n) == got[q][Source(n)]
      sampled == Sampled(q)
  IN  /\ ready # <<>> /\ Head(ready) = q
      /\ ready' = Tail(ready)
      /\ got' = [got EXCEPT ![q] = [k \in Collectors |-> None]]
      /\ table' = [n \in Counters |-> IF n \in sampled THEN Row(q, n)
                                      ELSE IF n \in Forgotten(q) THEN NoRow
                                      ELSE table[n]]
      /\ blind' = {n \in Counters : IF n \in sampled THEN n \in sampleOf(n).bad ELSE n \in blind}
      /\ seen' = [n \in Counters |-> IF n \in sampled THEN sampleOf(n).at ELSE seen[n]]
      /\ since' = [n \in Counters |->
                     IF n \in Forgotten(q) THEN Never
                     ELSE IF n \notin sampled THEN since[n]
                     ELSE IF sampleOf(n).at <= gone[n] THEN Never
                     ELSE IF since[n] = Never THEN now ELSE since[n]]
      /\ UNCHANGED gone
      /\ UNCHANGED <<env, entry, locks>>

Next ==
  \/ Tick
  \/ \E n \in Counters : Rise(n)
  \/ \E n \in Nics : Unplug(n) \/ Plug(n)
  \/ \E q \in Requests : Arrive(q) \/ Aggregate(q)
  \/ \E k \in Collectors : Complete(k) \/ Wake(k)
  \/ \E s \in Sections, k \in Collectors : Poll(s, k)

Spec == Init /\ [][Next]_vars

-----------------------------------------------------------------------------
\* "Full severity is kept for a counter that has gone up": a sample newer than
\* the one in the row marks it as moving only if the kernel's counter moved after the
\* sample the row held - or if that sample could not read the counter, or the new
\* one lacks a memory controller, so that the sum has dropped without being 0 and
\* passes for a reset.
OnlyRealIncreases ==
  [][\A n \in Counters :
       /\ seen'[n] > seen[n]
       /\ table'[n].last # table[n].last /\ table'[n].last # Never
       => rose[n] >= seen[n] \/ n \in blind \/ n \in Ecc \cap blind']_vars

\* "Up, or reset (driver reload) and already non-zero again": a value below the
\* one in the row that is taken for an increase belongs to a counter that was
\* reset after the row's sample.
DropsAreResets ==
  [][\A n \in Counters :
       /\ table'[n].last # table[n].last /\ table'[n].last # Never
       /\ table'[n].value < table[n].value
       => gone[n] >= seen[n]]_vars

\* A counter the dashboard follows that went up within the window is reported
\* in full by every answer whose sample read it after the rise, though readings in
\* between were refused.
RiseReported ==
  [][\A q \in Requests, n \in Counters :
       LET sample == got[q][Source(n)]
       IN  /\ n \in up \cup Ecc
           /\ since[n] # Never /\ rose[n] > since[n]
           /\ n \in sample.names \ sample.bad /\ sample.at > rose[n]
           /\ now - rose[n] < Window
           /\ Aggregate(q)
           => Reported(q, n) = "full"]_vars

\* "pod-network churn does not grow the table": once an answer is out, the
\* table follows no interface that answer's sample did not list; a failed
\* collector forgets nothing.
ForgetsOnlyTheGone ==
  [][\A q \in Requests : Aggregate(q) =>
       \A n \in Nics : IF got[q]["nics"].state = "failed"
                          THEN table'[n] = table[n]
                          ELSE table'[n].known <=> n \in got[q]["nics"].names]_vars
=============================================================================
