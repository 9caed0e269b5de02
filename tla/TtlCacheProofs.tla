--------------------------- MODULE TtlCacheProofs ---------------------------
(***************************************************************************)
(* Proofs about the ttl_cache decorator, for every number of keys, callers *)
(* and lock objects, every ttl and every queue length.                     *)
(***************************************************************************)
EXTENDS TtlCache, TLAPS, FiniteSetTheorems, SequenceTheorems

(***************************************************************************)
(* Types                                                                   *)
(***************************************************************************)
\* Releasing an asyncio.Lock leaves its owner and its queue well typed.
LEMMA ReleaseType ==
  ASSUME TypeOK, NEW l, Release(l)
  PROVE  /\ owner' \in [Locks -> Callers \cup {NoCaller}]
         /\ waiters' \in [Locks -> Seq(Callers)]
<1>1. CASE waiters[l] = <<>>
  BY <1>1 DEF TypeOK, Release
<1>2. CASE waiters[l] # <<>> /\ l \in Locks
  <2>1. waiters[l] \in Seq(Callers)
    BY <1>2 DEF TypeOK
  <2>2. Head(waiters[l]) \in Callers /\ Tail(waiters[l]) \in Seq(Callers)
    BY <1>2, <2>1, HeadTailProperties
  <2>3. QED
    BY <1>2, <2>2 DEF TypeOK, Release
<1>3. CASE waiters[l] # <<>> /\ l \notin Locks
  BY <1>3 DEF TypeOK, Release
<1>4. QED
  BY <1>1, <1>2, <1>3

\* Queueing on a lock does too.
LEMMA AcquireType ==
  ASSUME TypeOK, NEW c \in Callers, NEW l \in Locks, Acquire(c, l)
  PROVE  /\ owner' \in [Locks -> Callers \cup {NoCaller}]
         /\ waiters' \in [Locks -> Seq(Callers)]
<1>1. Append(waiters[l], c) \in Seq(Callers)
  BY AppendProperties DEF TypeOK
<1>2. QED
  BY <1>1 DEF TypeOK, Acquire

\* A call that ends forgets its key and its lock and records its outcome.
LEMMA ReturnType ==
  ASSUME TypeOK, NEW c \in Callers, NEW at \in Nat,
         NEW tag \in {"good", "degraded", "raise", "cancelled"},
         Return(c, tag, at)
  PROVE  /\ pc' \in [Callers -> {"idle", "queued", "computing"}]
         /\ key' \in [Callers -> Keys \cup {NoKey}]
         /\ held' \in [Callers -> Locks \cup {NoLock}]
         /\ out' \in [Callers -> Outcome]
         /\ \A d \in Callers :
              pc'[d] # "idle" => key'[d] \in Keys /\ held'[d] \in Locks
<1>1. [tag |-> tag, at |-> at, when |-> now] \in Outcome
  BY DEF TypeOK, Outcome
<1>2. QED
  BY <1>1 DEF TypeOK, Return

\* Storing an entry, with the eviction it may trigger, keeps both tables typed.
LEMMA EvictType ==
  ASSUME TypeOK, NEW table \in [Keys -> Entry], Evict(table)
  PROVE  /\ cache' \in [Keys -> Entry]
         /\ locks' \in [Keys -> Locks \cup {NoLock}]
<1>1. NoEntry \in Entry
  BY DEF NoEntry, Entry
<1>2. QED
  BY <1>1 DEF TypeOK, Evict

\* Forgetting the oldest failure keeps the failures typed.
LEMMA TrimType ==
  ASSUME TypeOK, NEW table \in [Keys -> Failure], TrimFailures(table)
  PROVE  failures' \in [Keys -> Failure]
<1>1. NoFailure \in Failure
  BY DEF NoFailure, Failure
<1>2. QED
  BY <1>1 DEF TypeOK, TrimFailures

\* The entry Computed stores is an Entry.
LEMMA EntryType ==
  ASSUME CacheAssumption, TypeOK, NEW quality \in {"good", "degraded"}
  PROVE  [quality |-> quality, at |-> now, expires |-> now + Ttl(quality)] \in Entry
<1>1. Ttl(quality) \in Nat
  BY DEF Ttl, CacheAssumption
<1>2. now + Ttl(quality) \in Nat
  BY <1>1 DEF TypeOK
<1>3. QED
  BY <1>2 DEF Entry, TypeOK

\* Every step keeps the types.
LEMMA TypeStep ==
  ASSUME TypeOK, [Next]_vars
  PROVE  TypeOK'
<1> USE CacheAssumption
<1>1. ASSUME NEW c \in Callers, NEW k \in Keys, Hit(c, k)
      PROVE  TypeOK'
  <2>1. cache[k].quality \in {"good", "degraded"} /\ cache[k].at \in Nat
    BY <1>1 DEF TypeOK, Hit, Fresh, Entry
  <2>2. Return(c, cache[k].quality, cache[k].at)
    BY <1>1 DEF Hit
  <2>3. QED
    BY <1>1, <2>1, <2>2, ReturnType DEF TypeOK, Hit, dicts
<1>2. ASSUME NEW c \in Callers, NEW k \in Keys, Miss(c, k)
      PROVE  TypeOK'
  <2>1. PICK l \in Locks : /\ SetDefault(k, l)
                           /\ locks' = [locks EXCEPT ![k] = l]
                           /\ held' = [held EXCEPT ![c] = l]
                           /\ Acquire(c, l)
    BY <1>2 DEF Miss
  <2>2. NoOutcome \in Outcome
    BY DEF NoOutcome, Outcome
  <2>3. QED
    BY <1>2, <2>1, <2>2, AcquireType DEF TypeOK, Miss, dicts
<1>3. ASSUME NEW c \in Callers, HoldHit(c)
      PROVE  TypeOK'
  <2>1. key[c] \in Keys
    BY <1>3 DEF TypeOK, HoldHit, Holds
  <2>2. cache[key[c]].quality \in {"good", "degraded"} /\ cache[key[c]].at \in Nat
    BY <1>3, <2>1 DEF TypeOK, HoldHit, Fresh, Entry
  <2>3. Return(c, cache[key[c]].quality, cache[key[c]].at) /\ Release(held[c])
    BY <1>3 DEF HoldHit
  <2>4. QED
    BY <1>3, <2>2, <2>3, ReturnType, ReleaseType DEF TypeOK, HoldHit, dicts
<1>4. ASSUME NEW c \in Callers, HoldShare(c)
      PROVE  TypeOK'
  <2>1. key[c] \in Keys
    BY <1>4 DEF TypeOK, HoldShare, Holds
  <2>2. failures[key[c]].at \in Nat
    BY <2>1 DEF TypeOK, Failure
  <2>3. Return(c, "raise", failures[key[c]].at) /\ Release(held[c])
    BY <1>4 DEF HoldShare
  <2>4. QED
    BY <1>4, <2>2, <2>3, ReturnType, ReleaseType DEF TypeOK, HoldShare, dicts
<1>5. ASSUME NEW c \in Callers, HoldCompute(c)
      PROVE  TypeOK'
  BY <1>5 DEF TypeOK, HoldCompute, Holds, dicts
<1>6. ASSUME NEW c \in Callers, NEW quality \in {"good", "degraded"},
             Computed(c, quality)
      PROVE  TypeOK'
  <2> DEFINE e == [quality |-> quality, at |-> now, expires |-> now + Ttl(quality)]
  <2>1. e \in Entry
    BY EntryType
  <2>2. Stored(key[c], e) \in [Keys -> Entry]
    BY <2>1 DEF TypeOK, Stored
  <2>3. NoFailure \in Failure
    BY DEF NoFailure, Failure
  <2>4. [failures EXCEPT ![key[c]] = NoFailure] \in [Keys -> Failure]
    BY <2>3 DEF TypeOK
  <2>5. /\ Evict(Stored(key[c], e))
        /\ TrimFailures([failures EXCEPT ![key[c]] = NoFailure])
        /\ Return(c, quality, now)
        /\ Release(held[c])
        /\ UNCHANGED <<now, arrived>>
    BY <1>6 DEF Computed
  <2>6. /\ cache' \in [Keys -> Entry]
        /\ locks' \in [Keys -> Locks \cup {NoLock}]
    BY <2>2, <2>5, EvictType
  <2>7. failures' \in [Keys -> Failure]
    BY <2>4, <2>5, TrimType
  <2>8. now \in Nat
    BY DEF TypeOK
  <2>9. QED
    BY <2>5, <2>6, <2>7, <2>8, ReturnType, ReleaseType DEF TypeOK
<1>7. ASSUME NEW c \in Callers, Raised(c)
      PROVE  TypeOK'
  <2>1. now \in Nat /\ now + 1 \in Nat
    BY DEF TypeOK
  <2>2. [raised |-> TRUE, at |-> now] \in Failure
    BY <2>1 DEF Failure
  <2>3. Return(c, "raise", now) /\ Release(held[c])
    BY <1>7 DEF Raised
  <2>4. QED
    BY <1>7, <2>1, <2>2, <2>3, ReturnType, ReleaseType DEF TypeOK, Raised
<1>8. ASSUME NEW c \in Callers, Cancelled(c)
      PROVE  TypeOK'
  <2>1. now \in Nat
    BY DEF TypeOK
  <2>2. Return(c, "cancelled", now)
    BY <1>8 DEF Cancelled
  <2>3. CASE owner[held[c]] = c
    BY <1>8, <2>1, <2>2, <2>3, ReturnType, ReleaseType DEF TypeOK, Cancelled, dicts
  <2>4. CASE owner[held[c]] # c
    <3>1. held[c] \in Locks
      BY <1>8 DEF TypeOK, Cancelled
    <3>2. PICK i \in 1..Len(waiters[held[c]]) :
            waiters' = [waiters EXCEPT ![held[c]] = RemoveAt(@, i)]
      BY <1>8, <2>4 DEF Cancelled
    <3>3. waiters[held[c]] \in Seq(Callers)
      BY <3>1 DEF TypeOK
    <3>4. /\ SubSeq(waiters[held[c]], 1, i - 1) \in Seq(Callers)
          /\ SubSeq(waiters[held[c]], i + 1, Len(waiters[held[c]])) \in Seq(Callers)
      BY <3>3, SubSeqProperties
    <3>5. RemoveAt(waiters[held[c]], i) \in Seq(Callers)
      BY <3>4, ConcatProperties DEF RemoveAt
    <3>6. waiters' \in [Locks -> Seq(Callers)]
      BY <3>2, <3>5 DEF TypeOK
    <3>7. QED
      BY <1>8, <2>1, <2>2, <2>4, <3>6, ReturnType DEF TypeOK, Cancelled, dicts
  <2>5. QED
    BY <2>3, <2>4
<1>9. CASE Tick
  BY <1>9 DEF TypeOK, Tick, dicts, callVars
<1>10. CASE Clear
  <2>1. NoEntry \in Entry /\ NoFailure \in Failure
    BY DEF NoEntry, Entry, NoFailure, Failure
  <2>2. QED
    BY <1>10, <2>1 DEF TypeOK, Clear, callVars
<1>11. CASE UNCHANGED vars
  BY <1>11 DEF TypeOK, vars, callVars
<1>12. QED
  BY <1>1, <1>2, <1>3, <1>4, <1>5, <1>6, <1>7, <1>8, <1>9, <1>10, <1>11
     DEF Next, Resume, Finish

\* The wrapper's dictionaries, locks and calls stay well typed, whatever the
\* order in which calls arrive, end, fail and are cancelled.
THEOREM TypeCorrect == Spec => []TypeOK
<1>1. Init => TypeOK
  BY DEF Init, TypeOK, NoEntry, Entry, NoFailure, Failure, NoOutcome, Outcome
<1>2. TypeOK /\ [Next]_vars => TypeOK'
  BY TypeStep
<1>3. QED
  BY <1>1, <1>2, PTL DEF Spec

(***************************************************************************)
(* One computation per key                                                 *)
(***************************************************************************)
\* With no more keys than maxsize nothing is evicted, so no lock in use is
\* dropped from the dictionary.
LEMMA NoEviction ==
  ASSUME CacheAssumption, FitsCache, NEW table, Evict(table)
  PROVE  cache' = table /\ locks' = locks
<1> DEFINE stored == {k \in Keys : table[k].quality # "none"}
<1>1. Cardinality(stored) <= Cardinality(Keys)
  BY FS_Subset DEF CacheAssumption
<1>2. Cardinality(stored) \in Nat /\ Cardinality(Keys) \in Nat
  BY FS_Subset, FS_CardinalityType DEF CacheAssumption
<1>3. ~(Cardinality(stored) > MaxSize)
  BY <1>1, <1>2 DEF FitsCache, CacheAssumption
<1>4. QED
  BY <1>3 DEF Evict

\* A caller that gives its lock up takes it from no other computing caller.
LEMMA ReleaseKeepsOthers ==
  ASSUME TypeOK, ComputingOwns, NEW c \in Callers, owner[held[c]] = c,
         Release(held[c]), NEW d \in Callers \ {c}, pc[d] = "computing"
  PROVE  owner'[held[d]] = d
<1>1. owner[held[d]] = d
  BY DEF ComputingOwns
<1>2. held[d] \in Locks /\ held[d] # held[c]
  BY <1>1 DEF TypeOK
<1>3. QED
  BY <1>1, <1>2 DEF Release, TypeOK

\* The two facts about locks are kept by every step.
LEMMA LockStep ==
  ASSUME FitsCache, LockInv, [Next]_vars
  PROVE  LockInv'
<1> USE CacheAssumption
<1>0. TypeOK /\ TypeOK' /\ OneLockPerKey /\ ComputingOwns
  BY TypeStep DEF LockInv
<1> SUFFICES OneLockPerKey' /\ ComputingOwns'
  BY <1>0 DEF LockInv
<1>1. ASSUME NEW c \in Callers, NEW k \in Keys, Hit(c, k)
      PROVE  OneLockPerKey' /\ ComputingOwns'
  BY <1>0, <1>1 DEF TypeOK, Hit, Return, OneLockPerKey, ComputingOwns, dicts
<1>2. ASSUME NEW c \in Callers, NEW k \in Keys, Miss(c, k)
      PROVE  OneLockPerKey' /\ ComputingOwns'
  <2>1. PICK l \in Locks : /\ SetDefault(k, l)
                           /\ locks' = [locks EXCEPT ![k] = l]
                           /\ held' = [held EXCEPT ![c] = l]
                           /\ Acquire(c, l)
    BY <1>2 DEF Miss
  <2>2. /\ key' = [key EXCEPT ![c] = k]
        /\ pc' = [pc EXCEPT ![c] = "queued"]
    BY <1>2 DEF Miss
  <2>3. ASSUME NEW d \in Callers, pc'[d] # "idle"
        PROVE  held'[d] = locks'[key'[d]]
    <3>1. CASE d = c
      BY <1>0, <2>1, <2>2, <3>1 DEF TypeOK
    <3>2. CASE d # c /\ key[d] # k
      BY <1>0, <2>1, <2>2, <2>3, <3>2 DEF TypeOK, OneLockPerKey
    <3>3. CASE d # c /\ key[d] = k
      <4>1. held[d] = locks[k] /\ held[d] \in Locks
        BY <1>0, <2>2, <2>3, <3>3 DEF TypeOK, OneLockPerKey
      <4>2. l = locks[k]
        BY <2>1, <4>1 DEF SetDefault
      <4>3. QED
        BY <1>0, <2>1, <2>2, <3>3, <4>1, <4>2 DEF TypeOK
    <3>4. QED
      BY <3>1, <3>2, <3>3
  <2>4. ASSUME NEW d \in Callers, pc'[d] = "computing"
        PROVE  owner'[held'[d]] = d
    <3>1. d # c /\ pc[d] = "computing" /\ held'[d] = held[d]
      BY <1>0, <2>1, <2>2, <2>4 DEF TypeOK
    <3>2. owner[held[d]] = d /\ d # NoCaller
      BY <1>0, <3>1 DEF ComputingOwns
    <3>3. QED
      BY <1>0, <2>1, <3>1, <3>2 DEF Acquire, TypeOK
  <2>5. QED
    BY <2>3, <2>4 DEF OneLockPerKey, ComputingOwns
<1>3. ASSUME NEW c \in Callers, pc[c] # "idle", owner[held[c]] = c,
             NEW tag, NEW at, Return(c, tag, at), Release(held[c]),
             UNCHANGED locks
      PROVE  OneLockPerKey' /\ ComputingOwns'
  <2>1. OneLockPerKey'
    BY <1>0, <1>3 DEF OneLockPerKey, TypeOK, Return
  <2>2. ASSUME NEW d \in Callers, pc'[d] = "computing"
        PROVE  owner'[held'[d]] = d
    <3>1. d # c /\ pc[d] = "computing" /\ held'[d] = held[d]
      BY <1>0, <1>3, <2>2 DEF Return, TypeOK
    <3>2. QED
      BY <1>0, <1>3, <3>1, ReleaseKeepsOthers
  <2>3. QED
    BY <2>1, <2>2 DEF ComputingOwns
<1>4. ASSUME NEW c \in Callers, HoldHit(c)
      PROVE  OneLockPerKey' /\ ComputingOwns'
  BY <1>3, <1>4 DEF HoldHit, Holds
<1>5. ASSUME NEW c \in Callers, HoldShare(c)
      PROVE  OneLockPerKey' /\ ComputingOwns'
  BY <1>3, <1>5 DEF HoldShare, Holds
<1>6. ASSUME NEW c \in Callers, HoldCompute(c)
      PROVE  OneLockPerKey' /\ ComputingOwns'
  BY <1>0, <1>6 DEF HoldCompute, Holds, OneLockPerKey, ComputingOwns, TypeOK
<1>7. ASSUME NEW c \in Callers, NEW quality \in {"good", "degraded"},
             Computed(c, quality)
      PROVE  OneLockPerKey' /\ ComputingOwns'
  <2>1. UNCHANGED locks
    BY <1>7, NoEviction DEF Computed
  <2>2. pc[c] # "idle" /\ owner[held[c]] = c
    BY <1>0, <1>7 DEF Computed, ComputingOwns
  <2>3. Return(c, quality, now) /\ Release(held[c])
    BY <1>7 DEF Computed
  <2>4. QED
    BY <1>3, <2>1, <2>2, <2>3
<1>8. ASSUME NEW c \in Callers, Raised(c)
      PROVE  OneLockPerKey' /\ ComputingOwns'
  <2>1. pc[c] # "idle" /\ owner[held[c]] = c
    BY <1>0, <1>8 DEF Raised, ComputingOwns
  <2>2. Return(c, "raise", now) /\ Release(held[c]) /\ UNCHANGED locks
    BY <1>8 DEF Raised
  <2>3. QED
    BY <1>3, <2>1, <2>2
<1>9. ASSUME NEW c \in Callers, Cancelled(c)
      PROVE  OneLockPerKey' /\ ComputingOwns'
  <2>1. pc[c] # "idle" /\ Return(c, "cancelled", now) /\ UNCHANGED locks
    BY <1>9 DEF Cancelled
  <2>2. CASE owner[held[c]] = c
    <3>1. Release(held[c])
      BY <1>9, <2>2 DEF Cancelled
    <3>2. QED
      BY <1>3, <2>1, <2>2, <3>1
  <2>3. CASE owner[held[c]] # c
    <3>1. UNCHANGED owner
      BY <1>9, <2>3 DEF Cancelled
    <3>2. QED
      BY <1>0, <2>1, <3>1 DEF Return, OneLockPerKey, ComputingOwns, TypeOK
  <2>4. QED
    BY <2>2, <2>3
<1>10. CASE Tick
  BY <1>0, <1>10 DEF Tick, callVars, OneLockPerKey, ComputingOwns
<1>11. CASE Clear
  BY <1>0, <1>11 DEF Clear, callVars, OneLockPerKey, ComputingOwns
<1>12. CASE UNCHANGED vars
  BY <1>0, <1>12 DEF vars, callVars, OneLockPerKey, ComputingOwns
<1>13. QED
  BY <1>1, <1>2, <1>4, <1>5, <1>6, <1>7, <1>8, <1>9, <1>10, <1>11, <1>12
     DEF Next, Resume, Finish

\* The invariant rules out two computations of a key.
LEMMA LockInvExcludes ==
  ASSUME LockInv
  PROVE  SingleFlight
<1> SUFFICES ASSUME NEW c \in Callers, NEW d \in Callers, pc[c] = "computing",
                    pc[d] = "computing", key[c] = key[d]
             PROVE  c = d
  BY DEF SingleFlight
<1>1. held[c] = held[d]
  BY DEF LockInv, OneLockPerKey
<1>2. owner[held[c]] = c /\ owner[held[d]] = d
  BY DEF LockInv, ComputingOwns
<1>3. QED
  BY <1>1, <1>2

\* As long as the keys fit, at most one caller runs the wrapped function for a
\* key: an expiry never starts the same smartctl or crictl sweep twice.
THEOREM SingleFlightHolds == FitsCache => (Spec => []SingleFlight)
<1> SUFFICES ASSUME FitsCache
             PROVE  Spec => []SingleFlight
  OBVIOUS
<1>1. Init => LockInv
  BY DEF Init, LockInv, TypeOK, OneLockPerKey, ComputingOwns, NoEntry, Entry,
         NoFailure, Failure, NoOutcome, Outcome
<1>2. LockInv /\ [Next]_vars => LockInv'
  BY LockStep
<1>3. LockInv => SingleFlight
  BY LockInvExcludes
<1>4. QED
  BY <1>1, <1>2, <1>3, PTL DEF Spec

(***************************************************************************)
(* What a call returns                                                     *)
(***************************************************************************)
\* A call that ends with a cached entry or a new result gets one whose ttl has
\* not run out; its outcome is not an exception.
LEMMA FreshOutcome ==
  ASSUME TypeOK, OutcomeInv, NEW k \in Keys, Fresh(k)
  PROVE  /\ cache[k].quality \in {"good", "degraded"}
         /\ cache[k].at \in Nat
         /\ cache[k].quality = "good" => Within(Seconds, cache[k].at, now)
         /\ cache[k].quality = "degraded" => Within(RetryAfter, cache[k].at, now)
<1>1. cache[k] \in Entry /\ now \in Nat
  BY DEF TypeOK
<1>2. /\ cache[k].quality = "good" => cache[k].expires <= cache[k].at + Seconds
      /\ cache[k].quality = "degraded" => cache[k].expires <= cache[k].at + RetryAfter
  BY DEF OutcomeInv, EntriesAge
<1>3. QED
  BY <1>1, <1>2, CacheAssumption DEF Fresh, Entry, CacheAssumption, Within

\* Recording an outcome that is right leaves the recorded outcomes right.
LEMMA ReturnStep ==
  ASSUME TypeOK, OutcomeInv, NEW c \in Callers, NEW tag, NEW at,
         Return(c, tag, at), UNCHANGED arrived,
         tag = "raise" => at >= arrived[c],
         tag = "good" => Within(Seconds, at, now),
         tag = "degraded" => Within(RetryAfter, at, now)
  PROVE  RaisedWhileWaiting' /\ ServedFresh'
<1>1. /\ out'[c] = [tag |-> tag, at |-> at, when |-> now]
      /\ \A d \in Callers \ {c} : out'[d] = out[d]
      /\ \A d \in Callers : arrived'[d] = arrived[d]
  BY DEF Return, TypeOK
<1>2. RaisedWhileWaiting'
  BY <1>1 DEF OutcomeInv, RaisedWhileWaiting
<1>3. ServedFresh'
  BY <1>1 DEF OutcomeInv, ServedFresh
<1>4. QED
  BY <1>2, <1>3

\* Storing a result, and evicting another, leaves every entry within its ttl.
LEMMA StoreStep ==
  ASSUME TypeOK, OutcomeInv, NEW k \in Keys, NEW quality \in {"good", "degraded"},
         Evict(Stored(k, [quality |-> quality, at |-> now,
                          expires |-> now + Ttl(quality)]))
  PROVE  EntriesAge'
<1> DEFINE e == [quality |-> quality, at |-> now, expires |-> now + Ttl(quality)]
<1> DEFINE table == Stored(k, e)
<1>1. /\ e.quality = "good" => e.expires <= e.at + Seconds
      /\ e.quality = "degraded" => e.expires <= e.at + RetryAfter
  BY CacheAssumption DEF TypeOK, Ttl, CacheAssumption
<1>2. table[k] = e /\ \A j \in Keys \ {k} : table[j] = cache[j]
  BY DEF Stored, TypeOK
<1>3. table \in [Keys -> Entry]
  BY EntryType, CacheAssumption DEF Stored, TypeOK
<1>4. \A j \in Keys : cache'[j] = table[j] \/ cache'[j] = NoEntry
  BY <1>3 DEF Evict
<1>5. ASSUME NEW j \in Keys
      PROVE  /\ cache'[j].quality = "good"
                  => cache'[j].expires <= cache'[j].at + Seconds
             /\ cache'[j].quality = "degraded"
                  => cache'[j].expires <= cache'[j].at + RetryAfter
  <2>1. CASE cache'[j] = NoEntry
    BY <2>1 DEF NoEntry
  <2>2. CASE cache'[j] = table[j] /\ j = k
    BY <1>1, <1>2, <2>2
  <2>3. CASE cache'[j] = table[j] /\ j # k
    BY <1>2, <2>3 DEF OutcomeInv, EntriesAge
  <2>4. QED
    BY <1>4, <2>1, <2>2, <2>3
<1>6. QED
  BY <1>5 DEF EntriesAge

\* Every step keeps ages and outcomes right, with or without evictions.
LEMMA OutcomeStep ==
  ASSUME TypeOK, OutcomeInv, [Next]_vars
  PROVE  OutcomeInv'
<1> USE CacheAssumption
<1>1. ASSUME NEW c \in Callers, NEW k \in Keys, Hit(c, k)
      PROVE  OutcomeInv'
  <2>1. Return(c, cache[k].quality, cache[k].at) /\ Fresh(k) /\ UNCHANGED arrived
    BY <1>1 DEF Hit
  <2>2. RaisedWhileWaiting' /\ ServedFresh'
    BY <2>1, FreshOutcome, ReturnStep
  <2>3. QED
    BY <1>1, <2>2 DEF Hit, dicts, OutcomeInv, EntriesAge, ArrivedInThePast
<1>2. ASSUME NEW c \in Callers, NEW k \in Keys, Miss(c, k)
      PROVE  OutcomeInv'
  <2>1. /\ out'[c] = NoOutcome
        /\ \A d \in Callers \ {c} : out'[d] = out[d] /\ arrived'[d] = arrived[d]
        /\ arrived'[c] = now
        /\ UNCHANGED <<now, cache>>
    BY <1>2 DEF Miss, TypeOK, dicts
  <2>2. RaisedWhileWaiting' /\ ServedFresh'
    BY <2>1 DEF OutcomeInv, RaisedWhileWaiting, ServedFresh, NoOutcome
  <2>3. EntriesAge'
    BY <2>1 DEF OutcomeInv, EntriesAge
  <2>4. ArrivedInThePast'
    BY <2>1 DEF OutcomeInv, ArrivedInThePast, TypeOK
  <2>5. QED
    BY <2>2, <2>3, <2>4 DEF OutcomeInv
<1>3. ASSUME NEW c \in Callers, HoldHit(c)
      PROVE  OutcomeInv'
  <2>1. /\ key[c] \in Keys
        /\ Return(c, cache[key[c]].quality, cache[key[c]].at)
        /\ Fresh(key[c])
        /\ UNCHANGED arrived
    BY <1>3 DEF HoldHit, Holds, TypeOK
  <2>2. RaisedWhileWaiting' /\ ServedFresh'
    BY <2>1, FreshOutcome, ReturnStep
  <2>3. QED
    BY <1>3, <2>2 DEF HoldHit, dicts, OutcomeInv, EntriesAge, ArrivedInThePast
<1>4. ASSUME NEW c \in Callers, HoldShare(c)
      PROVE  OutcomeInv'
  <2>1. /\ Return(c, "raise", failures[key[c]].at)
        /\ failures[key[c]].at >= arrived[c]
        /\ UNCHANGED arrived
    BY <1>4 DEF HoldShare, SharesFailure
  <2>2. RaisedWhileWaiting' /\ ServedFresh'
    BY <2>1, ReturnStep
  <2>3. QED
    BY <1>4, <2>2 DEF HoldShare, dicts, OutcomeInv, EntriesAge, ArrivedInThePast
<1>5. ASSUME NEW c \in Callers, HoldCompute(c)
      PROVE  OutcomeInv'
  BY <1>5 DEF HoldCompute, dicts, OutcomeInv, EntriesAge, ArrivedInThePast,
              RaisedWhileWaiting, ServedFresh
<1>6. ASSUME NEW c \in Callers, NEW quality \in {"good", "degraded"},
             Computed(c, quality)
      PROVE  OutcomeInv'
  <2>1. /\ key[c] \in Keys
        /\ Evict(Stored(key[c], [quality |-> quality, at |-> now,
                                 expires |-> now + Ttl(quality)]))
        /\ Return(c, quality, now)
        /\ UNCHANGED <<now, arrived>>
    BY <1>6 DEF Computed, TypeOK
  <2>2. EntriesAge'
    BY <2>1, StoreStep
  <2>3. Within(Seconds, now, now) /\ Within(RetryAfter, now, now)
    BY DEF Within
  <2>4. RaisedWhileWaiting' /\ ServedFresh'
    BY <2>1, <2>3, ReturnStep
  <2>5. QED
    BY <2>1, <2>2, <2>4 DEF OutcomeInv, ArrivedInThePast
<1>7. ASSUME NEW c \in Callers, Raised(c)
      PROVE  OutcomeInv'
  <2>1. Return(c, "raise", now) /\ UNCHANGED <<arrived, cache>> /\ now' = now + 1
    BY <1>7 DEF Raised
  <2>2. now >= arrived[c]
    BY DEF OutcomeInv, ArrivedInThePast, TypeOK
  <2>3. RaisedWhileWaiting' /\ ServedFresh'
    BY <2>1, <2>2, ReturnStep
  <2>4. EntriesAge' /\ ArrivedInThePast'
    BY <2>1 DEF OutcomeInv, EntriesAge, ArrivedInThePast, TypeOK
  <2>5. QED
    BY <2>3, <2>4 DEF OutcomeInv
<1>8. ASSUME NEW c \in Callers, Cancelled(c)
      PROVE  OutcomeInv'
  <2>1. Return(c, "cancelled", now) /\ UNCHANGED <<now, cache, arrived>>
    BY <1>8 DEF Cancelled, dicts
  <2>2. RaisedWhileWaiting' /\ ServedFresh'
    BY <2>1, ReturnStep
  <2>3. QED
    BY <2>1, <2>2 DEF OutcomeInv, EntriesAge, ArrivedInThePast
<1>9. CASE Tick
  <2>1. ArrivedInThePast'
    BY <1>9 DEF Tick, callVars, OutcomeInv, ArrivedInThePast, TypeOK
  <2>2. QED
    BY <1>9, <2>1 DEF Tick, dicts, callVars, OutcomeInv, EntriesAge,
                      RaisedWhileWaiting, ServedFresh
<1>10. CASE Clear
  BY <1>10 DEF Clear, callVars, NoEntry, OutcomeInv, EntriesAge, ArrivedInThePast,
               RaisedWhileWaiting, ServedFresh
<1>11. CASE UNCHANGED vars
  BY <1>11 DEF vars, callVars, OutcomeInv, EntriesAge, ArrivedInThePast,
               RaisedWhileWaiting, ServedFresh
<1>12. QED
  BY <1>1, <1>2, <1>3, <1>4, <1>5, <1>6, <1>7, <1>8, <1>9, <1>10, <1>11
     DEF Next, Resume, Finish

\* Whatever the interleaving, and with evictions too, a call that raises gets
\* an exception raised after it arrived, and a call that returns gets a result
\* within its ttl, retry_after for a degraded one.
THEOREM OutcomesRight == Spec => [](RaisedWhileWaiting /\ ServedFresh)
<1>1. Init => OutcomeInv
  BY DEF Init, OutcomeInv, EntriesAge, ArrivedInThePast, RaisedWhileWaiting,
         ServedFresh, NoEntry, NoOutcome
<1>2. TypeOK /\ OutcomeInv /\ [Next]_vars => OutcomeInv'
  BY OutcomeStep
<1>3. OutcomeInv => RaisedWhileWaiting /\ ServedFresh
  BY DEF OutcomeInv
<1>4. QED
  BY <1>1, <1>2, <1>3, TypeCorrect, PTL DEF Spec

(***************************************************************************)
(* A failure is shared, not repeated                                       *)
(***************************************************************************)
\* Storing a result only ever forgets failures.
LEMMA TrimForgets ==
  ASSUME TypeOK, NEW k, TrimFailures([failures EXCEPT ![k] = NoFailure]),
         NEW j \in Keys
  PROVE  failures'[j] = failures[j] \/ failures'[j] = NoFailure
BY DEF TrimFailures, TypeOK

\* Every step keeps a computing caller younger than its key's last failure.
LEMMA RerunStep ==
  ASSUME LockInv, NoRerunAfterFailure, [Next]_vars
  PROVE  NoRerunAfterFailure'
<1> USE CacheAssumption
<1>0. TypeOK
  BY DEF LockInv
<1> SUFFICES ASSUME NEW d \in Callers, pc'[d] = "computing",
                    failures'[key'[d]].raised
             PROVE  failures'[key'[d]].at < arrived'[d]
  BY DEF NoRerunAfterFailure
<1>1. ASSUME pc[d] = "computing", UNCHANGED <<failures, key[d], arrived[d]>>
      PROVE  failures'[key'[d]].at < arrived'[d]
  BY <1>1 DEF NoRerunAfterFailure
<1>2. ASSUME NEW c \in Callers, NEW k \in Keys, Hit(c, k)
      PROVE  failures'[key'[d]].at < arrived'[d]
  BY <1>0, <1>1, <1>2 DEF Hit, Return, dicts, TypeOK
<1>3. ASSUME NEW c \in Callers, NEW k \in Keys, Miss(c, k)
      PROVE  failures'[key'[d]].at < arrived'[d]
  BY <1>0, <1>1, <1>3 DEF Miss, dicts, TypeOK
<1>4. ASSUME NEW c \in Callers, HoldHit(c)
      PROVE  failures'[key'[d]].at < arrived'[d]
  BY <1>0, <1>1, <1>4 DEF HoldHit, Return, dicts, TypeOK
<1>5. ASSUME NEW c \in Callers, HoldShare(c)
      PROVE  failures'[key'[d]].at < arrived'[d]
  BY <1>0, <1>1, <1>5 DEF HoldShare, Return, dicts, TypeOK
<1>6. ASSUME NEW c \in Callers, HoldCompute(c)
      PROVE  failures'[key'[d]].at < arrived'[d]
  <2>1. CASE d = c
    <3>1. key[c] \in Keys /\ UNCHANGED <<failures, key, arrived>>
      BY <1>0, <1>6 DEF HoldCompute, Holds, dicts, TypeOK
    <3>2. failures[key[c]].at \in Nat /\ arrived[c] \in Nat
      BY <1>0, <3>1 DEF TypeOK, Failure
    <3>3. ~(failures[key[c]].at >= arrived[c])
      BY <1>6, <2>1, <3>1 DEF HoldCompute, SharesFailure
    <3>4. QED
      BY <2>1, <3>1, <3>2, <3>3
  <2>2. CASE d # c
    BY <1>0, <1>1, <1>6, <2>2 DEF HoldCompute, dicts, TypeOK
  <2>3. QED
    BY <2>1, <2>2
<1>7. ASSUME NEW c \in Callers, NEW quality \in {"good", "degraded"},
             Computed(c, quality)
      PROVE  failures'[key'[d]].at < arrived'[d]
  <2>1. pc[d] = "computing" /\ key'[d] = key[d] /\ key[d] \in Keys
        /\ UNCHANGED arrived
    BY <1>0, <1>7 DEF Computed, Return, TypeOK
  <2>2. failures'[key[d]] = failures[key[d]] \/ failures'[key[d]] = NoFailure
    BY <1>0, <1>7, <2>1, TrimForgets DEF Computed
  <2>3. failures'[key[d]] = failures[key[d]]
    BY <2>1, <2>2 DEF NoFailure
  <2>4. QED
    BY <2>1, <2>3 DEF NoRerunAfterFailure
<1>8. ASSUME NEW c \in Callers, Raised(c)
      PROVE  failures'[key'[d]].at < arrived'[d]
  <2>1. /\ d # c /\ pc[d] = "computing" /\ pc[c] = "computing"
        /\ key'[d] = key[d] /\ UNCHANGED arrived
    BY <1>0, <1>8 DEF Raised, Return, TypeOK
  <2>2. key[d] # key[c]
    BY <2>1, LockInvExcludes DEF SingleFlight
  <2>3. failures'[key[d]] = failures[key[d]]
    BY <1>0, <1>8, <2>1, <2>2 DEF Raised, TypeOK
  <2>4. QED
    BY <2>1, <2>3 DEF NoRerunAfterFailure
<1>9. ASSUME NEW c \in Callers, Cancelled(c)
      PROVE  failures'[key'[d]].at < arrived'[d]
  BY <1>0, <1>1, <1>9 DEF Cancelled, Return, dicts, TypeOK
<1>10. CASE Tick
  BY <1>1, <1>10 DEF Tick, dicts, callVars
<1>11. CASE Clear
  BY <1>11 DEF Clear, callVars
<1>12. CASE UNCHANGED vars
  BY <1>1, <1>12 DEF vars, callVars
<1>13. QED
  BY <1>2, <1>3, <1>4, <1>5, <1>6, <1>7, <1>8, <1>9, <1>10, <1>11, <1>12
     DEF Next, Resume, Finish

\* As long as the keys fit, no caller that was queued while a computation
\* raised runs the work again.
THEOREM FailureShared == FitsCache => (Spec => []NoRerunAfterFailure)
<1> SUFFICES ASSUME FitsCache
             PROVE  Spec => []NoRerunAfterFailure
  OBVIOUS
<1>1. Init => LockInv /\ NoRerunAfterFailure
  BY DEF Init, LockInv, TypeOK, OneLockPerKey, ComputingOwns, NoEntry, Entry,
         NoFailure, Failure, NoOutcome, Outcome, NoRerunAfterFailure
<1>2. LockInv /\ [Next]_vars => LockInv'
  BY LockStep
<1>3. LockInv /\ NoRerunAfterFailure /\ [Next]_vars => NoRerunAfterFailure'
  BY RerunStep
<1>4. QED
  BY <1>1, <1>2, <1>3, PTL DEF Spec

(***************************************************************************)
(* The wrapper implements its promise                                      *)
(***************************************************************************)
\* A step in which nobody starts or stops computing leaves the abstract
\* computations alone.
LEMMA SameComputing ==
  ASSUME \A d \in Callers : (pc'[d] = "computing" <=> pc[d] = "computing"),
         \A d \in Callers : pc[d] = "computing" => key'[d] = key[d]
  PROVE  [k \in Keys |-> Computing(k)]' = [k \in Keys |-> Computing(k)]
<1>1. \A k \in Keys : Computing(k)' = Computing(k)
  BY DEF Computing
<1>2. QED
  BY <1>1

\* The caller that computes is the key's only one.
LEMMA Alone ==
  ASSUME LockInv, NEW c \in Callers, pc[c] = "computing"
  PROVE  Computing(key[c]) = {c}
BY LockInvExcludes DEF Computing, SingleFlight

\* When a computing caller leaves, its key has no computation.
LEMMA Leaves ==
  ASSUME LockInv, NEW c \in Callers, pc[c] = "computing", NEW tag, NEW at,
         Return(c, tag, at)
  PROVE  /\ key[c] \in Keys
         /\ [k \in Keys |-> Computing(k)]' =
              [[k \in Keys |-> Computing(k)] EXCEPT ![key[c]] = {}]
<1>1. key[c] \in Keys
  BY DEF LockInv, TypeOK
<1>2. \A d \in Callers \ {c} : pc'[d] = pc[d] /\ key'[d] = key[d]
  BY DEF Return, LockInv, TypeOK
<1>3. pc'[c] = "idle"
  BY DEF Return, LockInv, TypeOK
<1>4. \A k \in Keys : k = key[c] => Computing(k)' = {}
  BY <1>2, <1>3, LockInvExcludes DEF Computing, SingleFlight
<1>5. \A k \in Keys \ {key[c]} : Computing(k)' = Computing(k)
  BY <1>2, <1>3 DEF Computing
<1>6. QED
  BY <1>1, <1>4, <1>5

\* Every step of the wrapper is a step of the promise, or none.
LEMMA PromiseStep ==
  ASSUME FitsCache, LockInv, [Next]_vars
  PROVE  [Promise!Next]_(Promise!vars)
<1> USE CacheAssumption
<1> DEFINE running == [k \in Keys |-> Computing(k)]
<1>0. TypeOK
  BY DEF LockInv
<1>1. ASSUME running' = running, UNCHANGED <<now, cache>>
      PROVE  [Promise!Next]_(Promise!vars)
  BY <1>1 DEF Promise!vars
<1>2. ASSUME NEW c \in Callers, pc[c] # "computing", NEW tag, NEW at,
             Return(c, tag, at)
      PROVE  running' = running
  BY <1>0, <1>2, SameComputing DEF Return, TypeOK
<1>3. ASSUME NEW c \in Callers, NEW k \in Keys, Hit(c, k)
      PROVE  [Promise!Next]_(Promise!vars)
  BY <1>1, <1>2, <1>3 DEF Hit, dicts
<1>4. ASSUME NEW c \in Callers, NEW k \in Keys, Miss(c, k)
      PROVE  [Promise!Next]_(Promise!vars)
  <2>1. running' = running
    BY <1>0, <1>4, SameComputing DEF Miss, TypeOK
  <2>2. QED
    BY <1>1, <1>4, <2>1 DEF Miss, dicts
<1>5. ASSUME NEW c \in Callers, HoldHit(c)
      PROVE  [Promise!Next]_(Promise!vars)
  BY <1>1, <1>2, <1>5 DEF HoldHit, Holds, dicts
<1>6. ASSUME NEW c \in Callers, HoldShare(c)
      PROVE  [Promise!Next]_(Promise!vars)
  BY <1>1, <1>2, <1>6 DEF HoldShare, Holds, dicts
<1>7. ASSUME NEW c \in Callers, HoldCompute(c)
      PROVE  [Promise!Next]_(Promise!vars)
  <2>1. /\ key[c] \in Keys /\ pc[c] = "queued" /\ owner[held[c]] = c
        /\ ~Fresh(key[c]) /\ UNCHANGED <<now, cache, key>>
        /\ pc' = [pc EXCEPT ![c] = "computing"]
    BY <1>0, <1>7 DEF HoldCompute, Holds, dicts, TypeOK
  <2>2. ASSUME NEW d \in Callers, pc[d] = "computing", key[d] = key[c]
        PROVE  FALSE
    BY <2>1, <2>2 DEF LockInv, OneLockPerKey, ComputingOwns
  <2>3. Computing(key[c]) = {}
    BY <2>2 DEF Computing
  <2>4. Computing(key[c])' = {c}
    BY <1>0, <2>1, <2>2 DEF Computing, TypeOK
  <2>5. \A k \in Keys \ {key[c]} : Computing(k)' = Computing(k)
    BY <1>0, <2>1 DEF Computing, TypeOK
  <2>6. running' = [running EXCEPT ![key[c]] = {c}]
    BY <2>1, <2>4, <2>5
  <2>7. running[key[c]] = {}
    BY <2>1, <2>3
  <2>8. Promise!Begin(c, key[c])
    BY <2>1, <2>6, <2>7 DEF Promise!Begin, Promise!IsFresh, Fresh
  <2>9. QED
    BY <2>1, <2>8 DEF Promise!Next
<1>8. ASSUME NEW c \in Callers, NEW quality \in {"good", "degraded"},
             Computed(c, quality)
      PROVE  [Promise!Next]_(Promise!vars)
  <2> DEFINE e == [quality |-> quality, at |-> now, expires |-> now + Ttl(quality)]
  <2>1. pc[c] = "computing" /\ Return(c, quality, now) /\ UNCHANGED now
    BY <1>8 DEF Computed
  <2>2. Evict(Stored(key[c], e))
    BY <1>8 DEF Computed
  <2>3. cache' = [cache EXCEPT ![key[c]] = e]
    BY <2>2, NoEviction DEF Stored
  <2>4. key[c] \in Keys /\ running' = [running EXCEPT ![key[c]] = {}]
    BY <2>1, Leaves
  <2>5. running[key[c]] = {c}
    BY <2>1, <2>4, Alone
  <2>6. /\ Ttl(quality) \in {Seconds, RetryAfter}
        /\ Ttl(quality) <= Seconds
        /\ quality = "degraded" => Ttl(quality) <= RetryAfter
    BY DEF Ttl, CacheAssumption
  <2>7. Promise!Publish(c, key[c], quality)
    BY <2>1, <2>3, <2>4, <2>5, <2>6 DEF Promise!Publish
  <2>8. QED
    BY <2>4, <2>7 DEF Promise!Next
<1>9. ASSUME NEW c \in Callers, pc[c] = "computing", NEW tag, NEW at,
             Return(c, tag, at), now' \in {now, now + 1}, UNCHANGED cache
      PROVE  [Promise!Next]_(Promise!vars)
  <2>1. key[c] \in Keys /\ running' = [running EXCEPT ![key[c]] = {}]
    BY <1>9, Leaves
  <2>2. running[key[c]] = {c}
    BY <1>9, <2>1, Alone
  <2>3. Promise!GiveUp(c, key[c])
    BY <1>9, <2>1, <2>2 DEF Promise!GiveUp
  <2>4. QED
    BY <2>1, <2>3 DEF Promise!Next
<1>10. ASSUME NEW c \in Callers, Raised(c)
       PROVE  [Promise!Next]_(Promise!vars)
  BY <1>9, <1>10 DEF Raised
<1>11. ASSUME NEW c \in Callers, Cancelled(c)
       PROVE  [Promise!Next]_(Promise!vars)
  <2>1. Return(c, "cancelled", now) /\ UNCHANGED <<now, cache>>
    BY <1>11 DEF Cancelled, dicts
  <2>2. CASE pc[c] = "computing"
    BY <1>9, <2>1, <2>2
  <2>3. CASE pc[c] # "computing"
    BY <1>1, <1>2, <2>1, <2>3
  <2>4. QED
    BY <2>2, <2>3
<1>12. CASE Tick
  <2>1. running' = running
    BY <1>12, SameComputing DEF Tick, callVars
  <2>2. Promise!Tick
    BY <1>12, <2>1 DEF Tick, dicts, Promise!Tick
  <2>3. QED
    BY <2>2 DEF Promise!Next
<1>13. CASE Clear
  <2>1. running' = running
    BY <1>13, SameComputing DEF Clear, callVars
  <2>2. \A k \in Keys : running[k] = {}
    BY <1>13 DEF Clear, Computing
  <2>3. Promise!Forget
    BY <1>13, <2>1, <2>2 DEF Clear, NoEntry, Promise!Forget, Promise!Nothing
  <2>4. QED
    BY <2>3 DEF Promise!Next
<1>14. CASE UNCHANGED vars
  <2>1. running' = running
    BY <1>14, SameComputing DEF vars, callVars
  <2>2. QED
    BY <1>1, <1>14, <2>1 DEF vars
<1>15. QED
  BY <1>3, <1>4, <1>5, <1>6, <1>7, <1>8, <1>10, <1>11, <1>12, <1>13, <1>14
     DEF Next, Resume, Finish

\* As long as the keys fit, the wrapper with its locks, queues and failure
\* records does what SharedWork promises.
THEOREM PromiseKept == FitsCache => (Spec => ImplementsPromise)
<1> SUFFICES ASSUME FitsCache
             PROVE  Spec => Promise!Spec
  BY DEF ImplementsPromise
<1>1. Init => LockInv
  BY DEF Init, LockInv, TypeOK, OneLockPerKey, ComputingOwns, NoEntry, Entry,
         NoFailure, Failure, NoOutcome, Outcome
<1>2. Init => Promise!Init
  BY DEF Init, Promise!Init, Promise!Nothing, NoEntry, Computing
<1>3. LockInv /\ [Next]_vars => LockInv'
  BY LockStep
<1>4. LockInv /\ [Next]_vars => [Promise!Next]_(Promise!vars)
  BY PromiseStep
<1>5. QED
  BY <1>1, <1>2, <1>3, <1>4, PTL DEF Spec, Promise!Spec
=============================================================================
