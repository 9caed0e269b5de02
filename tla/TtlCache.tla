------------------------------ MODULE TtlCache ------------------------------
(***************************************************************************)
(* The ttl_cache decorator of app/collectors/base.py: every collector of   *)
(* the dashboard is wrapped by it.  Callers are the coroutines that call   *)
(* the wrapper; each runs on the one event loop and gives way only where   *)
(* the code awaits, on the lock and on the wrapped function.               *)
(***************************************************************************)
EXTENDS Naturals, FiniteSets, Sequences, SequencesExt

CONSTANTS
  Keys,       (* argument tuples of the wrapped function                    *)
  Callers,    (* concurrent calls of the wrapper                            *)
  Locks,      (* identities of asyncio.Lock objects                         *)
  Seconds,    (* ttl of a good result                                       *)
  RetryAfter, (* ttl of a result cache_if calls degraded, when shorter      *)
  MaxSize,    (* entries kept before the oldest is evicted                  *)
  MaxTime,    (* model bound: the last clock reading                        *)
  NoKey,      (* the key of a caller that is not in a call                  *)
  NoLock,     (* locks.get(key) when the key has no lock                    *)
  NoCaller    (* a lock that nobody owns                                    *)

ASSUME CacheAssumption ==
  /\ IsFiniteSet(Keys)
  /\ Seconds \in Nat
  /\ RetryAfter \in Nat
  /\ MaxSize \in Nat
  /\ MaxTime \in Nat
  /\ NoKey \notin Keys
  /\ NoLock \notin Locks
  /\ NoCaller \notin Callers

VARIABLES
  now,       (* time.monotonic()                                            *)
  cache,     (* key -> entry: did cache_if accept it, when it was computed, *)
             (* when it expires                                             *)
  locks,     (* key -> its lock object                                      *)
  failures,  (* key -> when its last computation raised                     *)
  owner,     (* lock -> the caller that holds it, or is woken to take it    *)
  waiters,   (* lock -> callers queued on it, first come first              *)
  pc,        (* caller -> where the wrapper is suspended                    *)
  key,       (* caller -> the key it asks for                               *)
  arrived,   (* caller -> when it missed                                    *)
  held,      (* caller -> the lock object it queued on                      *)
  out        (* caller -> what its last call ended with                     *)

dicts == <<cache, failures>>
callVars == <<pc, key, arrived, held, out>>
vars == <<now, cache, locks, failures, owner, waiters, callVars>>

NoEntry == [quality |-> "none", at |-> 0, expires |-> 0]
NoFailure == [raised |-> FALSE, at |-> 0]
NoOutcome == [tag |-> "none", at |-> 0, when |-> 0]

Entry == [quality : {"none", "good", "degraded"}, at : Nat, expires : Nat]
Failure == [raised : BOOLEAN, at : Nat]
Outcome == [tag : {"none", "good", "degraded", "raise", "cancelled"},
            at : Nat, when : Nat]

TypeOK ==
  /\ now \in Nat
  /\ cache \in [Keys -> Entry]
  /\ locks \in [Keys -> Locks \cup {NoLock}]
  /\ failures \in [Keys -> Failure]
  /\ owner \in [Locks -> Callers \cup {NoCaller}]
  /\ waiters \in [Locks -> Seq(Callers)]
  /\ pc \in [Callers -> {"idle", "queued", "computing"}]
  /\ key \in [Callers -> Keys \cup {NoKey}]
  /\ arrived \in [Callers -> Nat]
  /\ held \in [Callers -> Locks \cup {NoLock}]
  /\ out \in [Callers -> Outcome]
  /\ \A c \in Callers : pc[c] # "idle" => key[c] \in Keys /\ held[c] \in Locks

Init ==
  /\ now = 0
  /\ cache = [k \in Keys |-> NoEntry]
  /\ locks = [k \in Keys |-> NoLock]
  /\ failures = [k \in Keys |-> NoFailure]
  /\ owner = [l \in Locks |-> NoCaller]
  /\ waiters = [l \in Locks |-> <<>>]
  /\ pc = [c \in Callers |-> "idle"]
  /\ key = [c \in Callers |-> NoKey]
  /\ held = [c \in Callers |-> NoLock]
  /\ arrived = [c \in Callers |-> 0]
  /\ out = [c \in Callers |-> NoOutcome]

-----------------------------------------------------------------------------
(* asyncio.Lock: release wakes the first waiter, and no newcomer overtakes  *)
(* a woken one, so the release is modelled as handing the lock over.        *)

Release(l) ==
  IF waiters[l] = <<>>
    THEN /\ owner' = [owner EXCEPT ![l] = NoCaller]
         /\ UNCHANGED waiters
    ELSE /\ owner' = [owner EXCEPT ![l] = Head(waiters[l])]
         /\ waiters' = [waiters EXCEPT ![l] = Tail(@)]

Acquire(c, l) ==
  IF owner[l] = NoCaller
    THEN /\ owner' = [owner EXCEPT ![l] = c]
         /\ UNCHANGED waiters
    ELSE /\ waiters' = [waiters EXCEPT ![l] = Append(@, c)]
         /\ UNCHANGED owner

\* A lock object no dict entry and no suspended call refers to.
Unused(l) ==
  /\ \A k \in Keys : locks[k] # l
  /\ \A c \in Callers : held[c] # l

\* Mutant: locks[key] = asyncio.Lock() instead of setdefault.
SetDefaultAlwaysNew(k, l) == Unused(l)

\* locks.setdefault(key, asyncio.Lock())
SetDefault(k, l) == IF locks[k] = NoLock THEN Unused(l) ELSE l = locks[k]

-----------------------------------------------------------------------------
\* Mutant: the expiry is not looked at.
FreshForever(k) == cache[k].quality # "none"

Fresh(k) == cache[k].quality # "none" /\ now < cache[k].expires

\* Mutants: nothing is shared; any recorded failure is.
SharesNothing(c) == FALSE
SharesOldFailure(c) == failures[key[c]].raised

\* The failure a caller queued behind the failing computation shares.
SharesFailure(c) ==
  failures[key[c]].raised /\ failures[key[c]].at >= arrived[c]

\* The ttl a result is kept for.
Ttl(quality) ==
  IF quality = "degraded" /\ RetryAfter < Seconds THEN RetryAfter ELSE Seconds

Return(c, tag, at) ==
  /\ pc' = [pc EXCEPT ![c] = "idle"]
  /\ key' = [key EXCEPT ![c] = NoKey]
  /\ held' = [held EXCEPT ![c] = NoLock]
  /\ out' = [out EXCEPT ![c] = [tag |-> tag, at |-> at, when |-> now]]

\* A call that finds a fresh entry returns it without suspending.
Hit(c, k) ==
  /\ pc[c] = "idle"
  /\ Fresh(k)
  /\ Return(c, cache[k].quality, cache[k].at)
  /\ UNCHANGED <<now, dicts, locks, owner, waiters, arrived>>

\* A call that misses notes the time and queues on the key's lock.
Miss(c, k) ==
  /\ pc[c] = "idle"
  /\ ~Fresh(k)
  /\ \E l \in Locks :
       /\ SetDefault(k, l)
       /\ locks' = [locks EXCEPT ![k] = l]
       /\ held' = [held EXCEPT ![c] = l]
       /\ Acquire(c, l)
  /\ arrived' = [arrived EXCEPT ![c] = now]
  /\ key' = [key EXCEPT ![c] = k]
  /\ pc' = [pc EXCEPT ![c] = "queued"]
  /\ out' = [out EXCEPT ![c] = NoOutcome]
  /\ UNCHANGED <<now, dicts>>

Holds(c) == pc[c] = "queued" /\ owner[held[c]] = c

\* Another caller populated the entry while this one queued.
HoldHit(c) ==
  /\ Holds(c)
  /\ Fresh(key[c])
  /\ Return(c, cache[key[c]].quality, cache[key[c]].at)
  /\ Release(held[c])
  /\ UNCHANGED <<now, dicts, locks, arrived>>

\* Another caller's computation raised while this one queued.
HoldShare(c) ==
  /\ Holds(c)
  /\ ~Fresh(key[c])
  /\ SharesFailure(c)
  /\ Return(c, "raise", failures[key[c]].at)
  /\ Release(held[c])
  /\ UNCHANGED <<now, dicts, locks, arrived>>

\* Mutant: no second look at the cache once the lock is held.
HoldComputeUnchecked(c) ==
  /\ Holds(c)
  /\ pc' = [pc EXCEPT ![c] = "computing"]
  /\ UNCHANGED <<now, dicts, locks, owner, waiters, key, arrived, held, out>>

\* Nobody did: this caller awaits the wrapped function, holding the lock.
HoldCompute(c) ==
  /\ Holds(c)
  /\ ~Fresh(key[c])
  /\ ~SharesFailure(c)
  /\ pc' = [pc EXCEPT ![c] = "computing"]
  /\ UNCHANGED <<now, dicts, locks, owner, waiters, key, arrived, held, out>>

-----------------------------------------------------------------------------
\* The entries after key k got entry e, and those min() may pick to evict.
Stored(k, e) == [cache EXCEPT ![k] = e]
Oldest(table) ==
  {k \in Keys : /\ table[k].quality # "none"
                /\ \A j \in Keys : table[j].quality # "none"
                                     => table[k].expires <= table[j].expires}

\* len(cache) > maxsize after the insertion: drop the entry that expires first,
\* and its lock.
Evict(table) ==
  IF Cardinality({k \in Keys : table[k].quality # "none"}) > MaxSize
    THEN \E oldest \in Oldest(table) :
           /\ cache' = [table EXCEPT ![oldest] = NoEntry]
           /\ locks' = [locks EXCEPT ![oldest] = NoLock]
    ELSE cache' = table /\ UNCHANGED locks

\* len(failures) > maxsize: forget the oldest failure.
TrimFailures(table) ==
  LET failing == {k \in Keys : table[k].raised}
  IN  IF Cardinality(failing) > MaxSize
        THEN \E oldest \in {k \in failing :
                              \A j \in failing : table[k].at <= table[j].at} :
               failures' = [table EXCEPT ![oldest] = NoFailure]
        ELSE failures' = table

\* The function returned: store, trim, release, return the result.
Computed(c, quality) ==
  LET k == key[c]
      e == [quality |-> quality, at |-> now, expires |-> now + Ttl(quality)]
  IN  /\ pc[c] = "computing"
      /\ Evict(Stored(k, e))
      /\ TrimFailures([failures EXCEPT ![k] = NoFailure])
      /\ Return(c, quality, now)
      /\ Release(held[c])
      /\ UNCHANGED <<now, arrived>>

\* Mutant: lock.acquire() without release on the way out of an exception.
RaisedHoldingLock(c) ==
  /\ pc[c] = "computing"
  /\ now < MaxTime
  /\ failures' = [failures EXCEPT ![key[c]] = [raised |-> TRUE, at |-> now]]
  /\ Return(c, "raise", now)
  /\ now' = now + 1
  /\ UNCHANGED <<cache, locks, owner, waiters, arrived>>

\* The function raised: note it for the callers queued behind, release, raise.
\* The clock reads nanoseconds: whoever arrives after the failure reads a later
\* time, so the clock moves on.
Raised(c) ==
  /\ pc[c] = "computing"
  /\ now < MaxTime
  /\ failures' = [failures EXCEPT ![key[c]] = [raised |-> TRUE, at |-> now]]
  /\ Return(c, "raise", now)
  /\ Release(held[c])
  /\ now' = now + 1
  /\ UNCHANGED <<cache, locks, arrived>>

\* CancelledError (a client gone, a shutdown) is not an Exception: nothing is
\* noted.  In the queue it gives up its place; with the lock it releases it.
Cancelled(c) ==
  /\ pc[c] # "idle"
  /\ Return(c, "cancelled", now)
  /\ IF owner[held[c]] = c
       THEN Release(held[c])
       ELSE /\ \E i \in 1..Len(waiters[held[c]]) :
                 /\ waiters[held[c]][i] = c
                 /\ waiters' = [waiters EXCEPT ![held[c]] = RemoveAt(@, i)]
            /\ UNCHANGED owner
  /\ UNCHANGED <<now, dicts, locks, arrived>>

Tick ==
  /\ now < MaxTime
  /\ now' = now + 1
  /\ UNCHANGED <<dicts, locks, owner, waiters, callVars>>

\* cache_clear(), which only the tests' fixture calls, between two tests.
Clear ==
  /\ \A c \in Callers : pc[c] = "idle"
  /\ cache' = [k \in Keys |-> NoEntry]
  /\ locks' = [k \in Keys |-> NoLock]
  /\ failures' = [k \in Keys |-> NoFailure]
  /\ UNCHANGED <<now, owner, waiters, callVars>>

Resume(c) == HoldHit(c) \/ HoldShare(c) \/ HoldCompute(c)
Finish(c) == Computed(c, "good") \/ Computed(c, "degraded") \/ Raised(c)

Next ==
  \/ \E c \in Callers, k \in Keys : Hit(c, k) \/ Miss(c, k)
  \/ \E c \in Callers : Resume(c) \/ Finish(c) \/ Cancelled(c)
  \/ Tick
  \/ Clear

Spec == Init /\ [][Next]_vars

\* The event loop resumes a woken caller, and a collector ends: its commands
\* and requests have timeouts.
Fairness == \A c \in Callers : WF_vars(Resume(c)) /\ WF_vars(Finish(c))
FairSpec == Spec /\ Fairness

-----------------------------------------------------------------------------
\* Every collector is called without arguments, so its one key fits.
FitsCache == Cardinality(Keys) <= MaxSize

\* "Entries are computed under a per-key lock": at most one caller is inside
\* the wrapped function for a key, so an expiry starts one sweep, not one per
\* waiting section.  Holds as long as eviction cannot drop a lock in use.
SingleFlight ==
  \A c, d \in Callers :
    pc[c] = "computing" /\ pc[d] = "computing" /\ key[c] = key[d] => c = d

\* "callers that were already queued behind the failing computation get its
\* exception rather than each re-running the work": whoever is computing
\* arrived after the last failure of its key.
NoRerunAfterFailure ==
  \A c \in Callers : pc[c] = "computing" /\ failures[key[c]].raised
                       => failures[key[c]].at < arrived[c]

\* "Exceptions are not cached": a call that raises gets the exception of a
\* computation that failed after the call arrived, its own or one it waited for.
RaisedWhileWaiting ==
  \A c \in Callers : out[c].tag = "raise" => out[c].at >= arrived[c]

\* No call returns a result as old as its ttl, however long it queued: a
\* degraded one is gone retry_after seconds after it was computed.  Only a
\* result of this very moment is exempt, for ttls of zero.
Within(ttl, at, when) == when = at \/ when < at + ttl

ServedFresh ==
  \A c \in Callers :
    /\ out[c].tag = "good" => Within(Seconds, out[c].at, out[c].when)
    /\ out[c].tag = "degraded" => Within(RetryAfter, out[c].at, out[c].when)

\* What the wrapper promises, stated without its locks and queues.
Computing(k) == {c \in Callers : pc[c] = "computing" /\ key[c] = k}
Promise == INSTANCE SharedWork
             WITH entry <- cache, running <- [k \in Keys |-> Computing(k)]

\* The wrapper implements that promise as deployed: an expiry starts one
\* computation, a caller that waited for it does not start another while its
\* result is fresh, and only the caller that computed publishes.
ImplementsPromise == Promise!Spec

\* Every call ends: the lock is never left behind by a caller that returned,
\* raised, was cancelled in the queue or cancelled while it computed.
EveryCallEnds == \A c \in Callers : pc[c] # "idle" ~> pc[c] = "idle"

-----------------------------------------------------------------------------
(* The parts of the inductive invariant behind those properties.            *)

\* All calls of a key in flight wait on, or hold, the one lock the dictionary
\* has for it.
OneLockPerKey ==
  \A c \in Callers : pc[c] # "idle" => held[c] = locks[key[c]]

\* Whoever computes owns the lock it queued on.
ComputingOwns ==
  \A c \in Callers : pc[c] = "computing" => owner[held[c]] = c

\* An entry expires within the ttl its quality earns.
EntriesAge ==
  \A k \in Keys :
    /\ cache[k].quality = "good" => cache[k].expires <= cache[k].at + Seconds
    /\ cache[k].quality = "degraded" => cache[k].expires <= cache[k].at + RetryAfter

ArrivedInThePast == \A c \in Callers : arrived[c] <= now

LockInv == TypeOK /\ OneLockPerKey /\ ComputingOwns

OutcomeInv ==
  EntriesAge /\ ArrivedInThePast /\ RaisedWhileWaiting /\ ServedFresh
=============================================================================
