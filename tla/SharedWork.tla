----------------------------- MODULE SharedWork -----------------------------
(***************************************************************************)
(* What ttl_cache promises its users, without locks, queues or failure     *)
(* records: for each key there is at most one computation at a time, it    *)
(* starts only when there is no fresh entry, and only the caller that runs *)
(* it publishes an entry, with the ttl its quality earns.                  *)
(***************************************************************************)
EXTENDS Naturals

CONSTANTS Keys, Callers, Seconds, RetryAfter

VARIABLES
  now,      (* the clock                                                     *)
  entry,    (* key -> the published result                                   *)
  running   (* key -> the callers computing it                               *)

vars == <<now, entry, running>>

Nothing == [quality |-> "none", at |-> 0, expires |-> 0]

IsFresh(k) == entry[k].quality # "none" /\ now < entry[k].expires

Init ==
  /\ now = 0
  /\ entry = [k \in Keys |-> Nothing]
  /\ running = [k \in Keys |-> {}]

\* A caller starts the work: nobody else does it, nobody has it fresh.
Begin(c, k) ==
  /\ running[k] = {}
  /\ ~IsFresh(k)
  /\ running' = [running EXCEPT ![k] = {c}]
  /\ UNCHANGED <<now, entry>>

\* It publishes the result.
Publish(c, k, quality) ==
  /\ running[k] = {c}
  /\ running' = [running EXCEPT ![k] = {}]
  /\ \E ttl \in {Seconds, RetryAfter} :
       /\ ttl <= Seconds
       /\ quality = "degraded" => ttl <= RetryAfter
       /\ entry' = [entry EXCEPT ![k] = [quality |-> quality, at |-> now,
                                          expires |-> now + ttl]]
  /\ UNCHANGED now

\* It raises or is cancelled: what was published stays as it was.
GiveUp(c, k) ==
  /\ running[k] = {c}
  /\ running' = [running EXCEPT ![k] = {}]
  /\ now' \in {now, now + 1}
  /\ UNCHANGED entry

Tick == now' = now + 1 /\ UNCHANGED <<entry, running>>

\* Everything is forgotten, while no work is going on.
Forget ==
  /\ \A k \in Keys : running[k] = {}
  /\ entry' = [k \in Keys |-> Nothing]
  /\ UNCHANGED <<now, running>>

Next ==
  \/ \E c \in Callers, k \in Keys :
       \/ Begin(c, k)
       \/ \E quality \in {"good", "degraded"} : Publish(c, k, quality)
       \/ GiveUp(c, k)
  \/ Tick
  \/ Forget

Spec == Init /\ [][Next]_vars
=============================================================================
