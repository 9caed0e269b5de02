------------------------- MODULE MCWarningCounters -------------------------
(* Model-checking instances of WarningCounters.                              *)
EXTENDS WarningCounters, TLC

Symmetry == Permutations(Requests)

\* What the future of a state depends on: of a sample the counters this node has,
\* of the cache what has not expired, of a counter's history what its row rests on.
Kept(sample) ==
  IF fitted \cap sample.names = {} THEN <<sample.state, sample.names>> ELSE sample

View ==
  LET followed == {n \in fitted : table[n].known}
  IN  <<fitted, now, hw, up, [n \in fitted |-> rose[n]],
        [k \in Collectors |-> IF Fresh(k) THEN <<Kept(entry[k]), entry[k].at>> ELSE <<>>],
        locks, [q \in Requests |-> [k \in Collectors |-> Kept(got[q][k])]], ready,
        [n \in followed |-> <<table[n], seen[n], n \in blind>>],
        [n \in fitted |-> <<since[n], gone[n]>>]>>

\* Bound: a caller from another router asks only for the collector of this node's
\* counters, and only when nobody else does.
FewPolls ==
  \A k \in Collectors : \A i \in DOMAIN waiting[k] :
    waiting[k][i] \in Sections => i = 1 /\ \E n \in fitted : Source(n) = k
=============================================================================
