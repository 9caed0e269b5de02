----------------------------- MODULE MCTtlCache -----------------------------
(* Model-checking instances of TtlCache.                                     *)
EXTENDS TtlCache, TLC

\* Callers and lock objects are interchangeable; keys are too.
Symmetry == Permutations(Callers) \cup Permutations(Locks) \cup Permutations(Keys)
=============================================================================
