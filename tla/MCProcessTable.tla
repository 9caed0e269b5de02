--------------------------- MODULE MCProcessTable ---------------------------
(* Model-checking instances of ProcessTable.                                 *)
EXTENDS ProcessTable

Symmetry == Permutations(Threads)
=============================================================================
