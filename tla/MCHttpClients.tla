--------------------------- MODULE MCHttpClients ---------------------------
(* Model-checking instances of HttpClients.                                  *)
EXTENDS HttpClients, TLC

Symmetry == Permutations(Requests)
=============================================================================
