--------------------------- MODULE MCTokenService ---------------------------
(* TokenService for TLC: which cache belongs to which service.               *)
EXTENDS TokenService, TLC

OwnCaches == [s \in Services |-> s]
OneList == {<<"score">>}

Symmetry == Permutations(Threads)
=============================================================================
