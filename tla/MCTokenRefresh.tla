--------------------------- MODULE MCTokenRefresh ---------------------------
(* Callers are interchangeable: TLC may identify states that swap them.     *)
EXTENDS TokenRefresh, TLC

Symmetry == Permutations(Callers)
=============================================================================
