---------------------------- MODULE MCSessionPool ----------------------------
(* Small pools for TLC: the constants of SessionPool the cfg files substitute. *)
EXTENDS SessionPool, TLC

CONSTANTS a1, a2, a3

PoolOfTwo == <<a1, a2>>
PoolOfThree == <<a1, a2, a3>>

Symmetry == Permutations(Requests) \cup Permutations(Conversations)
=============================================================================
