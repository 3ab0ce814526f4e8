------------------------------ MODULE MCRuntime ------------------------------
(* Instances of Runtime for TLC: the addresses except the entry are alike. *)
EXTENDS Runtime, TLC

CONSTANTS a1, a2, a3

Symmetry == Permutations(Addr \ {Entry})
=============================================================================
