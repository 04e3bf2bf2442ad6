----------------------------- MODULE MCIdentity -----------------------------
(* TLC instances of Identity. *)
EXTENDS Identity, TLC

CONSTANTS p1, p2, p3, k1, k2, k3

Symmetry == Permutations(Proc) \cup Permutations(Key)
=============================================================================
