---------------------------- MODULE MCMutationFence ----------------------------
(* Small instances of MutationFence for TLC. *)
EXTENDS MutationFenceProofs, TLC

CONSTANTS m1, m2, r1, r2

Symmetry == Permutations(Mutators) \cup Permutations(Requests)
===============================================================================
