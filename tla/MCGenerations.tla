----------------------------- MODULE MCGenerations -----------------------------
(* Small instances of Generations for TLC. *)
EXTENDS GenerationsProofs, TLC

CONSTANTS r1, r2, j1, j2, j3

Symmetry == Permutations(Replicas) \cup Permutations(Jobs)
===============================================================================
