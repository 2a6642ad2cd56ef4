------------------------------ MODULE MCIndexSync ------------------------------
(* Small instances of IndexSync for TLC. *)
EXTENDS IndexSyncProofs, TLC

CONSTANTS d1, d2, w1, w2, j1

Symmetry == Permutations(Docs) \cup Permutations(Workers)
===============================================================================
