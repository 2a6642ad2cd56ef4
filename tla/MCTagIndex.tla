------------------------------ MODULE MCTagIndex ------------------------------
(* Values of TagIndex's constants for TLC.                                 *)
EXTENDS TagIndexProofs, TLC

CONSTANTS d1, d2, a, b, w1, w2, c1, c2, r1

MCRows == {[tags |-> {a, b}, shown |-> TRUE], [tags |-> {b}, shown |-> FALSE]}

Symmetry == Permutations(Docs) \cup Permutations(Writers) \cup Permutations(Callers)
===============================================================================
