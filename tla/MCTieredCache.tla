----------------------------- MODULE MCTieredCache -----------------------------
(* Values of TieredCache's constants for TLC: replica r1 stores key k1 for   *)
(* longer than r2 is configured to keep.                                   *)
EXTENDS TieredCacheProofs, TLC

CONSTANTS r1, r2, k1, k2, k3, s1, s2, s3, g1, w1, w2

MCHome == g1 :> r2 @@ w1 :> r1 @@ w2 :> r1
MCTTL == [r \in Replicas |->
           [k \in Keys |-> IF r = r1 /\ k = k1 THEN 2 * Second ELSE Second]]

Symmetry ==
  {p @@ q @@ r : p \in Permutations(Keys \ {k1}), q \in Permutations(Stores), r \in Permutations(Writers)}
===============================================================================
