----------------------------- MODULE MCSearchPages -----------------------------
(***************************************************************************)
(* Small instances of SearchPages for TLC: rows that differ in how much    *)
(* they are liked and in their time, and a configuration that weighs       *)
(* popularity and one that weighs freshness.                               *)
(***************************************************************************)
EXTENDS SearchPages

MCDocs == {"a", "b", "c"}

MCPosition == [d \in MCDocs |-> CASE d = "a" -> 1 [] d = "b" -> 2 [] OTHER -> 3]

MCContents == {"old and liked", "new"}

MCMatches ==
  [q \in Queries |-> [c \in Configs |-> IF q = "all" THEN MCContents ELSE {"new"}]]

MCSortTime == [x \in MCContents |-> IF x = "new" THEN 1 ELSE 0]

Freshness(x, t) == IF t > MCSortTime[x] THEN 0 ELSE 1
Popularity(x) == IF x = "new" THEN 0 ELSE 2

\* A new row of time 1 is fresh at times 0 and 1, an old one at time 0 only.
MCScore ==
  [q \in Queries |-> [s \in Sorts |-> [c \in Configs |-> [x \in MCContents |-> [t \in Times |->
     IF c = "popular first" THEN Popularity(x) + Freshness(x, t)
                            ELSE Popularity(x) + 3 * Freshness(x, t)]]]]]
===============================================================================
