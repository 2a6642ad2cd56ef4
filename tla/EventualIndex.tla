----------------------------- MODULE EventualIndex -----------------------------
(***************************************************************************)
(* What the index promises of a main database that goes on changing: it     *)
(* follows.  A change makes the index owe the document; until the index    *)
(* owes it no more, nothing is said of what it shows.                      *)
(***************************************************************************)
CONSTANTS
  Docs,
  Contents,  \* what a document may say
  None       \* no document

VARIABLES
  source,  \* the documents of the main database
  shown,   \* what a search would show of each
  owed     \* documents whose last change the index has still to answer for

vars == <<source, shown, owed>>

Init ==
  /\ source \in [Docs -> Contents \cup {None}]
  /\ shown = source
  /\ owed = {}

(* A document is created, changed or deleted; the index is not involved.    *)
Change(d, c) ==
  /\ source' = [source EXCEPT ![d] = c]
  /\ owed' = owed \cup {d}
  /\ UNCHANGED shown

(* The index changes, or answers for documents: it may show an older state  *)
(* of what it owes, and shows what it does not owe as it is.               *)
Index ==
  /\ owed' \subseteq owed
  /\ shown' \in [Docs -> Contents \cup {None}]
  /\ \A d \in Docs \ owed' : shown'[d] = source[d]
  /\ UNCHANGED source

Next ==
  \/ \E d \in Docs, c \in Contents \cup {None} : Change(d, c)
  \/ Index

Spec == Init /\ [][Next]_vars
===============================================================================
