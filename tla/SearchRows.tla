------------------------------ MODULE SearchRows ------------------------------
(***************************************************************************)
(* The data of the index and the version gate every write goes through.    *)
(*                                                                         *)
(* A row of search_index is reduced to the three things the gate and its   *)
(* users tell apart: ver, the source_version column; rev, the event_order  *)
(* of the source transaction whose effect the row's content shows (ghost,  *)
(* the content itself); live, FALSE for a row with status 'deleted'.       *)
(* None stands for a row that does not exist.                              *)
(***************************************************************************)
EXTENDS Integers, FiniteSets

CONSTANTS
  Docs,       \* the (entity_type, entity_id) pairs
  MaxOrder,   \* bound: the number of event_order values the outbox allocates
  None        \* "no such row / lease / event", outside every data set below

Orders == 1..MaxOrder

Versions == 0..MaxOrder

Snapshot == [rev : Versions, live : BOOLEAN]

Row == [ver : Versions, rev : Versions, live : BOOLEAN]

Event == [doc : Docs, live : BOOLEAN]

ASSUME MaxOrderAssumption == MaxOrder \in Nat

ASSUME NoneAssumption ==
  /\ None \notin Snapshot
  /\ None \notin Row
  /\ None \notin Event

ASSUME NoVersionAssumption == None \notin Versions

(***************************************************************************)
(* INSERT ... ON CONFLICT DO UPDATE with the guard of sourceVersionConflict *)
(* for a versioned write: an existing row is replaced unless it carries a  *)
(* newer source_version.                                                   *)
(***************************************************************************)
UngatedWrite(row, new) == new  \* mutant: ON CONFLICT DO UPDATE without the guard

StrictGatedWrite(row, new) ==   \* mutant: equal versions are refused as well
  IF row = None \/ row.ver < new.ver THEN new ELSE row

GatedWrite(row, new) ==
  IF row = None \/ row.ver <= new.ver THEN new ELSE row

\* mergeLatestEvents: of a set of events, one per document, the newest.
MergeEarliest(batch, doc) ==    \* mutant: the first event of a document wins
  {o \in batch : \A p \in batch : doc[p] = doc[o] => o <= p}

MergeLatest(batch, doc) ==
  {o \in batch : \A p \in batch : doc[p] = doc[o] => p <= o}

\* m is what SELECT coalesce(max(event_order),0) returns over the rows S.
IsHighest(m, S) == m \in S \cup {0} /\ \A o \in S : o <= m
===============================================================================
