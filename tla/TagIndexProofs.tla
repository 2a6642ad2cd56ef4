---------------------------- MODULE TagIndexProofs ----------------------------
(***************************************************************************)
(* Proofs about TagIndex for any documents, tags, rows, writers and         *)
(* standalone recounts.                                                    *)
(***************************************************************************)
EXTENDS TagIndex, FiniteSetTheorems, TLAPS

Counted(g) == \A t \in Tags : tag_index[g][t] = Count(search_index[g], t)
Unwritten(p) == \A d \in Docs : tx[p].rows[d] = Same
Uncounted(p) == \A t \in Tags : tx[p].counts[t] = Same

(* Who has counted holds its generation's row, and what it counted is what  *)
(* the statements of its transaction still see there.                      *)
CountOK(p) ==
  /\ tx[p].stage = "idle" => tx[p] = NoTx
  /\ tx[p].stage \in {"locked", "counted"} => genLock[tx[p].gen] = p
  /\ tx[p].stage # "counted" => Uncounted(p)
  /\ tx[p].stage = "counted" =>
       \A t \in Tags : tx[p].counts[t] =
                         IF t \in tx[p].selected THEN Count(View(p), t) ELSE Same

CountInv == \A p \in Procs : CountOK(p)

(* A write holds the switch lock, so its generation stays the active one.  *)
WriterInv ==
  \A w \in Writers :
    tx[w].stage # "idle" =>
      /\ switchLock = w /\ tx[w].gen = active
      /\ tx[w].stage \in {"open", "tags", "locked", "counted"}
      /\ tx[w].stage # "open" => tx[w].selected = Tags

(* A standalone recount counts all tags of a generation that is, or was,    *)
(* active.                                                                 *)
CallerInv ==
  \A c \in Callers :
    tx[c].stage # "idle" =>
      /\ tx[c].gen <= active /\ tx[c].selected = Tags /\ Unwritten(c)
      /\ tx[c].stage \in {"tags", "locked", "counted"}

(* The generation under construction is nobody else's.  Its tags are        *)
(* counted before the tail, and the rows of the tail show the tags that    *)
(* are not selected exactly where the rows they replace do.                *)
JobInv ==
  /\ active <= shadow
  /\ phase # "none" => active < shadow
  /\ phase \in {"none", "recounted"} => tx[Job].stage = "idle"
  /\ phase \in {"build", "catchup"} /\ tx[Job].stage # "idle" =>
       /\ tx[Job].gen = shadow /\ tx[Job].selected = Tags /\ Unwritten(Job)
       /\ tx[Job].stage \in {"tags", "locked", "counted"}
  /\ phase \in {"recounted", "tail"} => Counted(shadow)
  /\ phase = "tail" =>
       /\ switchLock = Job /\ tx[Job].stage # "idle" /\ tx[Job].gen = shadow
       /\ tx[Job].stage = "untagged" => tx[Job].selected = {}
       /\ \A d \in Docs, t \in Tags \ tx[Job].selected :
            Shows(View(Job)[d], t) <=> Shows(search_index[shadow][d], t)

IInv == TypeOK /\ CountInv /\ WriterInv /\ CallerInv /\ JobInv /\ TagsMatchRows

-------------------------------------------------------------------------------
(* Counting.                                                               *)

\* A count is a number.
LEMMA CountType ==
  ASSUME NEW m, NEW t
  PROVE  Count(m, t) \in Nat
<1>1. IsFiniteSet({d \in Docs : Shows(m[d], t)})
  BY FS_Subset, TagsAssumption
<1> QED
  BY <1>1, FS_CardinalityType DEF Count

\* Rows that show a tag in the same documents count the same.
LEMMA SameCount ==
  ASSUME NEW m, NEW n, NEW t, \A d \in Docs : Shows(m[d], t) <=> Shows(n[d], t)
  PROVE  Count(m, t) = Count(n, t)
<1>1. {d \in Docs : Shows(m[d], t)} = {d \in Docs : Shows(n[d], t)}
  OBVIOUS
<1> QED
  BY <1>1 DEF Count

\* What a transaction sees are rows.
LEMMA ViewType ==
  ASSUME TypeOK, NEW p \in Procs
  PROVE  View(p) \in [Docs -> Row \cup {None}]
<1>1. tx[p].rows \in [Docs -> Row \cup {None, Same}] /\ tx[p].gen \in Gens
  BY DEF TypeOK, Tx
<1> QED
  BY <1>1 DEF View, TypeOK

\* Without writes of its own a transaction sees the committed rows.
LEMMA ViewUnwritten ==
  ASSUME TypeOK, NEW p \in Procs, Unwritten(p)
  PROVE  View(p) = search_index[tx[p].gen]
<1>1. tx[p].gen \in Gens
  BY DEF TypeOK, Tx
<1> QED
  BY <1>1 DEF View, TypeOK, Unwritten

\* What a transaction sees changes with its own writes and its generation only.
LEMMA ViewFrame ==
  ASSUME NEW p, tx'[p] = tx[p], search_index'[tx[p].gen] = search_index[tx[p].gen]
  PROVE  View(p)' = View(p)
BY DEF View

-------------------------------------------------------------------------------
(* Types.                                                                  *)

\* The end of a transaction.
LEMMA ReleaseType ==
  ASSUME TypeOK, NEW p \in Procs, Release(p)
  PROVE  /\ tx' \in [Procs -> Tx]
         /\ switchLock' \in Procs \cup {None}
         /\ genLock' \in [Gens -> Procs \cup {None}]
<1>1. NoTx \in Tx
  BY TagsAssumption DEF NoTx, Tx, Gens
<1> QED
  BY <1>1 DEF Release, TypeOK

\* What a commit makes visible.
LEMMA StoreType ==
  ASSUME TypeOK, NEW p \in Procs, StoreTx(p)
  PROVE  /\ search_index' \in [Gens -> [Docs -> Row \cup {None}]]
         /\ tag_index' \in [Gens -> [Tags -> Nat]]
<1>1. View(p) \in [Docs -> Row \cup {None}]
  BY ViewType
<1>2. tx[p].gen \in Gens /\ tx[p].counts \in [Tags -> Nat \cup {Same}]
  BY DEF TypeOK, Tx
<1>3. search_index' \in [Gens -> [Docs -> Row \cup {None}]]
  BY <1>1, <1>2 DEF StoreTx, TypeOK
<1>4. [t \in Tags |-> IF tx[p].counts[t] = Same THEN tag_index[tx[p].gen][t]
                       ELSE tx[p].counts[t]] \in [Tags -> Nat]
  BY <1>2 DEF TypeOK
<1>5. tag_index' \in [Gens -> [Tags -> Nat]]
  BY <1>2, <1>4 DEF StoreTx, TypeOK
<1> QED
  BY <1>3, <1>5

\* Every step keeps the types.
LEMMA TypeStep ==
  ASSUME TypeOK, [Next]_vars
  PROVE  TypeOK'
<1>0. Job \in Procs /\ Writers \subseteq Procs /\ Callers \subseteq Procs
  BY DEF Procs
<1>a. RowValues \subseteq Row /\ Same \notin Nat
  BY TagsAssumption
<1>1. ASSUME NEW p \in Procs, LockGeneration(p) PROVE TypeOK'
  <2>1. tx[p] \in Tx
    BY DEF TypeOK
  <2>2. tx' = [tx EXCEPT ![p] = [tx[p] EXCEPT !.stage = "locked"]]
    BY <1>1 DEF LockGeneration
  <2>3. [tx[p] EXCEPT !.stage = "locked"] \in Tx
    BY <2>1 DEF Tx
  <2> QED
    BY <1>1, <2>2, <2>3 DEF LockGeneration, TypeOK
<1>2. ASSUME NEW p \in Procs, CountTags(p) PROVE TypeOK'
  <2>1. \A t \in Tags : Count(View(p), t) \in Nat
    BY CountType
  <2>2. tx[p] \in Tx
    BY DEF TypeOK
  <2>3. [t \in Tags |-> IF t \in tx[p].selected THEN Count(View(p), t)
                         ELSE tx[p].counts[t]] \in [Tags -> Nat \cup {Same}]
    BY <2>1, <2>2 DEF Tx
  <2>4. tx' \in [Procs -> Tx]
    BY <1>2, <2>2, <2>3 DEF CountTags, TypeOK, Tx
  <2> QED
    BY <1>2, <2>4 DEF CountTags, TypeOK
<1>3. ASSUME NEW p \in Procs, Commit(p) \/ Rollback(p) PROVE TypeOK'
  BY <1>3, ReleaseType, StoreType DEF Commit, Rollback, TypeOK
<1>4. ASSUME NEW w \in Writers, BeginWrite(w) \/ RefuseRow(w) PROVE TypeOK'
  <2>1. CASE BeginWrite(w)
    <3>1. tx[w] \in Tx /\ active \in Gens
      BY <1>0 DEF TypeOK
    <3>2. [tx[w] EXCEPT !.stage = "open", !.gen = active] \in Tx
      BY <3>1 DEF Tx
    <3>3. tx' \in [Procs -> Tx]
      BY <1>0, <2>1, <3>2 DEF BeginWrite, TypeOK
    <3> QED
      BY <1>0, <2>1, <3>3 DEF BeginWrite, TypeOK
  <2>2. CASE RefuseRow(w)
    BY <1>0, <2>2, ReleaseType DEF RefuseRow, TypeOK
  <2> QED
    BY <1>4, <2>1, <2>2
<1>5. ASSUME NEW w \in Writers, NEW d \in Docs, NEW x \in RowValues, WriteRow(w, d, x)
      PROVE  TypeOK'
  <2>1. tx[w] \in Tx /\ x \in Row
    BY <1>0, <1>a DEF TypeOK
  <2>2. [tx[w] EXCEPT !.stage = "tags", !.rows[d] = x, !.selected = Tags] \in Tx
    BY <2>1 DEF Tx
  <2>3. tx' \in [Procs -> Tx]
    BY <1>0, <1>5, <2>2 DEF WriteRow, TypeOK
  <2> QED
    BY <1>5, <2>3 DEF WriteRow, TypeOK
<1>6. ASSUME NEW c \in Callers, RebuildTags(c) PROVE TypeOK'
  <2>1. tx[c] \in Tx /\ active \in Gens
    BY <1>0 DEF TypeOK
  <2>2. [tx[c] EXCEPT !.stage = "tags", !.gen = active, !.selected = Tags] \in Tx
    BY <2>1 DEF Tx
  <2>3. tx' \in [Procs -> Tx]
    BY <1>0, <1>6, <2>2 DEF RebuildTags, TypeOK
  <2> QED
    BY <1>6, <2>3 DEF RebuildTags, TypeOK
<1>7. ASSUME NEW d \in Docs, NEW x \in RowValues, StoreRow(d, x) PROVE TypeOK'
  BY <1>7, <1>a DEF StoreRow, TypeOK
<1>8. ASSUME NEW d \in Docs, NEW x \in RowValues, TailRow(d, x) PROVE TypeOK'
  <2>1. x \in Row /\ tx[Job] \in Tx
    BY <1>0, <1>a DEF TypeOK
  <2>2. View(Job) \in [Docs -> Row \cup {None}]
    BY <1>0, ViewType
  <2>3. TouchedTags(d, x) \subseteq Tags
    BY <2>1, <2>2 DEF TouchedTags, TagsOf, Row
  <2>4. tx' \in [Procs -> Tx]
    BY <1>0, <1>8, <2>1, <2>3 DEF TailRow, TypeOK, Tx
  <2> QED
    BY <1>8, <2>4 DEF TailRow, TypeOK
<1>9. ASSUME StartBuild PROVE TypeOK'
  BY <1>9, TagsAssumption DEF StartBuild, TypeOK, Gens
<1>10. ASSUME BeginRecount \/ BeginTail \/ EndTail PROVE TypeOK'
  <2>1. tx[Job] \in Tx /\ shadow \in Gens
    BY <1>0 DEF TypeOK
  <2>2. /\ [tx[Job] EXCEPT !.stage = "tags", !.gen = shadow, !.selected = Tags] \in Tx
        /\ [tx[Job] EXCEPT !.stage = "open", !.gen = shadow] \in Tx
        /\ [tx[Job] EXCEPT !.stage = "untagged"] \in Tx
        /\ [tx[Job] EXCEPT !.stage = "tags"] \in Tx
    BY <2>1 DEF Tx
  <2>3. tx' \in [Procs -> Tx]
    BY <1>0, <1>10, <2>2 DEF BeginRecount, BeginTail, EndTail, TypeOK
  <2> QED
    BY <1>0, <1>10, <2>3 DEF BeginRecount, BeginTail, EndTail, TypeOK
<1>11. ASSUME DeferTail \/ FailBuild PROVE TypeOK'
  BY <1>0, <1>11, ReleaseType DEF DeferTail, FailBuild, TypeOK
<1>12. ASSUME CommitRecount \/ Activate PROVE TypeOK'
  BY <1>0, <1>12, ReleaseType, StoreType DEF CommitRecount, Activate, TypeOK
<1>13. ASSUME NEW r \in Readers, ReadActive(r) \/ EndRead(r) PROVE TypeOK'
  BY <1>13 DEF ReadActive, EndRead, TypeOK
<1>14. ASSUME UNCHANGED vars PROVE TypeOK'
  BY <1>14 DEF vars, TypeOK
<1> QED
  BY <1>1, <1>2, <1>3, <1>4, <1>5, <1>6, <1>7, <1>8, <1>9, <1>10, <1>11, <1>12, <1>13, <1>14
  DEF Next

-------------------------------------------------------------------------------
(* Steps of one transaction.                                               *)

\* A process keeps what it has counted as long as its row stays locked.
LEMMA CountFrame ==
  ASSUME NEW q, CountOK(q), tx'[q] = tx[q],
         tx[q].stage = "counted" => search_index'[tx[q].gen] = search_index[tx[q].gen],
         tx[q].stage \in {"locked", "counted"} => genLock'[tx[q].gen] = q
  PROVE  CountOK(q)'
<1>1. tx[q].stage = "counted" => View(q)' = View(q)
  BY ViewFrame
<1> QED
  BY <1>1 DEF CountOK, Uncounted

\* The generation is locked.
LEMMA LockStep ==
  ASSUME IInv, TypeOK', NEW p \in Procs, LockGeneration(p)
  PROVE  IInv'
<1>1. /\ tx[p].stage = "tags" /\ tx'[p].stage = "locked"
      /\ tx'[p].gen = tx[p].gen /\ tx'[p].selected = tx[p].selected
      /\ tx'[p].rows = tx[p].rows /\ tx'[p].counts = tx[p].counts
      /\ \A q \in Procs \ {p} : tx'[q] = tx[q]
      /\ tx[p].gen \in Gens /\ genLock[tx[p].gen] = None
      /\ genLock' = [genLock EXCEPT ![tx[p].gen] = p]
      /\ UNCHANGED <<active, search_index, tag_index, switchLock, shadow, phase>>
  BY DEF IInv, LockGeneration, TypeOK, Tx
<1>2. CountInv'
  <2> SUFFICES ASSUME NEW q \in Procs PROVE CountOK(q)'
    BY DEF CountInv
  <2>1. CASE q = p
    BY <1>1, <2>1 DEF IInv, CountInv, CountOK, Uncounted, TypeOK
  <2>2. CASE q # p
    <3>1. tx[q].gen \in Gens /\ q # None
      BY TagsAssumption DEF IInv, TypeOK, Tx
    <3>2. tx[q].stage \in {"locked", "counted"} => genLock'[tx[q].gen] = q
      BY <1>1, <2>2, <3>1 DEF IInv, CountInv, CountOK, TypeOK
    <3> QED
      BY <1>1, <2>2, <3>2, CountFrame DEF IInv, CountInv
  <2> QED
    BY <2>1, <2>2
<1>3. \A q \in Procs : View(q)' = View(q)
  BY <1>1 DEF View
<1>4. WriterInv' /\ CallerInv'
  BY <1>1 DEF IInv, WriterInv, CallerInv, Unwritten, Procs
<1>5. JobInv'
  BY <1>1, <1>3 DEF IInv, JobInv, Counted, Unwritten, Procs
<1>6. TagsMatchRows'
  BY <1>1 DEF IInv, TagsMatchRows
<1> QED
  BY <1>2, <1>4, <1>5, <1>6 DEF IInv

\* The tags are counted.
LEMMA CountStep ==
  ASSUME IInv, TypeOK', NEW p \in Procs, CountTags(p)
  PROVE  IInv'
<1>1. /\ tx[p].stage = "locked" /\ tx'[p].stage = "counted"
      /\ tx'[p].gen = tx[p].gen /\ tx'[p].selected = tx[p].selected
      /\ tx'[p].rows = tx[p].rows
      /\ tx'[p].counts = [t \in Tags |-> IF t \in tx[p].selected THEN Count(View(p), t)
                                          ELSE tx[p].counts[t]]
      /\ \A q \in Procs \ {p} : tx'[q] = tx[q]
      /\ UNCHANGED <<active, search_index, tag_index, switchLock, genLock, shadow, phase>>
  BY DEF IInv, CountTags, TypeOK, Tx
<1>3. \A q \in Procs : View(q)' = View(q)
  BY <1>1 DEF View
<1>2. CountInv'
  <2> SUFFICES ASSUME NEW q \in Procs PROVE CountOK(q)'
    BY DEF CountInv
  <2>1. CASE q = p
    <3>1. Uncounted(p) /\ genLock[tx[p].gen] = p
      BY <1>1 DEF IInv, CountInv, CountOK
    <3>2. \A t \in Tags : tx'[p].counts[t] =
                            IF t \in tx'[p].selected THEN Count(View(p)', t) ELSE Same
      BY <1>1, <1>3, <3>1 DEF Uncounted
    <3> QED
      BY <1>1, <2>1, <3>1, <3>2 DEF CountOK
  <2>2. CASE q # p
    BY <1>1, <2>2, CountFrame DEF IInv, CountInv, CountOK
  <2> QED
    BY <2>1, <2>2
<1>4. WriterInv' /\ CallerInv'
  BY <1>1 DEF IInv, WriterInv, CallerInv, Unwritten, Procs
<1>5. JobInv'
  BY <1>1, <1>3 DEF IInv, JobInv, Counted, Unwritten, Procs
<1>6. TagsMatchRows'
  BY <1>1 DEF IInv, TagsMatchRows
<1> QED
  BY <1>2, <1>4, <1>5, <1>6 DEF IInv

\* The end of a transaction leaves the others as they were.
LEMMA ReleaseEffect ==
  ASSUME IInv, TypeOK', NEW p \in Procs, Release(p)
  PROVE  /\ tx'[p] = NoTx /\ CountOK(p)'
         /\ \A q \in Procs \ {p} :
              /\ tx'[q] = tx[q]
              /\ switchLock = q => switchLock' = q
              /\ tx[q].stage \in {"locked", "counted"} => genLock'[tx[q].gen] = q
<1>1. tx'[p] = NoTx /\ \A q \in Procs \ {p} : tx'[q] = tx[q]
  BY DEF Release, IInv, TypeOK
<1>2. CountOK(p)'
  BY <1>1 DEF CountOK, Uncounted, NoTx
<1>3. ASSUME NEW q \in Procs \ {p} PROVE switchLock = q => switchLock' = q
  BY DEF Release
<1>4. ASSUME NEW q \in Procs \ {p}, tx[q].stage \in {"locked", "counted"}
      PROVE  genLock'[tx[q].gen] = q
  <2>1. genLock[tx[q].gen] = q /\ tx[q].gen \in Gens
    BY <1>4 DEF IInv, CountInv, CountOK, TypeOK, Tx
  <2> QED
    BY <2>1 DEF Release
<1> QED
  BY <1>1, <1>2, <1>3, <1>4

\* A transaction that has counted stores what it sees and what it counted.
\* The counts match if those it did not select were right for what it sees.
LEMMA StoreEffect ==
  ASSUME IInv, NEW p \in Procs, NEW g \in Gens, g = tx[p].gen, StoreTx(p),
         \/ tx[p].stage = "counted"
         \/ tx[p].stage = "untagged" /\ tx[p].selected = {}
  PROVE  /\ search_index'[g] = View(p)
         /\ \A h \in Gens \ {g} : search_index'[h] = search_index[h]
         /\ \A h \in Gens \ {g} : Counted(h) => Counted(h)'
         /\ (\A t \in Tags \ tx[p].selected : tag_index[g][t] = Count(View(p), t))
              => Counted(g)'
<1>1. /\ search_index'[g] = View(p)
      /\ \A h \in Gens \ {g} : search_index'[h] = search_index[h]
  BY DEF StoreTx, IInv, TypeOK
<1>2. ASSUME NEW t \in Tags
      PROVE  tag_index'[g][t] = IF t \in tx[p].selected THEN Count(View(p), t)
                                ELSE tag_index[g][t]
  <2>1. tag_index'[g][t] = IF tx[p].counts[t] = Same THEN tag_index[g][t]
                           ELSE tx[p].counts[t]
    BY DEF StoreTx, IInv, TypeOK
  <2>2. Count(View(p), t) # Same
    BY CountType, TagsAssumption
  <2> QED
    BY <2>1, <2>2 DEF IInv, CountInv, CountOK, Uncounted
<1>3. \A h \in Gens \ {g} : tag_index'[h] = tag_index[h]
  BY DEF StoreTx, IInv, TypeOK
<1> QED
  BY <1>1, <1>2, <1>3 DEF Counted

\* Nobody else has counted what a commit changes.
LEMMA OthersCount ==
  ASSUME IInv, TypeOK', NEW p \in Procs, Release(p), NEW g \in Gens,
         \A q \in Procs \ {p} : tx[q].gen = g => tx[q].stage # "counted",
         \A h \in Gens \ {g} : search_index'[h] = search_index[h]
  PROVE  CountInv'
<1> SUFFICES ASSUME NEW q \in Procs PROVE CountOK(q)'
  BY DEF CountInv
<1>1. CASE q = p
  BY <1>1, ReleaseEffect
<1>2. CASE q # p
  <2>1. tx[q].stage = "counted" => search_index'[tx[q].gen] = search_index[tx[q].gen]
    BY <1>2 DEF IInv, TypeOK, Tx
  <2> QED
    BY <1>2, <2>1, ReleaseEffect, CountFrame DEF IInv, CountInv
<1> QED
  BY <1>1, <1>2

\* A write or a standalone recount commits.
LEMMA CommitStep ==
  ASSUME IInv, TypeOK', NEW p \in Procs, Commit(p)
  PROVE  IInv'
<1>1. /\ p # Job /\ tx[p].stage = "counted" /\ StoreTx(p) /\ Release(p)
      /\ UNCHANGED <<active, shadow, phase>>
  BY DEF Commit
<1>2. PICK g \in Gens : g = tx[p].gen
  BY DEF IInv, TypeOK, Tx
<1>3. g <= active /\ tx[p].selected = Tags
  <2>1. CASE p \in Writers
    BY <1>1, <1>2, <2>1 DEF IInv, WriterInv, TypeOK, Gens
  <2>2. CASE p \in Callers
    BY <1>1, <1>2, <2>2 DEF IInv, CallerInv
  <2> QED
    BY <1>1, <2>1, <2>2 DEF Procs
<1>4. /\ \A h \in Gens \ {g} : search_index'[h] = search_index[h]
      /\ \A h \in Gens \ {g} : Counted(h) => Counted(h)'
      /\ Counted(g)'
  BY <1>1, <1>2, <1>3, StoreEffect
<1>5. /\ tx'[p] = NoTx
      /\ \A q \in Procs \ {p} : tx'[q] = tx[q] /\ (switchLock = q => switchLock' = q)
  BY <1>1, ReleaseEffect
<1>6. CountInv'
  <2>1. \A q \in Procs \ {p} : tx[q].gen = g => tx[q].stage # "counted"
    BY <1>1, <1>2 DEF IInv, CountInv, CountOK
  <2> QED
    BY <1>1, <1>2, <1>4, <2>1, OthersCount
<1>7. WriterInv' /\ CallerInv'
  BY <1>1, <1>5 DEF IInv, WriterInv, CallerInv, Unwritten, NoTx, Procs
<1>8. JobInv'
  <2>1. Job \in Procs \ {p} /\ tx'[Job] = tx[Job]
    BY <1>1, <1>5 DEF Procs
  <2>2. phase # "none" => shadow \in Gens \ {g}
    BY <1>3 DEF IInv, JobInv, TypeOK, Gens
  <2>3. phase = "tail" => View(Job)' = View(Job) /\ search_index'[shadow] = search_index[shadow]
    BY <1>4, <2>1, <2>2, ViewFrame DEF IInv, JobInv
  <2>4. phase \in {"recounted", "tail"} => Counted(shadow)'
    BY <1>1, <1>4, <2>2 DEF IInv, JobInv, Counted
  <2> QED
    BY <1>1, <1>5, <2>1, <2>3, <2>4 DEF IInv, JobInv, Unwritten
<1>9. TagsMatchRows'
  <2>1. active \in Gens /\ Counted(active)
    BY DEF IInv, TypeOK, TagsMatchRows, Counted
  <2>2. PICK a \in Gens : a = active
    BY <2>1
  <2>3. Counted(a)'
    BY <1>4, <2>1, <2>2
  <2> QED
    BY <1>1, <2>2, <2>3 DEF Counted, TagsMatchRows
<1> QED
  BY <1>6, <1>7, <1>8, <1>9 DEF IInv

\* A transaction ends without a trace.
LEMMA AbortStep ==
  ASSUME IInv, TypeOK', NEW p \in Procs \ {Job}, Release(p),
         UNCHANGED <<active, search_index, tag_index, shadow, phase>>
  PROVE  IInv'
<1>1. /\ tx'[p] = NoTx
      /\ \A q \in Procs \ {p} : tx'[q] = tx[q] /\ (switchLock = q => switchLock' = q)
  BY ReleaseEffect
<1>2. CountInv'
  <2> SUFFICES ASSUME NEW q \in Procs PROVE CountOK(q)'
    BY DEF CountInv
  <2> QED
    BY ReleaseEffect, CountFrame DEF IInv, CountInv
<1>3. WriterInv' /\ CallerInv'
  BY <1>1 DEF IInv, WriterInv, CallerInv, Unwritten, NoTx, Procs
<1>4. JobInv'
  <2>1. tx'[Job] = tx[Job] /\ Job \in Procs \ {p} /\ View(Job)' = View(Job)
    BY <1>1, ViewFrame DEF Procs
  <2> QED
    BY <1>1, <2>1 DEF IInv, JobInv, Unwritten, Counted
<1>5. TagsMatchRows'
  BY DEF IInv, TagsMatchRows
<1> QED
  BY <1>2, <1>3, <1>4, <1>5 DEF IInv

\* A step of a process that changes nothing committed keeps the others as
\* they were.
LEMMA OwnStep ==
  ASSUME IInv, TypeOK', NEW p \in Procs, CountOK(p)',
         \A q \in Procs \ {p} : tx'[q] = tx[q],
         UNCHANGED <<search_index, genLock>>
  PROVE  CountInv'
<1> SUFFICES ASSUME NEW q \in Procs PROVE CountOK(q)'
  BY DEF CountInv
<1>1. CASE q # p
  BY <1>1, CountFrame DEF IInv, CountInv, CountOK
<1> QED
  BY <1>1

\* A write begins, stores its row, or a standalone recount begins.
LEMMA OpenStep ==
  ASSUME IInv, TypeOK', NEW p \in Procs \ {Job},
         \/ p \in Writers /\ BeginWrite(p)
         \/ p \in Writers /\ \E d \in Docs, x \in RowValues : WriteRow(p, d, x)
         \/ p \in Callers /\ RebuildTags(p)
  PROVE  IInv'
<1>1. /\ \A q \in Procs \ {p} : tx'[q] = tx[q]
      /\ UNCHANGED <<active, search_index, tag_index, genLock, shadow, phase>>
      /\ tx[p] \in Tx
  BY DEF IInv, TypeOK, BeginWrite, WriteRow, RebuildTags
<1>w. ASSUME NEW d \in Docs, NEW x \in RowValues, WriteRow(p, d, x)
      PROVE  /\ tx[p].stage = "open" /\ tx'[p].stage = "tags" /\ tx'[p].gen = tx[p].gen
             /\ tx'[p].selected = Tags /\ tx'[p].counts = tx[p].counts
             /\ switchLock' = switchLock
  <2>1. tx'[p] = [tx[p] EXCEPT !.stage = "tags", !.rows[d] = x, !.selected = Tags]
    BY <1>w DEF WriteRow, IInv, TypeOK
  <2>2. /\ tx'[p].stage = "tags" /\ tx'[p].gen = tx[p].gen
        /\ tx'[p].selected = Tags /\ tx'[p].counts = tx[p].counts
    BY <1>1, <2>1 DEF Tx
  <2> QED
    BY <1>w, <2>2 DEF WriteRow
<1>2. /\ tx[p].stage \in {"idle", "open"}
      /\ tx'[p].stage \in {"open", "tags"}
      /\ tx'[p].counts = tx[p].counts
  <2>1. CASE BeginWrite(p) \/ RebuildTags(p)
    BY <1>1, <2>1 DEF IInv, TypeOK, Tx, BeginWrite, RebuildTags
  <2> QED
    BY <1>w, <2>1
<1>3. CountInv'
  <2>1. CountOK(p)'
    BY <1>1, <1>2 DEF IInv, CountInv, CountOK, Uncounted
  <2> QED
    BY <1>1, <2>1, OwnStep
<1>4. WriterInv'
  <2>1. CASE p \in Writers /\ BeginWrite(p)
    <3>1. tx'[p].stage = "open" /\ tx'[p].gen = active /\ switchLock = None /\ switchLock' = p
      BY <1>1, <2>1 DEF BeginWrite, IInv, TypeOK, Tx
    <3> QED
      BY <1>1, <3>1, TagsAssumption DEF IInv, WriterInv, Procs
  <2>2. CASE p \in Writers /\ \E d \in Docs, x \in RowValues : WriteRow(p, d, x)
    <3>1. /\ tx[p].stage = "open" /\ tx'[p].stage = "tags" /\ tx'[p].gen = tx[p].gen
          /\ tx'[p].selected = Tags /\ switchLock' = switchLock
      BY <1>w, <2>2
    <3> QED
      BY <1>1, <3>1 DEF IInv, WriterInv, Procs
  <2>3. CASE p \in Callers /\ RebuildTags(p)
    BY <1>1, <2>3, TagsAssumption DEF RebuildTags, IInv, WriterInv, Procs
  <2> QED
    BY <2>1, <2>2, <2>3
<1>5. CallerInv'
  <2>1. CASE p \in Writers
    BY <1>1, <2>1, TagsAssumption DEF IInv, CallerInv, Unwritten, Procs
  <2>2. CASE p \in Callers /\ RebuildTags(p)
    <3>1. /\ tx[p] = NoTx /\ tx'[p].stage = "tags" /\ tx'[p].gen = active
          /\ tx'[p].selected = Tags /\ tx'[p].rows = tx[p].rows
      BY <1>1, <2>2 DEF RebuildTags, IInv, CountInv, CountOK, TypeOK, Tx
    <3>2. Unwritten(p)'
      BY <3>1 DEF Unwritten, NoTx
    <3> QED
      BY <1>1, <3>1, <3>2 DEF IInv, CallerInv, Unwritten, Procs, TypeOK, Gens
  <2> QED
    BY <2>1, <2>2
<1>6. JobInv'
  <2>1. tx'[Job] = tx[Job] /\ View(Job)' = View(Job)
    BY <1>1, ViewFrame DEF Procs
  <2>2. switchLock = Job => switchLock' = Job
    BY TagsAssumption DEF BeginWrite, WriteRow, RebuildTags, Procs
  <2> QED
    BY <1>1, <2>1, <2>2 DEF IInv, JobInv, Unwritten, Counted
<1>7. TagsMatchRows'
  BY <1>1 DEF IInv, TagsMatchRows
<1> QED
  BY <1>3, <1>4, <1>5, <1>6, <1>7 DEF IInv

-------------------------------------------------------------------------------
(* Steps of the full rebuild.                                              *)

\* A step of the job keeps what holds of the others, unless it switches.
LEMMA JobFrame ==
  ASSUME IInv, \A q \in Procs \ {Job} : tx'[q] = tx[q], active' = active,
         \A q \in Procs \ {Job} : switchLock = q => switchLock' = q
  PROVE  WriterInv' /\ CallerInv'
BY TagsAssumption DEF IInv, WriterInv, CallerInv, Unwritten, Procs

\* A build begins.
LEMMA StartStep ==
  ASSUME IInv, TypeOK', StartBuild
  PROVE  IInv'
<1>1. CountInv'
  BY OwnStep DEF StartBuild, IInv, CountInv, CountOK, Uncounted, View, Procs
<1>2. WriterInv' /\ CallerInv'
  BY JobFrame DEF StartBuild
<1>3. JobInv'
  BY DEF StartBuild, IInv, JobInv, TypeOK, Gens
<1>4. TagsMatchRows'
  BY DEF StartBuild, IInv, TagsMatchRows
<1> QED
  BY <1>1, <1>2, <1>3, <1>4 DEF IInv

\* A row of the generation under construction is committed.
LEMMA StoreRowStep ==
  ASSUME IInv, TypeOK', NEW d \in Docs, NEW x \in RowValues, StoreRow(d, x)
  PROVE  IInv'
<1>1. /\ phase \in {"build", "catchup"} /\ tx[Job].stage = "idle"
      /\ \A g \in Gens \ {shadow} : search_index'[g] = search_index[g]
      /\ UNCHANGED <<active, tag_index, switchLock, genLock, tx, shadow, phase>>
  BY DEF StoreRow, IInv, TypeOK
<1>2. active \in Gens \ {shadow} /\ active \in Int /\ shadow \in Int /\ active < shadow
  BY <1>1 DEF IInv, JobInv, TypeOK, Gens
<1>3. CountInv'
  <2> SUFFICES ASSUME NEW q \in Procs PROVE CountOK(q)'
    BY DEF CountInv
  <2>1. tx[q].stage = "counted" => tx[q].gen \in Gens \ {shadow}
    <3>1. CASE q \in Writers
      BY <1>2, <3>1 DEF IInv, WriterInv
    <3>2. CASE q \in Callers
      <4>1. tx[q].gen \in Gens
        BY DEF IInv, TypeOK, Tx
      <4>2. tx[q].stage = "counted" => tx[q].gen <= active
        BY <3>2 DEF IInv, CallerInv
      <4>3. tx[q].gen \in Int
        BY <4>1 DEF Gens
      <4> QED
        BY <1>2, <4>1, <4>2, <4>3
    <3> QED
      BY <1>1, <3>1, <3>2 DEF Procs
  <2> QED
    BY <1>1, <2>1, CountFrame DEF IInv, CountInv, CountOK
<1>4. WriterInv' /\ CallerInv'
  BY <1>1, JobFrame
<1>5. JobInv'
  BY <1>1 DEF IInv, JobInv
<1>6. TagsMatchRows'
  BY <1>1, <1>2 DEF IInv, TagsMatchRows
<1> QED
  BY <1>3, <1>4, <1>5, <1>6 DEF IInv

\* All tags are to be counted, or the tail begins.
LEMMA BeginStep ==
  ASSUME IInv, TypeOK', BeginRecount \/ BeginTail
  PROVE  IInv'
<1>1. /\ Job \in Procs /\ tx[Job].stage = "idle" /\ tx[Job] = NoTx /\ tx[Job] \in Tx
      /\ \A q \in Procs \ {Job} : tx'[q] = tx[q]
      /\ UNCHANGED <<active, search_index, tag_index, genLock, shadow>>
      /\ active < shadow
  BY DEF BeginRecount, BeginTail, IInv, JobInv, CountInv, CountOK, TypeOK, Procs
<1>2. /\ tx'[Job].stage \in {"tags", "open"} /\ tx'[Job].gen = shadow
      /\ tx'[Job].rows = tx[Job].rows /\ tx'[Job].counts = tx[Job].counts
      /\ BeginRecount => tx'[Job].stage = "tags" /\ tx'[Job].selected = Tags
      /\ BeginTail => tx'[Job].stage = "open"
  BY <1>1 DEF BeginRecount, BeginTail, IInv, TypeOK, Tx
<1>3. Unwritten(Job)' /\ CountOK(Job)'
  BY <1>1, <1>2 DEF Unwritten, CountOK, Uncounted, NoTx
<1>4. CountInv'
  BY <1>1, <1>3, OwnStep
<1>5. \A q \in Procs \ {Job} : switchLock = q => switchLock' = q
  BY TagsAssumption DEF BeginRecount, BeginTail
<1>6. WriterInv' /\ CallerInv'
  BY <1>1, <1>5, JobFrame
<1>7. JobInv'
  <2>1. CASE BeginRecount
    BY <1>1, <1>2, <1>3, <2>1 DEF BeginRecount, IInv, JobInv
  <2>2. CASE BeginTail
    <3>1. phase' = "tail" /\ switchLock' = Job /\ Counted(shadow)'
      BY <1>1, <2>2 DEF BeginTail, IInv, JobInv, Counted
    <3>2. View(Job)' = search_index'[shadow']
      BY <1>1, <1>2, <1>3, ViewUnwritten DEF View, Unwritten, IInv, TypeOK
    <3> QED
      BY <1>1, <1>2, <2>2, <3>1, <3>2 DEF IInv, JobInv
  <2> QED
    BY <2>1, <2>2
<1>8. TagsMatchRows'
  BY <1>1 DEF IInv, TagsMatchRows
<1> QED
  BY <1>4, <1>6, <1>7, <1>8 DEF IInv

\* The tags of the generation under construction are committed.
LEMMA RecountedStep ==
  ASSUME IInv, TypeOK', CommitRecount
  PROVE  IInv'
<1>1. /\ Job \in Procs /\ phase \in {"build", "catchup"} /\ tx[Job].stage = "counted"
      /\ StoreTx(Job) /\ Release(Job) /\ phase' \in {"catchup", "recounted"}
      /\ UNCHANGED <<active, shadow>>
  BY DEF CommitRecount, Procs
<1>2. PICK g \in Gens : g = shadow
  BY DEF IInv, TypeOK
<1>3. g = tx[Job].gen /\ tx[Job].selected = Tags /\ active \in Gens \ {g} /\ active < shadow
  BY <1>1, <1>2 DEF IInv, JobInv, TypeOK, Gens
<1>4. /\ \A h \in Gens \ {g} : search_index'[h] = search_index[h]
      /\ \A h \in Gens \ {g} : Counted(h) => Counted(h)'
      /\ Counted(g)'
  BY <1>1, <1>3, StoreEffect
<1>5. /\ tx'[Job] = NoTx
      /\ \A q \in Procs \ {Job} : tx'[q] = tx[q] /\ (switchLock = q => switchLock' = q)
  BY <1>1, ReleaseEffect
<1>6. CountInv'
  <2>1. \A q \in Procs \ {Job} : tx[q].gen = g => tx[q].stage # "counted"
    BY <1>1, <1>3 DEF IInv, CountInv, CountOK
  <2> QED
    BY <1>1, <1>4, <2>1, OthersCount
<1>7. WriterInv' /\ CallerInv'
  BY <1>1, <1>5, JobFrame
<1>8. JobInv'
  <2>1. Counted(shadow)'
    BY <1>1, <1>2, <1>4 DEF Counted
  <2> QED
    BY <1>1, <1>3, <1>5, <2>1 DEF IInv, JobInv, NoTx
<1>9. TagsMatchRows'
  <2>1. PICK a \in Gens \ {g} : a = active
    BY <1>3
  <2>2. Counted(a)'
    BY <1>4, <2>1 DEF IInv, TagsMatchRows, Counted
  <2> QED
    BY <1>1, <2>1, <2>2 DEF Counted, TagsMatchRows
<1> QED
  BY <1>6, <1>7, <1>8, <1>9 DEF IInv

\* A row of the tail: its tags before and after are selected.
LEMMA TailRowStep ==
  ASSUME IInv, TypeOK', NEW d \in Docs, NEW x \in RowValues, TailRow(d, x)
  PROVE  IInv'
<1>1. /\ Job \in Procs /\ phase = "tail" /\ tx[Job].stage = "open" /\ tx[Job] \in Tx
      /\ tx[Job].rows[d] = Same /\ tx[Job].gen = shadow
      /\ \A q \in Procs \ {Job} : tx'[q] = tx[q]
      /\ UNCHANGED <<active, search_index, tag_index, switchLock, genLock, shadow, phase>>
  BY DEF TailRow, IInv, JobInv, TypeOK, Procs
<1>2. tx'[Job] = [tx[Job] EXCEPT !.rows[d] = x,
                                 !.selected = tx[Job].selected \cup TouchedTags(d, x)]
  BY <1>1 DEF TailRow, IInv, TypeOK
<1>3. /\ tx'[Job].stage = "open" /\ tx'[Job].gen = shadow
      /\ tx'[Job].rows = [tx[Job].rows EXCEPT ![d] = x]
      /\ tx'[Job].selected = tx[Job].selected \cup TouchedTags(d, x)
      /\ tx'[Job].counts = tx[Job].counts
  BY <1>1, <1>2 DEF Tx
<1>4. CountInv'
  <2>1. CountOK(Job)'
    BY <1>1, <1>3 DEF IInv, CountInv, CountOK, Uncounted
  <2> QED
    BY <1>1, <2>1, OwnStep
<1>5. WriterInv' /\ CallerInv'
  BY <1>1, JobFrame
<1>6. ASSUME NEW e \in Docs, NEW t \in Tags \ tx'[Job].selected
      PROVE  Shows(View(Job)'[e], t) <=> Shows(search_index[shadow][e], t)
  <2>1. tx[Job].rows \in [Docs -> Row \cup {None, Same}] /\ x # Same
    BY <1>1, TagsAssumption DEF Tx
  <2>2. CASE e = d
    <3>1. View(Job)[d] = search_index[shadow][d] /\ View(Job)'[d] = x
      BY <1>1, <1>3, <2>1 DEF View
    <3>2. t \notin TagsOf(search_index[shadow][d]) /\ t \notin TagsOf(x)
      BY <1>3, <3>1 DEF TouchedTags
    <3> QED
      BY <2>2, <3>1, <3>2 DEF Shows, TagsOf
  <2>3. CASE e # d
    <3>1. View(Job)'[e] = View(Job)[e]
      BY <1>1, <1>3, <2>1, <2>3 DEF View
    <3> QED
      BY <1>1, <1>3, <3>1 DEF IInv, JobInv
  <2> QED
    BY <2>2, <2>3
<1>7. JobInv'
  BY <1>1, <1>3, <1>6 DEF IInv, JobInv, Counted
<1>8. TagsMatchRows'
  BY <1>1 DEF IInv, TagsMatchRows
<1> QED
  BY <1>4, <1>5, <1>7, <1>8 DEF IInv

\* The tail is over.
LEMMA EndTailStep ==
  ASSUME IInv, TypeOK', EndTail
  PROVE  IInv'
<1>1. /\ Job \in Procs /\ phase = "tail" /\ tx[Job].stage = "open" /\ tx[Job] \in Tx
      /\ \A q \in Procs \ {Job} : tx'[q] = tx[q]
      /\ UNCHANGED <<active, search_index, tag_index, switchLock, genLock, shadow, phase>>
  BY DEF EndTail, IInv, TypeOK, Procs
<1>2. /\ tx'[Job].stage \in {"tags", "untagged"}
      /\ tx'[Job].stage = "untagged" => tx'[Job].selected = {}
      /\ tx'[Job].gen = tx[Job].gen /\ tx'[Job].rows = tx[Job].rows
      /\ tx'[Job].selected = tx[Job].selected /\ tx'[Job].counts = tx[Job].counts
  BY <1>1 DEF EndTail, IInv, TypeOK, Tx
<1>3. CountInv'
  <2>1. CountOK(Job)'
    BY <1>1, <1>2 DEF IInv, CountInv, CountOK, Uncounted
  <2> QED
    BY <1>1, <2>1, OwnStep
<1>4. WriterInv' /\ CallerInv'
  BY <1>1, JobFrame
<1>5. View(Job)' = View(Job)
  BY <1>1, <1>2 DEF View
<1>6. JobInv'
  BY <1>1, <1>2, <1>5 DEF IInv, JobInv, Counted
<1>7. TagsMatchRows'
  BY <1>1 DEF IInv, TagsMatchRows
<1> QED
  BY <1>3, <1>4, <1>6, <1>7 DEF IInv

\* The tail is put off, or the build fails.
LEMMA GiveUpStep ==
  ASSUME IInv, TypeOK', DeferTail \/ FailBuild
  PROVE  IInv'
<1>1. /\ Job \in Procs /\ phase # "none" /\ Release(Job) /\ phase' \in {"none", "catchup"}
      /\ UNCHANGED <<active, search_index, tag_index, shadow>>
  BY DEF DeferTail, FailBuild, Procs
<1>2. /\ tx'[Job] = NoTx
      /\ \A q \in Procs \ {Job} : tx'[q] = tx[q] /\ (switchLock = q => switchLock' = q)
  BY <1>1, ReleaseEffect
<1>3. CountInv'
  <2> SUFFICES ASSUME NEW q \in Procs PROVE CountOK(q)'
    BY DEF CountInv
  <2> QED
    BY <1>1, ReleaseEffect, CountFrame DEF IInv, CountInv
<1>4. WriterInv' /\ CallerInv'
  BY <1>1, <1>2, JobFrame
<1>5. JobInv'
  BY <1>1, <1>2 DEF IInv, JobInv, NoTx
<1>6. TagsMatchRows'
  BY <1>1 DEF IInv, TagsMatchRows
<1> QED
  BY <1>3, <1>4, <1>5, <1>6 DEF IInv

\* The switch: the tags that are not selected were counted before the tail,
\* and the tail left their counts as they were.
LEMMA ActivateStep ==
  ASSUME IInv, TypeOK', Activate
  PROVE  IInv'
<1>1. /\ Job \in Procs /\ phase = "tail" /\ tx[Job].stage \in {"counted", "untagged"}
      /\ StoreTx(Job) /\ Release(Job)
      /\ phase' = "none" /\ active' = shadow /\ shadow' = shadow
  BY DEF Activate, Procs
<1>2. PICK g \in Gens : g = shadow
  BY DEF IInv, TypeOK
<1>3. /\ g = tx[Job].gen /\ switchLock = Job /\ Counted(g)
      /\ active < g /\ active \in Int /\ g \in Int
      /\ tx[Job].stage = "untagged" => tx[Job].selected = {}
  BY <1>1, <1>2 DEF IInv, JobInv, TypeOK, Gens, Counted
<1>4. ASSUME NEW t \in Tags \ tx[Job].selected
      PROVE  tag_index[g][t] = Count(View(Job), t)
  <2>1. \A d \in Docs : Shows(View(Job)[d], t) <=> Shows(search_index[g][d], t)
    BY <1>1, <1>2 DEF IInv, JobInv
  <2>2. Count(View(Job), t) = Count(search_index[g], t)
    BY <2>1, SameCount
  <2> QED
    BY <1>3, <2>2 DEF Counted
<1>5. /\ \A h \in Gens \ {g} : search_index'[h] = search_index[h]
      /\ Counted(g)'
  BY <1>1, <1>3, <1>4, StoreEffect
<1>6. tx'[Job] = NoTx /\ \A q \in Procs \ {Job} : tx'[q] = tx[q]
  BY <1>1, ReleaseEffect
<1>7. \A w \in Writers : tx[w].stage = "idle"
  BY <1>3, TagsAssumption DEF IInv, WriterInv, Procs
<1>8. \A c \in Callers : tx[c].stage # "idle" => tx[c].gen < g
  <2>1. \A c \in Callers : tx[c].gen \in Int
    BY DEF IInv, TypeOK, Tx, Gens, Procs
  <2> QED
    BY <1>3, <2>1 DEF IInv, CallerInv
<1>9. CountInv'
  <2>1. \A q \in Procs \ {Job} : tx[q].gen = g => tx[q].stage # "counted"
    BY <1>3, <1>7, <1>8 DEF Procs
  <2> QED
    BY <1>1, <1>5, <2>1, OthersCount
<1>10. WriterInv' /\ CallerInv'
  <2>1. WriterInv'
    BY <1>6, <1>7, TagsAssumption DEF WriterInv, Procs
  <2>2. ASSUME NEW c \in Callers, tx'[c].stage # "idle" PROVE tx'[c].gen <= active'
    <3>1. tx'[c] = tx[c]
      BY <1>6, TagsAssumption DEF Procs
    <3>2. tx[c].gen \in Int /\ tx[c].gen < g
      BY <1>8, <2>2, <3>1 DEF IInv, TypeOK, Tx, Gens, Procs
    <3> QED
      BY <1>1, <1>2, <1>3, <3>1, <3>2
  <2>3. CallerInv'
    BY <1>6, <2>2, TagsAssumption DEF IInv, CallerInv, Unwritten, Procs
  <2> QED
    BY <2>1, <2>3
<1>11. JobInv'
  BY <1>1, <1>2, <1>3, <1>6 DEF JobInv, NoTx
<1>12. TagsMatchRows'
  BY <1>1, <1>2, <1>5 DEF Counted, TagsMatchRows
<1> QED
  BY <1>9, <1>10, <1>11, <1>12 DEF IInv

-------------------------------------------------------------------------------
(* Theorems.                                                               *)

\* Whatever rows were there were counted.
LEMMA InitInv ==
  ASSUME Init
  PROVE  IInv
<1> USE DEF Init
<1>1. PICK m \in [Docs -> RowValues \cup {None}] :
        /\ search_index = [g \in Gens |-> IF g = 0 THEN m ELSE [d \in Docs |-> None]]
        /\ tag_index = [g \in Gens |-> [t \in Tags |-> IF g = 0 THEN Count(m, t) ELSE 0]]
  OBVIOUS
<1>2. \A t \in Tags : Count(m, t) \in Nat
  BY CountType
<1>3. 0 \in Gens
  BY TagsAssumption DEF Gens
<1>4. TypeOK
  <2>1. NoTx \in Tx
    BY <1>3 DEF NoTx, Tx
  <2>2. search_index \in [Gens -> [Docs -> Row \cup {None}]]
    BY <1>1, TagsAssumption
  <2>3. tag_index \in [Gens -> [Tags -> Nat]]
    BY <1>1, <1>2
  <2> QED
    BY <1>3, <2>1, <2>2, <2>3 DEF TypeOK
<1>5. CountInv
  BY DEF CountInv, CountOK, Uncounted, NoTx
<1>6. WriterInv /\ CallerInv
  BY DEF WriterInv, CallerInv, NoTx, Procs
<1>7. JobInv
  BY DEF JobInv, NoTx, Procs
<1>8. TagsMatchRows
  BY <1>1, <1>3 DEF TagsMatchRows
<1> QED
  BY <1>4, <1>5, <1>6, <1>7, <1>8 DEF IInv

\* Every step keeps the invariant.
LEMMA Inductive ==
  ASSUME IInv, [Next]_vars
  PROVE  IInv'
<1>0. TypeOK'
  BY TypeStep DEF IInv
<1>1. CASE \E p \in Procs : LockGeneration(p) \/ CountTags(p) \/ Commit(p)
  BY <1>0, <1>1, LockStep, CountStep, CommitStep
<1>2. CASE \E p \in Procs : Rollback(p)
  BY <1>0, <1>2, AbortStep DEF Rollback
<1>3. CASE \E w \in Writers : RefuseRow(w)
  BY <1>0, <1>3, AbortStep, TagsAssumption DEF RefuseRow, Procs
<1>4. CASE \E w \in Writers : BeginWrite(w) \/ \E d \in Docs, x \in RowValues : WriteRow(w, d, x)
  BY <1>0, <1>4, OpenStep, TagsAssumption DEF Procs
<1>5. CASE \E c \in Callers : RebuildTags(c)
  BY <1>0, <1>5, OpenStep, TagsAssumption DEF Procs
<1>6. CASE \E d \in Docs, x \in RowValues : StoreRow(d, x) \/ TailRow(d, x)
  BY <1>0, <1>6, StoreRowStep, TailRowStep
<1>7. CASE StartBuild \/ BeginRecount \/ CommitRecount \/ BeginTail
  BY <1>0, <1>7, StartStep, BeginStep, RecountedStep
<1>8. CASE DeferTail \/ EndTail \/ Activate \/ FailBuild
  BY <1>0, <1>8, GiveUpStep, EndTailStep, ActivateStep
<1>9. CASE UNCHANGED vars \/ \E r \in Readers : ReadActive(r) \/ EndRead(r)
  <2>1. UNCHANGED <<active, search_index, tag_index, switchLock, genLock, tx, shadow, phase>>
    BY <1>9 DEF vars, ReadActive, EndRead
  <2> QED
    BY <1>0, <2>1 DEF IInv, CountInv, CountOK, Uncounted, WriterInv, CallerInv, JobInv,
      Unwritten, Counted, TagsMatchRows, View
<1> QED
  BY <1>1, <1>2, <1>3, <1>4, <1>5, <1>6, <1>7, <1>8, <1>9 DEF Next

\* The locks of writes, recounts and the switch keep every count current.
THEOREM CountsCorrect == Spec => []IInv
<1>1. Init => IInv
  BY InitInv
<1>2. IInv /\ [Next]_vars => IInv'
  BY Inductive
<1> QED
  BY <1>1, <1>2, PTL DEF Spec

\* The tags of the active generation are those of its rows in every reachable
\* state, however many writers, recounts and rebuilds there are.
THEOREM TagsHold == Spec => []TagsMatchRows
<1>1. IInv => TagsMatchRows
  BY DEF IInv
<1> QED
  BY <1>1, CountsCorrect, PTL

\* The counts of a generation that is, or was, active stay those of its rows.
LEMMA StaysCounted ==
  ASSUME IInv, [Next]_vars, NEW g \in Gens, g <= active, Counted(g)
  PROVE  Counted(g)'
<1>0. /\ active \in Int /\ shadow \in Gens /\ g \in Int /\ shadow \in Int
      /\ phase # "none" => active < shadow
  BY DEF IInv, TypeOK, JobInv, Gens
<1>1. ASSUME NEW p \in Procs, Commit(p) PROVE Counted(g)'
  <2>1. PICK h \in Gens : h = tx[p].gen
    BY DEF IInv, TypeOK, Tx
  <2>2. tx[p].stage = "counted" /\ StoreTx(p) /\ tx[p].selected = Tags
    BY <1>1 DEF Commit, Procs, IInv, WriterInv, CallerInv
  <2> QED
    BY <2>1, <2>2, StoreEffect
<1>2. ASSUME NEW d \in Docs, NEW x \in RowValues, StoreRow(d, x) PROVE Counted(g)'
  <2>1. g # shadow
    BY <1>0, <1>2 DEF StoreRow
  <2>2. search_index'[g] = search_index[g] /\ tag_index' = tag_index
    BY <1>2, <2>1 DEF StoreRow, IInv, TypeOK
  <2> QED
    BY <2>2 DEF Counted
<1>3. ASSUME CommitRecount \/ Activate PROVE Counted(g)'
  <2>1. PICK h \in Gens : h = shadow
    BY <1>0
  <2>2. g # h /\ h = tx[Job].gen
    BY <1>0, <1>3, <2>1 DEF CommitRecount, Activate, IInv, JobInv
  <2>3. /\ Job \in Procs /\ StoreTx(Job)
        /\ \/ tx[Job].stage = "counted"
           \/ tx[Job].stage = "untagged" /\ tx[Job].selected = {}
    BY <1>3 DEF CommitRecount, Activate, IInv, JobInv, Procs
  <2> QED
    BY <2>1, <2>2, <2>3, StoreEffect
<1>4. CASE UNCHANGED <<search_index, tag_index>>
  BY <1>4 DEF Counted
<1>5. \/ UNCHANGED <<search_index, tag_index>>
      \/ \E p \in Procs : Commit(p)
      \/ \E d \in Docs, x \in RowValues : StoreRow(d, x)
      \/ CommitRecount \/ Activate
  BY DEF Next, vars, LockGeneration, CountTags, Rollback, BeginWrite, RefuseRow, WriteRow,
    RebuildTags, TailRow, StartBuild, BeginRecount, BeginTail, DeferTail, EndTail, FailBuild,
    ReadActive, EndRead
<1> QED
  BY <1>1, <1>2, <1>3, <1>4, <1>5

(* A request reads a generation that is, or was, active, and whose tags are  *)
(* counted.                                                                *)
ReaderInv == \A r \in Readers : reading[r] # None => reading[r] <= active /\ Counted(reading[r])

\* Every step keeps what requests have read.
LEMMA ReaderStep ==
  ASSUME IInv, [Next]_vars, ReaderInv
  PROVE  ReaderInv'
<1> SUFFICES ASSUME NEW r \in Readers, reading'[r] # None
             PROVE  reading'[r] <= active' /\ Counted(reading[r])'
  BY DEF ReaderInv
<1>1. active <= active' /\ active \in Gens /\ active \in Int /\ active' \in Int
  <2>1. active' = active \/ Activate
    BY DEF Next, vars, LockGeneration, CountTags, Commit, Rollback, BeginWrite, RefuseRow,
      WriteRow, RebuildTags, StoreRow, TailRow, StartBuild, BeginRecount, CommitRecount,
      BeginTail, DeferTail, EndTail, FailBuild, ReadActive, EndRead
  <2>2. Activate => active' = shadow /\ active < shadow
    BY DEF Activate, IInv, JobInv
  <2> QED
    BY <2>1, <2>2 DEF IInv, TypeOK, Gens
<1>2. reading'[r] = reading[r] \/ reading'[r] = active
  BY DEF Next, vars, LockGeneration, CountTags, Commit, Rollback, BeginWrite, RefuseRow,
    WriteRow, RebuildTags, StoreRow, TailRow, StartBuild, BeginRecount, CommitRecount,
    BeginTail, DeferTail, EndTail, Activate, FailBuild, ReadActive, EndRead, IInv, TypeOK
<1>3. PICK g \in Gens : g = reading'[r]
  BY <1>1, <1>2 DEF IInv, TypeOK
<1>4. g <= active /\ Counted(g)
  BY <1>1, <1>2, <1>3 DEF ReaderInv, IInv, TagsMatchRows, Counted, Gens
<1>5. Counted(g)'
  BY <1>4, StaysCounted
<1> QED
  BY <1>1, <1>3, <1>4, <1>5 DEF Counted, Gens

\* A request that sleeps through switches, writes and recounts finds counts
\* that are those of the rows of the generation it took.
THEOREM ReadersHold == Spec => []ReadersSeeTheirRows
<1>1. Init => ReaderInv
  BY DEF Init, ReaderInv
<1>2. IInv /\ ReaderInv /\ [Next]_vars => ReaderInv'
  BY ReaderStep
<1>3. ReaderInv => ReadersSeeTheirRows
  BY DEF ReaderInv, ReadersSeeTheirRows, Counted
<1> QED
  BY <1>1, <1>2, <1>3, CountsCorrect, PTL DEF Spec
===============================================================================
