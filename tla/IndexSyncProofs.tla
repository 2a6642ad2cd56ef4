---------------------------- MODULE IndexSyncProofs ----------------------------
(***************************************************************************)
(* Proofs about IndexSync for every value of its constants.                *)
(***************************************************************************)
EXTENDS IndexSync, TLAPS

Latest(d) == source[d].rev

(***************************************************************************)
(* The outbox records each document's transactions in the order in which   *)
(* they commit, and the last one is what the source shows.                 *)
(***************************************************************************)
SourceInv ==
  /\ open \cap committed = {}
  /\ \A o \in open \cup committed : o <= lastOrder /\ evt[o] # None
  /\ \A o \in open : o > Latest(evt[o].doc)
  /\ \A o, p \in open : evt[o].doc = evt[p].doc => o = p
  /\ \A o \in committed : o <= Latest(evt[o].doc)
  /\ \A d \in Docs : Latest(d) # 0 =>
       /\ Latest(d) \in committed
       /\ evt[Latest(d)].doc = d
       /\ evt[Latest(d)].live = source[d].live

OutboxInv ==
  /\ done \subseteq committed
  /\ \A o \in Orders : lock[o] # None => o \in committed \ done /\ attempts[o] < MaxAttempts

WorkerInv ==
  \A w \in Workers :
    /\ claim[w] \subseteq committed
    /\ left[w] \subseteq claim[w]
    /\ completed[w] \subseteq claim[w]
    /\ \A o \in left[w] : \A p \in claim[w] : evt[p].doc = evt[o].doc => p <= o
    /\ pend[w] # None => /\ pend[w].row.ver \in left[w]
                         /\ evt[pend[w].row.ver].doc = pend[w].doc

\* A row that shows some state of a document up to the snapshot s of it.
Seen(row, s) ==
  /\ row.ver <= row.rev /\ row.rev <= s.rev
  /\ row.rev = s.rev => row.live = s.live

\* A prepared write claims no more than it has seen.
WriteInv ==
  /\ \A p \in Writers : pend[p] # None => Seen(pend[p].row, source[pend[p].doc])
  /\ \A j \in EntityJobs : want[j] # None => want[j].ver <= Latest(want[j].doc)

\* The bounds a rebuild works with, and what each phase has finished.
PhaseInv ==
  /\ watermark <= cursor /\ cursor <= upper /\ upper <= lastOrder
  /\ \A o \in open : o > upper
  /\ upper \in committed \cup {0}
  /\ phase = "building" => upper = watermark
  /\ phase # "building" => unbuilt = {} /\ page = NoRows
  /\ phase # "catchup" => todo = {}
  /\ \A o \in todo : o \in committed /\ watermark < o /\ o <= cursor
  /\ \A d \in Docs : d \in unbuilt \/ page[d] # None => shadow[d] = None
  /\ \A d \in Docs : page[d] # None =>
       /\ d \notin unbuilt
       /\ page[d].live /\ page[d].rev <= Latest(d)
       /\ Latest(d) <= watermark => page[d] = source[d]

\* The row is what the last committed event of a document leaves.
Current(row, s) ==
  row # None /\ row.ver = s.rev /\ row.rev = s.rev /\ row.live = s.live

Built(d) == d \notin unbuilt /\ page[d] = None

CaughtUp(d) ==
  \/ Latest(d) <= watermark
  \/ /\ Latest(d) <= cursor
     /\ ~Quarantined(Latest(d))
     /\ \A o \in todo : evt[o].doc # d

ShadowVersions == \A d \in Docs : shadow[d] # None => shadow[d].ver <= Latest(d)

\* An event still to replay is the newest of its document up to the cursor.
TodoInv ==
  \A o \in todo : LET n == Latest(evt[o].doc) IN n = o \/ n > cursor \/ Quarantined(n)

\* The shadow row of a document whose last event was before the watermark,
\* or has been replayed.
ShadowCurrent ==
  phase # "idle" => \A d \in Docs : Built(d) /\ CaughtUp(d) =>
    \/ Current(shadow[d], source[d])
    \/ shadow[d] = None /\ ~source[d].live /\ Latest(d) <= watermark

\* A write prepared since the rebuild began does not bring back a document
\* that was deleted before.
LiveWrites ==
  phase # "idle" => \A p \in Writers \ stale : pend[p] # None =>
    LET d == pend[p].doc
    IN  Latest(d) <= watermark /\ pend[p].row.live => source[d].live

CopyInv == ShadowVersions /\ TodoInv /\ ShadowCurrent

ShadowInv == CopyInv /\ LiveWrites

\* The last change of d is processed, or written and about to be acknowledged.
Settled(d) ==
  \/ Latest(d) = 0
  \/ Latest(d) \in done
  \/ \E w \in Workers : Latest(d) \in completed[w] /\ lock[Latest(d)] = w

(***************************************************************************)
(* A settled document is shown as it is.  The index may lack a row for a   *)
(* deleted document (a rebuild makes no tombstones), and then nothing      *)
(* guards it against an old write: no live one may be on its way.          *)
(***************************************************************************)
Shown(row, d) ==
  \/ Current(row, source[d])
  \/ /\ ~source[d].live
     /\ row # None => ~row.live
     /\ \A p \in Writers : pend[p] # None /\ pend[p].doc = d => ~pend[p].row.live

ActiveInv ==
  /\ \A d \in Docs : active[d] # None => active[d].ver <= Latest(d)
  /\ \A d \in Docs : Settled(d) => Shown(active[d], d)

\* Inductive whatever the environment does ...
BaseInv == TypeOK /\ SourceInv /\ OutboxInv /\ WorkerInv /\ WriteInv /\ PhaseInv

\* ... and what rests on the two assumptions about it.
IInv == BaseInv /\ ShadowInv /\ ActiveInv

-------------------------------------------------------------------------------
\* A row that showed some state of a document still does after the document changes.
LEMMA SeenLater ==
  ASSUME NEW r \in Row, NEW s \in Snapshot, NEW t \in Snapshot,
         Seen(r, s), t = s \/ t.rev > s.rev
  PROVE  Seen(r, t)
BY MaxOrderAssumption DEF Seen, Row, Snapshot, Versions

\* What an event leaves of its document is a row no newer than the source.
LEMMA EventRowFacts ==
  ASSUME BaseInv, NEW o \in committed
  PROVE  /\ o \in Orders /\ evt[o] \in Event /\ evt[o].doc \in Docs
         /\ EventRow(o) \in Row
         /\ EventRow(o).ver = o
         /\ o <= EventRow(o).rev /\ EventRow(o).rev <= Latest(evt[o].doc)
         /\ EventRow(o).rev = Latest(evt[o].doc) => EventRow(o).live = source[evt[o].doc].live
         /\ EventRow(o).live => source[evt[o].doc].live
         /\ o = Latest(evt[o].doc) => EventRow(o).rev = o
<1> DEFINE d == evt[o].doc
<1>1. o \in Orders /\ evt[o] \in Event /\ d \in Docs /\ evt[o].live \in BOOLEAN
  BY DEF BaseInv, TypeOK, SourceInv, Event
<1>2. source[d] \in Snapshot /\ Latest(d) \in Versions /\ source[d].live \in BOOLEAN
  BY <1>1 DEF BaseInv, TypeOK, Snapshot, Latest
<1>3. o \in Versions /\ o # 0 /\ o <= Latest(d)
  BY <1>1, MaxOrderAssumption DEF BaseInv, SourceInv, Orders, Versions
<1>4. Latest(d) = o => source[d].live = evt[o].live
  BY <1>1, <1>3 DEF BaseInv, SourceInv
<1>5. CASE evt[o].live
  BY <1>1, <1>2, <1>3, <1>4, <1>5 DEF EventRow, Row, Latest, Versions, Snapshot
<1>6. CASE ~evt[o].live
  <2>1. EventRow(o) = [ver |-> o, rev |-> o, live |-> FALSE]
    BY <1>6 DEF EventRow
  <2>2. Latest(d) = o => source[d].live = FALSE
    BY <1>1, <1>2, <1>4, <1>6
  <2>3. [ver |-> o, rev |-> o, live |-> FALSE] \in Row
    BY <1>3 DEF Row
  <2>4. EventRow(o).ver = o /\ EventRow(o).rev = o /\ EventRow(o).live = FALSE
    BY <2>1
  <2>5. o <= EventRow(o).rev /\ EventRow(o).rev <= Latest(d)
    BY <1>3, <2>4, MaxOrderAssumption DEF Versions
  <2>6. EventRow(o).rev = Latest(d) => EventRow(o).live = source[d].live
    BY <2>2, <2>4
  <2> QED
    BY <1>1, <2>1, <2>3, <2>4, <2>5, <2>6
<1> QED
  BY <1>5, <1>6

\* The version gate stores one of the two rows it compares.
LEMMA GatedWriteType ==
  ASSUME NEW row \in Row \cup {None}, NEW new \in Row
  PROVE  GatedWrite(row, new) \in Row
  BY DEF GatedWrite

-------------------------------------------------------------------------------
\* Every action keeps the variables in their types (TypeOK is inductive with
\* the base invariant, which bounds attempts and orders).
LEMMA TypeStep == BaseInv /\ [Next]_vars => TypeOK'
<1> SUFFICES ASSUME BaseInv, [Next]_vars PROVE TypeOK'
  OBVIOUS
<1> USE MaxOrderAssumption, NoneAssumption, SyncAssumption
    DEF BaseInv, TypeOK, Orders, Versions, Writers, Phases,
        sourceVars, outboxVars, workerVars, writerVars, jobVars, indexVars, rebuildVars
<1>0. \A o \in committed : evt[o] \in Event /\ evt[o].doc \in Docs
  BY DEF SourceInv, Event
<1>1. ASSUME NEW d \in Docs, NEW l \in BOOLEAN, BeginSource(d, l) PROVE TypeOK'
  <2>1. lastOrder + 1 \in 1..MaxOrder /\ [doc |-> d, live |-> l] \in Event
    BY <1>1 DEF BeginSource, Event
  <2>2. /\ lastOrder' \in 0..MaxOrder /\ evt' \in [1..MaxOrder -> Event \cup {None}]
        /\ open' \subseteq 1..MaxOrder
    BY <1>1, <2>1 DEF BeginSource
  <2> QED
    BY <1>1, <2>2 DEF BeginSource
<1>2. ASSUME NEW o \in open, CommitSource(o) PROVE TypeOK'
  <2>1. evt[o].doc \in Docs /\ evt[o].live \in BOOLEAN
    BY DEF SourceInv, Event
  <2>2. source' \in [Docs -> Snapshot]
    BY <1>2, <2>1 DEF CommitSource, Snapshot
  <2> QED
    BY <1>2, <2>2 DEF CommitSource
<1>3. ASSUME NEW o \in open, AbortSource(o) PROVE TypeOK'
  BY <1>3 DEF AbortSource
<1>4. ASSUME NEW w \in Workers, NEW batch \in SUBSET (committed \ done), ClaimEvents(w, batch) PROVE TypeOK'
  <2>1. faults' \in 0..MaxFaults
    BY <1>4 DEF ClaimEvents, Fault
  <2>2. batch \subseteq Orders
    OBVIOUS
  <2>3. MergeLatest(batch, EventDoc) \subseteq Orders
    BY <2>2 DEF MergeLatest
  <2> QED
    BY <1>4, <2>1, <2>2, <2>3 DEF ClaimEvents
<1>5. ASSUME NEW w \in Workers, NEW o \in left[w], FetchForEvent(w, o) PROVE TypeOK'
  <2>1. [doc |-> evt[o].doc, row |-> EventRow(o)] \in Write
    BY EventRowFacts DEF WorkerInv, Write
  <2> QED
    BY <1>5, <2>1 DEF FetchForEvent
<1>6. ASSUME NEW w \in Workers, ApplyEvent(w) PROVE TypeOK'
  <2>1. active' \in [Docs -> Row \cup {None}]
    BY <1>6, GatedWriteType DEF ApplyEvent, WriteActive, Write
  <2> QED
    BY <1>6, <2>1 DEF ApplyEvent, ForgetWrite, EventsOf
<1>7. ASSUME NEW w \in Workers, NEW o \in left[w], NEW landed \in BOOLEAN, NEW marked \in BOOLEAN,
             FailEvent(w, o, landed, marked)
      PROVE TypeOK'
  <2>1. active' \in [Docs -> Row \cup {None}]
    <3>1. (pend[w] # None /\ WriteActive(w)) \/ active' = active
      BY <1>7 DEF FailEvent
    <3>2. CASE pend[w] # None /\ WriteActive(w)
      BY <3>2, GatedWriteType DEF WriteActive, Write
    <3> QED
      BY <3>1, <3>2
  <2> DEFINE held == IF marked THEN Held(w, EventsOf(evt[o].doc, claim[w])) ELSE {}
  <2>a. \A p \in Orders : p \in held => attempts[p] + 1 \in 0..MaxAttempts
    BY DEF OutboxInv, Held
  <2>b. attempts' = [p \in Orders |-> IF p \in held THEN attempts[p] + 1 ELSE attempts[p]]
    BY <1>7 DEF FailEvent
  <2>c. lock' = [p \in Orders |-> IF p \in held THEN None ELSE lock[p]]
    BY <1>7 DEF FailEvent
  <2>2. attempts' \in [Orders -> 0..MaxAttempts] /\ lock' \in [Orders -> Workers \cup {None}]
    <3> HIDE DEF held
    <3> QED BY <2>a, <2>b, <2>c
  <2>3. faults' \in 0..MaxFaults
    BY <1>7 DEF FailEvent, Fault
  <2> QED
    BY <1>7, <2>1, <2>2, <2>3 DEF FailEvent, ForgetWrite, EventsOf
<1>8. ASSUME NEW w \in Workers, AckEvents(w) PROVE TypeOK'
  BY <1>8 DEF AckEvents, Held
<1>9. ASSUME NEW w \in Workers, ReleaseClaim(w) PROVE TypeOK'
  <2>1. faults' \in 0..MaxFaults
    BY <1>9 DEF ReleaseClaim, Fault
  <2>2. lock' \in [Orders -> Workers \cup {None}]
    BY <1>9 DEF ReleaseClaim
  <2> QED
    BY <1>9, <2>1, <2>2 DEF ReleaseClaim, ForgetBatch
<1>10. ASSUME NEW w \in Workers, CrashWorker(w) PROVE TypeOK'
  <2>1. faults' \in 0..MaxFaults
    BY <1>10 DEF CrashWorker, Fault
  <2> QED
    BY <1>10, <2>1 DEF CrashWorker, ForgetBatch, ForgetWrite
<1>11. ASSUME NEW o \in committed, ReplayEvent(o) PROVE TypeOK'
  <2>1. faults' \in 0..MaxFaults
    BY <1>11 DEF ReplayEvent, Fault
  <2>2. attempts' \in [Orders -> 0..MaxAttempts]
    BY <1>11 DEF ReplayEvent
  <2> QED
    BY <1>11, <2>1, <2>2 DEF ReplayEvent
<1>12. ASSUME NEW j \in EntityJobs, NEW d \in Docs, NEW v \in Versions, EntityVersion(j, d, v)
       PROVE TypeOK'
  BY <1>12 DEF EntityVersion
<1>13. ASSUME NEW j \in EntityJobs, EntityFetch(j) PROVE TypeOK'
  <2>1. want[j].doc \in Docs /\ want[j].ver \in Versions
    BY <1>13 DEF EntityFetch
  <2>2. [doc |-> want[j].doc, row |-> [ver |-> want[j].ver, rev |-> source[want[j].doc].rev,
                                       live |-> source[want[j].doc].live]] \in Write
    BY <2>1 DEF Write, Row, Snapshot
  <2> QED
    BY <1>13, <2>2 DEF EntityFetch
<1>14. ASSUME NEW j \in EntityJobs, EntityWrite(j) PROVE TypeOK'
  <2>1. active' \in [Docs -> Row \cup {None}]
    BY <1>14, GatedWriteType DEF EntityWrite, WriteActive, Write
  <2> QED
    BY <1>14, <2>1 DEF EntityWrite, ForgetWrite
<1>15. ASSUME NEW m \in Versions, StartRebuild(m) PROVE TypeOK'
  BY <1>15 DEF StartRebuild, NoRows
<1>16. ASSUME NEW S \in SUBSET unbuilt, BuildRead(S) PROVE TypeOK'
  BY <1>16 DEF BuildRead
<1>17. ASSUME NEW v \in [Docs -> Versions], BuildStore(v) PROVE TypeOK'
  <2>1. \A d \in Docs : page[d] # None => [ver |-> v[d], rev |-> page[d].rev, live |-> TRUE] \in Row
    BY DEF Row, Snapshot
  <2>2. shadow' \in [Docs -> Row \cup {None}]
    BY <1>17, <2>1, GatedWriteType DEF BuildStore
  <2> QED
    BY <1>17, <2>2 DEF BuildStore, NoRows
<1>18. ASSUME NEW m \in Versions, StartCatchUp(m) PROVE TypeOK'
  BY <1>18 DEF StartCatchUp
<1>19. ASSUME NEW last \in committed, CatchUpPage(last) PROVE TypeOK'
  <2>1. todo' \subseteq Orders
    BY <1>19 DEF CatchUpPage, MergeLatest, EventsAfter
  <2>2. cursor' \in 0..MaxOrder
    BY <1>19 DEF CatchUpPage
  <2> QED
    BY <1>19, <2>1, <2>2 DEF CatchUpPage
<1>20. ASSUME NEW o \in todo, CatchUpApply(o) PROVE TypeOK'
  <2>1. shadow' \in [Docs -> Row \cup {None}]
    BY <1>20, EventRowFacts, GatedWriteType DEF CatchUpApply, PhaseInv
  <2> QED
    BY <1>20, <2>1 DEF CatchUpApply
<1>21. ASSUME CatchUpDone PROVE TypeOK'
  BY <1>21 DEF CatchUpDone
<1>22. ASSUME NEW m \in Versions, Activate(m) PROVE TypeOK'
  <2> DEFINE events == EventsAfter(cursor, m)
  <2>1. \A o \in MergeLatest(events, EventDoc) : EventRow(o) \in Row
    BY EventRowFacts DEF MergeLatest, EventsAfter
  <2>2. \A d \in Docs : WithTail(events)[d] \in Row \cup {None}
    BY <2>1, GatedWriteType DEF WithTail, EventsOf
  <2>3. active' \in [Docs -> Row \cup {None}]
    BY <1>22, <2>2 DEF Activate, WithTail
  <2> QED
    BY <1>22, <2>3 DEF Activate, EndRebuild, NoRows
<1>23. ASSUME NEW m \in Versions, DeferActivation(m) PROVE TypeOK'
  BY <1>23 DEF DeferActivation
<1>24. ASSUME FailRebuild PROVE TypeOK'
  BY <1>24 DEF FailRebuild, EndRebuild, NoRows, Fault
<1>25. CASE UNCHANGED vars
  BY <1>25 DEF vars
<1> HIDE DEF BaseInv, TypeOK, Orders, Versions, Writers, Phases
<1>26. CASE SourceStep
  BY <1>1, <1>2, <1>3, <1>26 DEF SourceStep
<1>27. ASSUME NEW w \in Workers, WorkerStep(w) PROVE TypeOK'
  BY <1>4, <1>5, <1>6, <1>8, <1>9, <1>27 DEF WorkerStep
<1>28. ASSUME NEW w \in Workers, WorkerFault(w) PROVE TypeOK'
  BY <1>7, <1>10, <1>28 DEF WorkerFault
<1>29. ASSUME NEW j \in EntityJobs, JobStep(j) PROVE TypeOK'
  BY <1>12, <1>13, <1>14, <1>29 DEF JobStep
<1>30. CASE RebuildStep
  BY <1>16, <1>17, <1>18, <1>19, <1>20, <1>21, <1>22, <1>23, <1>30 DEF RebuildStep
<1> QED
  BY <1>11, <1>15, <1>24, <1>25, <1>26, <1>27, <1>28, <1>29, <1>30 DEF Next, Resting

-------------------------------------------------------------------------------
(***************************************************************************)
(* What the steps of each process leave alone.                             *)
(***************************************************************************)
LEMMA WorkerFrame ==
  ASSUME NEW w \in Workers, WorkerStep(w) \/ WorkerFault(w)
  PROVE  UNCHANGED <<sourceVars, jobVars, gen, rebuildVars>>
<1>1. CASE WorkerStep(w)
  BY <1>1 DEF WorkerStep, ClaimEvents, FetchForEvent, ApplyEvent, AckEvents, ReleaseClaim,
              indexVars
<1>2. CASE WorkerFault(w)
  <2>1. ASSUME NEW o \in left[w], NEW landed, NEW marked, FailEvent(w, o, landed, marked)
        PROVE  UNCHANGED <<sourceVars, jobVars, gen, rebuildVars>>
    BY <2>1 DEF FailEvent
  <2>2. CASE CrashWorker(w)
    BY <2>2 DEF CrashWorker, indexVars
  <2> QED
    BY <1>2, <2>1, <2>2 DEF WorkerFault
<1> QED
  BY <1>1, <1>2

\* Entity jobs touch no outbox, worker, source or rebuild state.
LEMMA JobFrame ==
  ASSUME NEW j \in EntityJobs, JobStep(j)
  PROVE  UNCHANGED <<sourceVars, outboxVars, workerVars, gen, rebuildVars>>
BY DEF JobStep, EntityVersion, EntityFetch, EntityWrite, indexVars

\* A full rebuild touches no source, outbox, worker or job state and no prepared write.
LEMMA RebuildFrame ==
  ASSUME RebuildStep \/ FailRebuild \/ \E m \in Versions : StartRebuild(m)
  PROVE  UNCHANGED <<sourceVars, outboxVars, workerVars, pend, jobVars>>
<1>1. CASE RebuildStep
  BY <1>1 DEF RebuildStep, BuildRead, BuildStore, StartCatchUp, CatchUpPage, CatchUpApply,
              CatchUpDone, Activate, DeferActivation, writerVars
<1>2. CASE FailRebuild \/ \E m \in Versions : StartRebuild(m)
  BY <1>2 DEF FailRebuild, StartRebuild
<1> QED
  BY <1>1, <1>2

\* Source transactions touch nothing but the main database.
LEMMA SourceFrame ==
  ASSUME SourceStep
  PROVE  UNCHANGED <<outboxVars, workerVars, writerVars, jobVars, indexVars, rebuildVars>>
<1>1. \A d \in Docs : \A l : BeginSource(d, l) =>
        UNCHANGED <<outboxVars, workerVars, writerVars, jobVars, indexVars, rebuildVars>>
  BY DEF BeginSource
<1> QED
  BY <1>1 DEF SourceStep, CommitSource, AbortSource

\* An operator's replay resets an attempts counter and nothing else.
LEMMA ReplayFrame ==
  ASSUME NEW o \in committed, ReplayEvent(o)
  PROVE  UNCHANGED <<sourceVars, done, lock, workerVars, writerVars, jobVars, indexVars, rebuildVars>>
BY DEF ReplayEvent

\* The steps of a batch that leave the outbox alone.
FetchOrApply(w) == (\E o \in left[w] : FetchForEvent(w, o)) \/ ApplyEvent(w)

-------------------------------------------------------------------------------
\* Events, sequence and documents of the main database stay consistent.
LEMMA SourceStepInv == BaseInv /\ [Next]_vars => SourceInv'
<1> SUFFICES ASSUME BaseInv, [Next]_vars PROVE SourceInv'
  OBVIOUS
<1> USE MaxOrderAssumption, NoneAssumption DEF Orders, Versions
<1>a. /\ source \in [Docs -> Snapshot] /\ evt \in [Orders -> Event \cup {None}]
      /\ open \subseteq Orders /\ committed \subseteq Orders /\ lastOrder \in Nat
  BY DEF BaseInv, TypeOK
<1>b. SourceInv
  BY DEF BaseInv
<1>c. \A d \in Docs : Latest(d) \in Nat
  BY <1>a DEF Latest, Snapshot
<1>1. ASSUME NEW d \in Docs, NEW l \in BOOLEAN, BeginSource(d, l) PROVE SourceInv'
  <2> DEFINE n == lastOrder + 1
  <2>1. /\ n \in Orders /\ lastOrder < n /\ lastOrder' = n
        /\ source' = source /\ committed' = committed /\ open' = open \cup {n}
        /\ evt' = [evt EXCEPT ![n] = [doc |-> d, live |-> l]]
    BY <1>1, <1>a DEF BeginSource
  <2>2. \A o \in open \cup committed : o \in Orders /\ o < n
    BY <1>a, <1>b DEF SourceInv
  <2>3. \A o \in open \cup committed : evt'[o] = evt[o]
    BY <1>a, <2>1, <2>2
  <2>4. evt'[n] = [doc |-> d, live |-> l] /\ evt'[n] # None
    BY <1>a, <2>1 DEF Event
  <2>5. \A e \in Docs : Latest(e)' = Latest(e) /\ Latest(e) < n
    BY <1>a, <1>b, <1>c, <2>1, <2>2 DEF SourceInv, Latest
  <2>6. \A o \in open : evt[o].doc # d
    BY <1>1 DEF BeginSource
  <2>7. \A o \in open \cup committed : evt[o].doc \in Docs
    BY <1>a, <1>b DEF SourceInv, Event
  <2> HIDE DEF n
  <2>8. (open \cap committed = {})' /\ \A o \in open' \cup committed' : o <= lastOrder' /\ evt'[o] # None
    BY <1>a, <1>b, <2>1, <2>2, <2>3, <2>4 DEF SourceInv
  <2>9. \A o \in open' : o > source'[evt'[o].doc].rev
    BY <1>a, <1>b, <2>1, <2>2, <2>3, <2>4, <2>5, <2>7 DEF SourceInv, Latest
  <2>10. \A o, p \in open' : evt'[o].doc = evt'[p].doc => o = p
    BY <1>b, <2>1, <2>2, <2>3, <2>4, <2>6 DEF SourceInv
  <2>11. \A o \in committed' : o <= source'[evt'[o].doc].rev
    BY <1>b, <2>1, <2>3, <2>5, <2>7 DEF SourceInv, Latest
  <2>12. \A e \in Docs : Latest(e)' # 0 =>
           Latest(e)' \in committed' /\ evt'[Latest(e)'].doc = e
             /\ evt'[Latest(e)'].live = source'[e].live
    BY <1>b, <2>1, <2>3, <2>5 DEF SourceInv
  <2> QED
    BY <2>8, <2>9, <2>10, <2>11, <2>12 DEF SourceInv, Latest
<1>2. ASSUME NEW o \in open, CommitSource(o) PROVE SourceInv'
  <2> DEFINE d == evt[o].doc
  <2>1. d \in Docs /\ o \in Orders /\ o # 0 /\ o \notin committed
    BY <1>a, <1>b DEF SourceInv, Event
  <2>2. /\ lastOrder' = lastOrder /\ evt' = evt
        /\ open' = open \ {o} /\ committed' = committed \cup {o}
        /\ source' = [source EXCEPT ![d] = [rev |-> o, live |-> evt[o].live]]
    BY <1>2 DEF CommitSource
  <2>3. source'[d].rev = o /\ source'[d].live = evt[o].live
    BY <1>a, <2>1, <2>2 DEF Latest
  <2>4. \A e \in Docs : e # d => source'[e] = source[e] /\ Latest(e)' = Latest(e)
    BY <1>a, <2>2 DEF Latest
  <2>5. Latest(d) < o
    BY <1>a, <1>b, <1>c, <2>1 DEF SourceInv
  <2>6. \A p \in open \cup committed : evt[p].doc \in Docs
    BY <1>a, <1>b DEF SourceInv, Event
  <2>7. \A p \in open' : evt[p].doc # d
    BY <1>b, <2>2 DEF SourceInv
  <2> HIDE DEF d
  <2>8. \A p \in open' : p > source'[evt'[p].doc].rev
    BY <1>b, <2>2, <2>4, <2>6, <2>7 DEF SourceInv, Latest
  <2>9. \A p \in committed' : p <= source'[evt'[p].doc].rev
    <3>1. \A p \in committed : p <= Latest(evt[p].doc)
      BY <1>b DEF SourceInv
    <3>2. \A p \in committed : p <= source'[evt[p].doc].rev
      <4> TAKE p \in committed
      <4>1. p \in Nat /\ o \in Nat /\ evt[p].doc \in Docs
        BY <1>a, <2>1, <2>6
      <4>2. CASE evt[p].doc = d
        <5>1. p <= Latest(d) /\ Latest(d) \in Nat
          BY <4>2, <1>c, <2>1, <3>1
        <5>2. p <= o
          BY <4>1, <5>1, <2>5
        <5> QED
          BY <5>2, <4>2, <2>3 DEF Latest
      <4>3. CASE evt[p].doc # d
        BY <4>1, <4>3, <2>4, <3>1 DEF Latest
      <4> QED
        BY <4>2, <4>3
    <3> QED
      BY <1>a, <2>1, <2>2, <2>3, <3>2 DEF d, Latest
  <2>10. \A e \in Docs : Latest(e)' # 0 =>
           Latest(e)' \in committed' /\ evt'[Latest(e)'].doc = e
             /\ evt'[Latest(e)'].live = source'[e].live
    <3> TAKE e \in Docs
    <3>1. CASE e = d
      BY <3>1, <2>1, <2>2, <2>3 DEF d, Latest
    <3>2. CASE e # d
      BY <3>2, <1>b, <2>2, <2>4 DEF SourceInv, Latest
    <3> QED
      BY <3>1, <3>2
  <2>11. /\ (open \cap committed = {})'
         /\ \A p \in open' \cup committed' : p <= lastOrder' /\ evt'[p] # None
         /\ \A p, q \in open' : evt'[p].doc = evt'[q].doc => p = q
    BY <1>b, <2>2 DEF SourceInv
  <2> QED
    BY <2>8, <2>9, <2>10, <2>11 DEF SourceInv, Latest
<1>3. ASSUME NEW o \in open, AbortSource(o) PROVE SourceInv'
  BY <1>3, <1>b DEF AbortSource, SourceInv, Latest
<1>4. CASE UNCHANGED sourceVars
  BY <1>4, <1>b DEF sourceVars, SourceInv, Latest
<1>5. CASE SourceStep
  BY <1>1, <1>2, <1>3, <1>5 DEF SourceStep
<1>6. UNCHANGED vars \/ Resting => UNCHANGED sourceVars
  BY DEF vars, Resting
<1> QED
  BY <1>4, <1>5, <1>6, WorkerFrame, JobFrame, RebuildFrame, ReplayFrame DEF Next

\* processed_at, attempts and leases stay consistent with the events.
LEMMA OutboxStepInv == BaseInv /\ [Next]_vars => OutboxInv'
<1> SUFFICES ASSUME BaseInv, [Next]_vars PROVE OutboxInv'
  OBVIOUS
<1> USE NoneAssumption, SyncAssumption
<1>a. /\ attempts \in [Orders -> 0..MaxAttempts] /\ lock \in [Orders -> Workers \cup {None}]
      /\ committed \subseteq Orders /\ claim \in [Workers -> SUBSET Orders]
      /\ completed \in [Workers -> SUBSET Orders]
  BY DEF BaseInv, TypeOK
<1>b. OutboxInv /\ WorkerInv
  BY DEF BaseInv
<1>1. CASE SourceStep
  <2>1. committed \subseteq committed'
    <3>1. \A d \in Docs : \A l : BeginSource(d, l) => committed' = committed
      BY DEF BeginSource
    <3> QED
      BY <1>1, <3>1 DEF SourceStep, CommitSource, AbortSource
  <2> QED
    BY <1>1, <1>b, <2>1, SourceFrame DEF OutboxInv, outboxVars
<1>2. ASSUME NEW w \in Workers, NEW batch \in SUBSET (committed \ done), ClaimEvents(w, batch)
      PROVE  OutboxInv'
  <2>1. \A o \in batch : o \in committed \ done /\ attempts[o] < MaxAttempts
    BY <1>2 DEF ClaimEvents
  <2>2. /\ lock' = [o \in Orders |-> IF o \in batch THEN w ELSE lock[o]]
        /\ done' = done /\ attempts' = attempts /\ committed' = committed
    BY <1>2 DEF ClaimEvents, sourceVars
  <2> QED
    BY <1>b, <2>1, <2>2 DEF OutboxInv
<1>3. ASSUME NEW w \in Workers, NEW o \in left[w], NEW landed \in BOOLEAN, NEW marked \in BOOLEAN,
             FailEvent(w, o, landed, marked)
      PROVE  OutboxInv'
  <2> DEFINE held == IF marked THEN Held(w, EventsOf(evt[o].doc, claim[w])) ELSE {}
  <2>1. /\ attempts' = [p \in Orders |-> IF p \in held THEN attempts[p] + 1 ELSE attempts[p]]
        /\ lock' = [p \in Orders |-> IF p \in held THEN None ELSE lock[p]]
        /\ done' = done /\ committed' = committed
    BY <1>3 DEF FailEvent, sourceVars
  <2> HIDE DEF held
  <2> QED
    BY <1>b, <2>1 DEF OutboxInv
<1>4. ASSUME NEW w \in Workers, AckEvents(w) PROVE OutboxInv'
  <2> DEFINE held == Held(w, completed[w])
  <2>1. /\ done' = done \cup held /\ attempts' = attempts /\ committed' = committed
        /\ lock' = [o \in Orders |-> IF o \in held THEN None ELSE lock[o]]
    BY <1>4 DEF AckEvents, sourceVars
  <2>2. held \subseteq committed
    BY <1>b DEF WorkerInv, Held
  <2> HIDE DEF held
  <2> QED
    BY <1>b, <2>1, <2>2 DEF OutboxInv
<1>5. ASSUME NEW w \in Workers, ReleaseClaim(w) PROVE OutboxInv'
  BY <1>5, <1>b DEF ReleaseClaim, OutboxInv, sourceVars
<1>6. ASSUME NEW o \in committed, ReplayEvent(o) PROVE OutboxInv'
  <2>1. attempts' = [attempts EXCEPT ![o] = 0] /\ UNCHANGED <<committed, done, lock>>
    BY <1>6 DEF ReplayEvent, sourceVars
  <2> QED
    BY <1>a, <1>b, <2>1 DEF OutboxInv
<1>7. CASE UNCHANGED <<committed, outboxVars>>
  BY <1>7, <1>b DEF OutboxInv, outboxVars
<1>8. ASSUME NEW w \in Workers, WorkerStep(w) PROVE OutboxInv'
  <2>1. FetchOrApply(w) => UNCHANGED <<committed, outboxVars>>
    BY DEF FetchOrApply, FetchForEvent, ApplyEvent, sourceVars
  <2> QED
    BY <1>2, <1>4, <1>5, <1>7, <1>8, <2>1 DEF WorkerStep, FetchOrApply
<1>9. ASSUME NEW w \in Workers, WorkerFault(w) PROVE OutboxInv'
  <2>1. CrashWorker(w) => UNCHANGED <<committed, outboxVars>>
    BY DEF CrashWorker, sourceVars
  <2> QED
    BY <1>3, <1>7, <1>9, <2>1 DEF WorkerFault
<1>10. UNCHANGED vars \/ Resting => UNCHANGED <<committed, outboxVars>>
  BY DEF vars, Resting, sourceVars
<1>11. UNCHANGED <<sourceVars, outboxVars>> => UNCHANGED <<committed, outboxVars>>
  BY DEF sourceVars
<1> QED
  BY <1>1, <1>6, <1>7, <1>8, <1>9, <1>10, <1>11, JobFrame, RebuildFrame DEF Next

(***************************************************************************)
(* Source transactions only add history: committed events stay as they     *)
(* are, and a document changes by an event that was still in flight.       *)
(***************************************************************************)
Grows ==
  /\ committed \subseteq committed'
  /\ \A o \in committed : evt'[o] = evt[o]
  /\ \A d \in Docs : \/ source'[d] = source[d]
                     \/ source'[d].rev \in open /\ source'[d].rev > Latest(d)

\* Committed events, and the events processed, are never taken back.
LEMMA HistoryGrows ==
  ASSUME BaseInv, [Next]_vars
  PROVE  Grows
<1>a. /\ source \in [Docs -> Snapshot] /\ evt \in [Orders -> Event \cup {None}]
      /\ open \subseteq Orders /\ committed \subseteq Orders /\ lastOrder \in Nat
  BY MaxOrderAssumption DEF BaseInv, TypeOK, Versions
<1>b. SourceInv
  BY DEF BaseInv
<1>1. ASSUME NEW d \in Docs, NEW l, BeginSource(d, l) PROVE Grows
  <2>1. \A o \in committed : o \in Orders /\ o # lastOrder + 1
    BY <1>a, <1>b, MaxOrderAssumption DEF SourceInv, Orders
  <2>2. /\ evt' = [evt EXCEPT ![lastOrder + 1] = [doc |-> d, live |-> l]]
        /\ source' = source /\ committed' = committed
    BY <1>1 DEF BeginSource
  <2> QED
    BY <1>a, <2>1, <2>2 DEF Grows
<1>2. ASSUME NEW o \in open, CommitSource(o) PROVE Grows
  <2>1. /\ source' = [source EXCEPT ![evt[o].doc] = [rev |-> o, live |-> evt[o].live]]
        /\ evt' = evt /\ committed' = committed \cup {o}
    BY <1>2 DEF CommitSource
  <2>2. evt[o].doc \in Docs /\ o > Latest(evt[o].doc)
    BY <1>a, <1>b DEF SourceInv, Event
  <2> QED
    BY <1>a, <2>1, <2>2 DEF Grows
<1>3. UNCHANGED <<committed, evt, source>> => Grows
  BY DEF Grows
<1>4. CASE SourceStep
  <2>1. \A o \in open : AbortSource(o) => Grows
    BY <1>3 DEF AbortSource
  <2> QED
    BY <1>1, <1>2, <1>4, <2>1 DEF SourceStep
<1>5. UNCHANGED sourceVars => Grows
  BY <1>3 DEF sourceVars
<1>6. UNCHANGED vars \/ Resting => UNCHANGED sourceVars
  BY DEF vars, Resting
<1> QED
  BY <1>4, <1>5, <1>6, WorkerFrame, JobFrame, RebuildFrame, ReplayFrame DEF Next

\* A worker's memory stays consistent with the outbox it was read from.
LEMMA WorkerStepInv == BaseInv /\ [Next]_vars => WorkerInv'
<1> SUFFICES ASSUME BaseInv, [Next]_vars PROVE WorkerInv'
  OBVIOUS
<1> USE NoneAssumption, SyncAssumption
<1>a. /\ claim \in [Workers -> SUBSET Orders] /\ left \in [Workers -> SUBSET Orders]
      /\ completed \in [Workers -> SUBSET Orders] /\ committed \subseteq Orders
      /\ pend \in [Writers -> Write \cup {None}] /\ Workers \subseteq Writers
  BY DEF BaseInv, TypeOK, Writers
<1>b. WorkerInv
  BY DEF BaseInv
<1>c. committed \subseteq committed' /\ \A o \in committed : evt'[o] = evt[o]
  BY HistoryGrows DEF Grows
<1> DEFINE Inv(w) ==
      /\ claim[w] \subseteq committed
      /\ left[w] \subseteq claim[w]
      /\ completed[w] \subseteq claim[w]
      /\ \A o \in left[w] : \A p \in claim[w] : evt[p].doc = evt[o].doc => p <= o
      /\ pend[w] # None => /\ pend[w].row.ver \in left[w]
                           /\ evt[pend[w].row.ver].doc = pend[w].doc
<1>d. \A w \in Workers : Inv(w)
  BY <1>b DEF WorkerInv
\* A worker none of whose own state changes keeps its part of the invariant.
<1>e. ASSUME NEW w \in Workers, claim'[w] = claim[w], left'[w] = left[w],
             completed'[w] = completed[w], pend'[w] = pend[w]
      PROVE  Inv(w)'
  BY <1>c, <1>d, <1>e
<1>f. (\A w \in Workers : Inv(w)') => WorkerInv'
  BY DEF WorkerInv
<1>1. CASE UNCHANGED <<workerVars, pend>>
  BY <1>1, <1>e, <1>f DEF workerVars
<1>2. ASSUME NEW w \in Workers, NEW batch \in SUBSET (committed \ done), ClaimEvents(w, batch)
      PROVE  WorkerInv'
  <2>1. pend[w] = None /\ completed[w] = {}
    BY <1>2, <1>d DEF ClaimEvents
  <2>2. /\ claim' = [claim EXCEPT ![w] = batch] /\ completed' = completed
        /\ left' = [left EXCEPT ![w] = MergeLatest(batch, EventDoc)]
        /\ pend' = pend /\ evt' = evt /\ committed' = committed
    BY <1>2 DEF ClaimEvents, writerVars, sourceVars
  <2>3. batch \subseteq committed /\ batch \subseteq Orders
    BY <1>a
  <2>4. \A o \in batch : EventDoc[o] = evt[o].doc
    <3>1. \A o \in batch : evt[o] # None
      BY <2>3 DEF BaseInv, SourceInv
    <3> QED
      BY <2>3, <3>1 DEF EventDoc
  <2>5. MergeLatest(batch, EventDoc) \subseteq batch
    BY DEF MergeLatest
  <2>6. \A o \in MergeLatest(batch, EventDoc) : \A p \in batch : evt[p].doc = evt[o].doc => p <= o
    BY <2>4 DEF MergeLatest
  <2>7. Inv(w)'
    BY <1>a, <2>1, <2>2, <2>3, <2>5, <2>6
  <2>8. \A v \in Workers : v # w => Inv(v)'
    BY <1>a, <1>e, <2>2
  <2> QED
    BY <1>f, <2>7, <2>8
<1>3. ASSUME NEW w \in Workers, NEW o \in left[w], FetchForEvent(w, o) PROVE WorkerInv'
  <2>1. /\ pend' = [pend EXCEPT ![w] = [doc |-> evt[o].doc, row |-> EventRow(o)]]
        /\ UNCHANGED <<claim, left, completed, evt, committed>>
    BY <1>3 DEF FetchForEvent, workerVars, sourceVars
  <2>2. EventRow(o).ver = o
    BY <1>d, EventRowFacts
  <2>3. Inv(w)'
    BY <1>a, <1>d, <2>1, <2>2
  <2>4. \A v \in Workers : v # w => Inv(v)'
    BY <1>a, <1>e, <2>1
  <2> QED
    BY <1>f, <2>3, <2>4
\* Forgetting the write and dropping events from a batch.
<1>4. ASSUME NEW w \in Workers,
             \A v \in Workers : v # w =>
               /\ claim'[v] = claim[v] /\ left'[v] = left[v] /\ completed'[v] = completed[v]
               /\ pend'[v] = pend[v],
             pend'[w] = None, claim'[w] \in {claim[w], {}}, left'[w] \subseteq left[w],
             completed'[w] \subseteq claim'[w], left'[w] \subseteq claim'[w]
      PROVE  WorkerInv'
  <2>1. Inv(w)'
    BY <1>a, <1>c, <1>d, <1>4
  <2> QED
    BY <1>e, <1>f, <1>4, <2>1
<1>5. ASSUME NEW w \in Workers, ApplyEvent(w) PROVE WorkerInv'
  <2>1. /\ completed' = [completed EXCEPT ![w] = @ \cup EventsOf(pend[w].doc, claim[w])]
        /\ left' = [left EXCEPT ![w] = @ \ EventsOf(pend[w].doc, claim[w])]
        /\ pend' = [pend EXCEPT ![w] = None] /\ claim' = claim
    BY <1>5 DEF ApplyEvent, ForgetWrite
  <2>2. EventsOf(pend[w].doc, claim[w]) \subseteq claim[w]
    BY DEF EventsOf
  <2> QED
    BY <1>4, <1>a, <1>d, <2>1, <2>2
<1>6. ASSUME NEW w \in Workers, NEW o \in left[w], NEW landed \in BOOLEAN, NEW marked \in BOOLEAN,
             FailEvent(w, o, landed, marked)
      PROVE  WorkerInv'
  <2>1. /\ left' = [left EXCEPT ![w] = @ \ {o}]
        /\ pend' = [pend EXCEPT ![w] = None] /\ claim' = claim /\ completed' = completed
    BY <1>6 DEF FailEvent, ForgetWrite
  <2> QED
    BY <1>4, <1>a, <1>d, <2>1
<1>7. ASSUME NEW w \in Workers, AckEvents(w) PROVE WorkerInv'
  <2>1. /\ completed' = [completed EXCEPT ![w] = {}]
        /\ UNCHANGED <<claim, left, pend>> /\ left[w] = {}
    BY <1>7 DEF AckEvents, writerVars
  <2>2. pend[w] = None
    BY <1>d, <2>1
  <2> QED
    BY <1>4, <1>a, <1>d, <2>1, <2>2
<1>8. ASSUME NEW w \in Workers, ReleaseClaim(w) \/ CrashWorker(w) PROVE WorkerInv'
  <2>1. /\ claim' = [claim EXCEPT ![w] = {}] /\ left' = [left EXCEPT ![w] = {}]
        /\ completed' = [completed EXCEPT ![w] = {}]
    BY <1>8 DEF ReleaseClaim, CrashWorker, ForgetBatch
  <2>2. pend' = [pend EXCEPT ![w] = None]
    BY <1>8, <1>a DEF ReleaseClaim, CrashWorker, ForgetWrite, writerVars
  <2> QED
    BY <1>4, <1>a, <1>d, <2>1, <2>2
<1>9. ASSUME NEW j \in EntityJobs, JobStep(j) PROVE WorkerInv'
  <2>1. \A w \in Workers : pend'[w] = pend[w]
    BY <1>9, <1>a DEF JobStep, EntityVersion, EntityFetch, EntityWrite, ForgetWrite, writerVars
  <2> QED
    BY <1>e, <1>f, <1>9, <2>1, JobFrame DEF workerVars
<1>10. ASSUME NEW w \in Workers, WorkerStep(w) PROVE WorkerInv'
  BY <1>2, <1>3, <1>5, <1>7, <1>8, <1>10 DEF WorkerStep
<1>11. ASSUME NEW w \in Workers, WorkerFault(w) PROVE WorkerInv'
  BY <1>6, <1>8, <1>11 DEF WorkerFault
<1>12. UNCHANGED vars \/ Resting => UNCHANGED <<workerVars, pend>>
  BY DEF vars, Resting, writerVars
<1>13. UNCHANGED <<workerVars, writerVars>> => UNCHANGED <<workerVars, pend>>
  BY DEF writerVars
<1> QED
  BY <1>1, <1>9, <1>10, <1>11, <1>12, <1>13, RebuildFrame, SourceFrame, ReplayFrame DEF Next

\* Every row, stored or prepared, shows some committed state of its document.
LEMMA WriteStepInv == BaseInv /\ [Next]_vars => WriteInv'
<1> SUFFICES ASSUME BaseInv, [Next]_vars PROVE WriteInv'
  OBVIOUS
<1> USE NoneAssumption
<1>a. /\ source \in [Docs -> Snapshot] /\ pend \in [Writers -> Write \cup {None}]
      /\ want \in [EntityJobs -> [doc : Docs, ver : Versions] \cup {None}]
      /\ Workers \subseteq Writers /\ EntityJobs \subseteq Writers
  BY DEF BaseInv, TypeOK, Writers
<1>b. WriteInv
  BY DEF BaseInv
<1>c. source' \in [Docs -> Snapshot]
  BY TypeStep DEF TypeOK
<1>d. \A d \in Docs : source'[d] = source[d] \/ source'[d].rev > source[d].rev
  BY HistoryGrows DEF Grows, Latest
<1>e. \A p \in Writers : pend[p] # None => Seen(pend[p].row, source'[pend[p].doc])
  <2> SUFFICES ASSUME NEW p \in Writers, pend[p] # None
               PROVE  Seen(pend[p].row, source'[pend[p].doc])
    OBVIOUS
  <2>1. pend[p].row \in Row /\ pend[p].doc \in Docs
    BY <1>a DEF Write
  <2> QED
    BY <1>a, <1>b, <1>c, <1>d, <2>1, SeenLater DEF WriteInv
<1>f. \A j \in EntityJobs : want[j] # None => want[j].ver <= source'[want[j].doc].rev
  <2> SUFFICES ASSUME NEW j \in EntityJobs, want[j] # None
               PROVE  want[j].ver <= source'[want[j].doc].rev
    OBVIOUS
  <2>1. want[j].doc \in Docs /\ want[j].ver \in Int
    BY <1>a, MaxOrderAssumption DEF Versions
  <2>2. source[want[j].doc].rev \in Int /\ source'[want[j].doc].rev \in Int
    BY <1>a, <1>c, <2>1, MaxOrderAssumption DEF Versions, Snapshot
  <2> QED
    BY <1>b, <1>d, <2>1, <2>2 DEF WriteInv, Latest
\* The writes and the jobs' versions that are not new.
<1>1. ASSUME \A p \in Writers : pend'[p] \in {pend[p], None}, want' = want
      PROVE  WriteInv'
  BY <1>1, <1>e, <1>f DEF WriteInv, Latest
<1>2. ASSUME NEW w \in Workers, NEW o \in left[w], FetchForEvent(w, o) PROVE WriteInv'
  <2>1. /\ pend' = [pend EXCEPT ![w] = [doc |-> evt[o].doc, row |-> EventRow(o)]]
        /\ source' = source /\ want' = want
    BY <1>2 DEF FetchForEvent, sourceVars, jobVars
  <2>2. o \in committed
    BY DEF BaseInv, WorkerInv
  <2>3. Seen(EventRow(o), source[evt[o].doc])
    BY <2>2, EventRowFacts DEF Seen, Latest
  <2> QED
    BY <1>a, <1>b, <2>1, <2>3 DEF WriteInv, Latest
<1>3. ASSUME NEW j \in EntityJobs, EntityFetch(j) PROVE WriteInv'
  <2> DEFINE d == want[j].doc
             r == [ver |-> want[j].ver, rev |-> source[d].rev, live |-> source[d].live]
  <2>1. /\ pend' = [pend EXCEPT ![j] = [doc |-> d, row |-> r]]
        /\ source' = source /\ want' = want /\ want[j] # None
    BY <1>3 DEF EntityFetch, sourceVars, jobVars
  <2>2. source[d].rev \in Int
    BY <1>a, <2>1, MaxOrderAssumption DEF Snapshot, Versions
  <2>3. Seen(r, source[d])
    BY <1>b, <2>1, <2>2 DEF WriteInv, Seen, Latest
  <2> HIDE DEF r
  <2> QED
    BY <1>a, <1>b, <2>1, <2>3 DEF WriteInv, Latest
<1>4. ASSUME NEW j \in EntityJobs, NEW d \in Docs, NEW v \in Versions, EntityVersion(j, d, v)
      PROVE  WriteInv'
  <2>1. /\ want' = [want EXCEPT ![j] = [doc |-> d, ver |-> v]]
        /\ source' = source /\ pend' = pend /\ IsHighest(v, EventsOf(d, committed))
    BY <1>4 DEF EntityVersion, sourceVars, writerVars
  <2>2. v <= source[d].rev
    BY <1>a, <2>1, MaxOrderAssumption
    DEF IsHighest, EventsOf, BaseInv, SourceInv, Latest, Snapshot, Versions
  <2> QED
    BY <1>a, <1>b, <2>1, <2>2 DEF WriteInv, Latest
<1>5. ASSUME NEW j \in EntityJobs, EntityWrite(j) PROVE WriteInv'
  BY <1>1, <1>5, <1>a DEF EntityWrite, ForgetWrite
<1>6. ASSUME NEW w \in Workers, WorkerStep(w) PROVE WriteInv'
  <2>1. ASSUME NEW batch, ClaimEvents(w, batch) PROVE UNCHANGED <<pend, want>>
    BY <2>1 DEF ClaimEvents, writerVars, jobVars
  <2>2. CASE AckEvents(w) \/ ReleaseClaim(w)
    BY <2>2, <1>1 DEF AckEvents, ReleaseClaim, writerVars, jobVars
  <2>3. CASE ApplyEvent(w)
    BY <2>3, <1>1, <1>a DEF ApplyEvent, ForgetWrite, jobVars
  <2> QED
    BY <1>1, <1>2, <1>6, <2>1, <2>2, <2>3 DEF WorkerStep
<1>7. ASSUME NEW w \in Workers, WorkerFault(w) PROVE WriteInv'
  <2>1. ASSUME NEW o, NEW landed, NEW marked, FailEvent(w, o, landed, marked)
        PROVE  pend' = [pend EXCEPT ![w] = None] /\ want' = want
    BY <2>1 DEF FailEvent, ForgetWrite, jobVars
  <2>2. CrashWorker(w) => pend' = [pend EXCEPT ![w] = None] /\ want' = want
    BY DEF CrashWorker, ForgetWrite, jobVars
  <2>3. pend' = [pend EXCEPT ![w] = None] /\ want' = want
    BY <1>7, <2>1, <2>2 DEF WorkerFault
  <2> QED
    BY <1>1, <1>a, <2>3
<1>8. ASSUME NEW j \in EntityJobs, JobStep(j) PROVE WriteInv'
  BY <1>3, <1>4, <1>5, <1>8 DEF JobStep
<1>9. UNCHANGED <<pend, want>> => WriteInv'
  BY <1>1
<1>10. UNCHANGED vars \/ Resting => UNCHANGED <<pend, want>>
  BY DEF vars, Resting, writerVars, jobVars
<1>11. /\ UNCHANGED <<writerVars, jobVars>> => UNCHANGED <<pend, want>>
       /\ UNCHANGED <<pend, jobVars>> => UNCHANGED <<pend, want>>
  BY DEF writerVars, jobVars
<1> QED
  BY <1>6, <1>7, <1>8, <1>9, <1>10, <1>11, RebuildFrame, SourceFrame, ReplayFrame DEF Next

\* The bookkeeping of a full rebuild (watermark, bounds, cursor) stays in order.
LEMMA PhaseStepInv == BaseInv /\ [Next]_vars => PhaseInv'
<1> SUFFICES ASSUME BaseInv, [Next]_vars PROVE PhaseInv'
  OBVIOUS
<1> USE MaxOrderAssumption, NoneAssumption DEF Orders, Versions
<1>a. /\ source \in [Docs -> Snapshot] /\ committed \subseteq Orders /\ open \subseteq Orders
      /\ shadow \in [Docs -> Row \cup {None}] /\ page \in [Docs -> Snapshot \cup {None}]
      /\ watermark \in Nat /\ upper \in Nat /\ cursor \in Nat /\ lastOrder \in Nat
      /\ todo \subseteq Orders /\ unbuilt \subseteq Docs /\ evt \in [Orders -> Event \cup {None}]
  BY DEF BaseInv, TypeOK
<1>b. PhaseInv
  BY DEF BaseInv
<1>c. \A o \in committed : o <= lastOrder
  BY DEF BaseInv, SourceInv
<1>1. CASE SourceStep
  <2>1. /\ UNCHANGED rebuildVars
        /\ watermark' = watermark /\ upper' = upper /\ cursor' = cursor /\ phase' = phase
        /\ shadow' = shadow /\ unbuilt' = unbuilt /\ page' = page /\ todo' = todo
    BY <1>1, SourceFrame DEF rebuildVars
  <2>2. committed \subseteq committed'
    BY HistoryGrows DEF Grows
  <2>3. lastOrder' \in Nat /\ lastOrder <= lastOrder' /\ \A o \in open' : o > upper
    <3>1. ASSUME NEW d \in Docs, NEW l, BeginSource(d, l)
          PROVE  lastOrder' = lastOrder + 1 /\ open' = open \cup {lastOrder + 1}
      BY <3>1 DEF BeginSource
    <3>2. ASSUME NEW o \in open, CommitSource(o) \/ AbortSource(o)
          PROVE  lastOrder' = lastOrder /\ open' \subseteq open
      BY <3>2 DEF CommitSource, AbortSource
    <3>3. \/ lastOrder' = lastOrder + 1 /\ open' = open \cup {lastOrder + 1}
          \/ lastOrder' = lastOrder /\ open' \subseteq open
      BY <1>1, <3>1, <3>2 DEF SourceStep
    <3>4. upper <= lastOrder /\ \A o \in open : o > upper
      BY <1>b DEF PhaseInv
    <3>5. upper \in Nat /\ lastOrder \in Nat
      BY <1>a
    <3>6. lastOrder + 1 > upper
      BY <3>4, <3>5
    <3>7. \A o \in open' : o > upper
      BY <3>3, <3>4, <3>6
    <3> QED
      BY <3>3, <3>5, <3>7
  <2>4. ASSUME NEW d \in Docs, page[d] # None
        PROVE  /\ page[d].rev <= source'[d].rev
               /\ source'[d].rev <= watermark => page[d] = source'[d]
    <3>1. \/ source'[d] = source[d]
          \/ source'[d].rev \in open /\ source'[d].rev > source[d].rev
      BY HistoryGrows DEF Grows, Latest
    <3>2. /\ page[d].rev <= source[d].rev /\ page[d].rev \in Nat /\ source[d].rev \in Nat
          /\ source[d].rev <= watermark => page[d] = source[d]
      BY <1>a, <1>b, <2>4 DEF PhaseInv, Latest, Snapshot
    <3>3. \A o \in open : o \in Nat /\ o > watermark
      BY <1>a, <1>b DEF PhaseInv
    <3>4. CASE source'[d] = source[d]
      BY <3>2, <3>4
    <3>5. CASE source'[d].rev \in open /\ source'[d].rev > source[d].rev
      <4> DEFINE x == page[d].rev  y == source[d].rev  z == source'[d].rev
      <4>1. x \in Nat /\ y \in Nat /\ z \in Nat /\ watermark \in Nat
        BY <1>a, <3>2, <3>3, <3>5
      <4>2. x <= y /\ z > y /\ z > watermark
        BY <3>2, <3>3, <3>5
      <4> HIDE DEF x, y, z
      <4>3. x <= z /\ ~(z <= watermark)
        BY <4>1, <4>2
      <4> QED
        BY <4>3 DEF x, z
    <3> QED
      BY <3>1, <3>4, <3>5
  <2>5. \A d \in Docs : page[d] # None => d \notin unbuilt /\ page[d].live
    BY <1>b DEF PhaseInv
  <2>6. \A o \in todo' : o \in committed' /\ watermark < o /\ o <= cursor
    BY <1>b, <2>1, <2>2 DEF PhaseInv
  <2>7. /\ watermark <= cursor /\ cursor <= upper /\ upper <= lastOrder'
        /\ upper \in committed' \cup {0}
    BY <1>a, <1>b, <2>2, <2>3 DEF PhaseInv
  <2> QED
    BY <1>b, <2>1, <2>3, <2>4, <2>5, <2>6, <2>7 DEF PhaseInv, Latest
<1>2. CASE UNCHANGED <<sourceVars, rebuildVars>>
  BY <1>2, <1>b DEF PhaseInv, Latest, sourceVars, rebuildVars
<1> DEFINE Src == UNCHANGED <<source, committed, open, lastOrder>>
<1>3. ASSUME NEW m \in Versions, StartRebuild(m) PROVE PhaseInv'
  <2>1. /\ Src /\ phase' = "building" /\ watermark' = m /\ upper' = m /\ cursor' = m
        /\ shadow' = NoRows /\ page' = NoRows /\ todo' = {}
        /\ open = {} /\ m \in committed \cup {0}
    BY <1>3 DEF StartRebuild, CommitBarrier, IsHighest, sourceVars
  <2> QED
    BY <1>a, <1>c, <2>1 DEF PhaseInv, NoRows
<1>4. ASSUME NEW S \in SUBSET unbuilt, BuildRead(S) PROVE PhaseInv'
  <2>1. /\ Src /\ UNCHANGED <<phase, shadow, watermark, upper, cursor, todo>>
        /\ phase = "building" /\ page = NoRows /\ unbuilt' = unbuilt \ S
        /\ page' = [d \in Docs |-> IF d \in S /\ source[d].live THEN source[d] ELSE None]
    BY <1>4 DEF BuildRead, sourceVars
  <2>2. \A d \in Docs : page'[d] # None => d \in S /\ page'[d] = source[d] /\ source[d].live
    BY <2>1
  <2>3. \A d \in Docs : source[d].rev \in Nat
    BY <1>a DEF Snapshot
  <2>4. \A d \in S : shadow[d] = None
    BY <1>a, <1>b DEF PhaseInv
  <2> QED
    BY <1>a, <1>b, <2>1, <2>2, <2>3, <2>4 DEF PhaseInv, Latest
<1>5. ASSUME NEW v \in [Docs -> Versions], BuildStore(v) PROVE PhaseInv'
  <2>1. /\ Src /\ UNCHANGED <<phase, unbuilt, watermark, upper, cursor, todo>>
        /\ phase = "building" /\ page' = NoRows
        /\ \A d \in Docs : page[d] = None => shadow'[d] = shadow[d]
    BY <1>5 DEF BuildStore, sourceVars
  <2>2. \A d \in unbuilt : page[d] = None /\ shadow[d] = None
    BY <1>a, <1>b DEF PhaseInv
  <2> QED
    BY <1>a, <1>b, <2>1, <2>2 DEF PhaseInv, Latest, NoRows
<1>6. ASSUME NEW m \in Versions, StartCatchUp(m) \/ DeferActivation(m) PROVE PhaseInv'
  <2>1. /\ Src /\ UNCHANGED <<shadow, unbuilt, page, watermark, cursor, todo>>
        /\ unbuilt = {} /\ page = NoRows /\ phase' = "catchup" /\ upper' = m
        /\ open = {} /\ IsHighest(m, committed)
    <3>1. CASE StartCatchUp(m)
      BY <3>1 DEF StartCatchUp, sourceVars, CommitBarrier
    <3>2. CASE DeferActivation(m)
      BY <3>2, <1>b DEF DeferActivation, sourceVars, CommitBarrier, PhaseInv
    <3> QED
      BY <1>6, <3>1, <3>2
  <2>2. m \in Nat /\ upper <= m /\ m \in committed \cup {0}
    BY <1>a, <1>b, <2>1 DEF IsHighest, PhaseInv
  <2>3. m <= lastOrder
    BY <1>a, <1>c, <2>2
  <2> QED
    BY <1>a, <1>b, <2>1, <2>2, <2>3 DEF PhaseInv, Latest, NoRows
<1>7. ASSUME NEW last \in committed, CatchUpPage(last) PROVE PhaseInv'
  <2>1. /\ Src /\ UNCHANGED <<phase, shadow, unbuilt, page, watermark, upper>>
        /\ phase = "catchup" /\ cursor' = last /\ cursor < last /\ last <= upper
    BY <1>7 DEF CatchUpPage, sourceVars, EventsAfter
  <2>2. \A o \in todo' : o \in committed /\ cursor < o /\ o <= last
    BY <1>7 DEF CatchUpPage, EventsAfter, MergeLatest
  <2>3. watermark <= cursor /\ last \in Nat
    BY <1>a, <1>b DEF PhaseInv
  <2>4. ASSUME NEW o \in todo' PROVE o \in committed /\ watermark < o /\ o <= last
    <3>1. o \in committed /\ cursor < o /\ o <= last
      BY <2>2
    <3>3. o \in Nat
      BY <1>a, <3>1
    <3>2. watermark \in Nat /\ cursor \in Nat
      BY <1>a
    <3> QED
      BY <2>3, <3>1, <3>2, <3>3
  <2>5. watermark <= last
    BY <1>a, <2>1, <2>3
  <2> QED
    BY <1>b, <2>1, <2>4, <2>5 DEF PhaseInv, Latest
<1>8. ASSUME NEW o \in todo, CatchUpApply(o) PROVE PhaseInv'
  <2>1. /\ Src /\ UNCHANGED <<phase, unbuilt, page, watermark, upper, cursor>>
        /\ todo' = todo \ {o}
    BY <1>8 DEF CatchUpApply, sourceVars
  <2>2. unbuilt = {} /\ page = NoRows /\ phase = "catchup"
    BY <1>b DEF PhaseInv
  <2> QED
    BY <1>a, <1>b, <2>1, <2>2 DEF PhaseInv, Latest, NoRows
<1>9. ASSUME CatchUpDone PROVE PhaseInv'
  <2>1. /\ Src /\ UNCHANGED <<shadow, unbuilt, page, watermark, upper, todo>>
        /\ todo = {} /\ phase = "catchup" /\ phase' = "ready" /\ cursor' = upper
    BY <1>9 DEF CatchUpDone, sourceVars
  <2> QED
    BY <1>a, <1>b, <2>1 DEF PhaseInv, Latest
<1>10. ASSUME EndRebuild, Src PROVE PhaseInv'
  BY <1>10, <1>a DEF EndRebuild, PhaseInv, Latest, NoRows
<1>11. CASE RebuildStep
  <2>1. \A m : Activate(m) => EndRebuild /\ Src
    BY DEF Activate, sourceVars
  <2> QED
    BY <1>4, <1>5, <1>6, <1>7, <1>8, <1>9, <1>10, <1>11, <2>1 DEF RebuildStep
<1>12. CASE FailRebuild
  BY <1>10, <1>12 DEF FailRebuild, sourceVars
<1>13. UNCHANGED vars \/ Resting => UNCHANGED <<sourceVars, rebuildVars>>
  BY DEF vars, Resting
<1> QED
  BY <1>1, <1>2, <1>3, <1>11, <1>12, <1>13, WorkerFrame, JobFrame, ReplayFrame DEF Next

-------------------------------------------------------------------------------
\* The initial states satisfy the inductive invariant.
LEMMA InitIInv == Init => IInv
<1> SUFFICES ASSUME Init PROVE IInv
  OBVIOUS
<1> USE MaxOrderAssumption, NoneAssumption, SyncAssumption DEF Init, Orders, Versions
<1>1. TypeOK
  <2>1. source \in [Docs -> Snapshot]
    BY DEF Snapshot
  <2>2. active \in [Docs -> Row \cup {None}]
    BY DEF Row
  <2> QED
    BY <2>1, <2>2 DEF TypeOK, Phases, NoRows
<1>a. \A d \in Docs : source[d].rev = 0 /\ source[d].live \in BOOLEAN
  OBVIOUS
<1>2. SourceInv
  BY <1>a DEF SourceInv, Latest
<1>3. OutboxInv /\ WorkerInv /\ WriteInv
  BY DEF OutboxInv, WorkerInv, WriteInv, Writers
<1>4. PhaseInv
  BY DEF PhaseInv, NoRows
<1>5. ShadowInv
  BY DEF ShadowInv, CopyInv, ShadowVersions, TodoInv, ShadowCurrent, LiveWrites, NoRows
<1>b. \A d \in Docs : active[d] = IF source[d].live THEN [ver |-> 0, rev |-> 0, live |-> TRUE]
                                                    ELSE None
  OBVIOUS
<1>6. ActiveInv
  <2>1. \A d \in Docs : active[d] # None => active[d].ver <= Latest(d)
    BY <1>a, <1>b DEF Latest
  <2>2. \A d \in Docs : source[d].live => Current(active[d], source[d])
    <3> SUFFICES ASSUME NEW d \in Docs, source[d].live PROVE Current(active[d], source[d])
      OBVIOUS
    <3>1. active[d] = [ver |-> 0, rev |-> 0, live |-> TRUE]
      BY <1>b
    <3>2. active[d] # None
      <4>1. [ver |-> 0, rev |-> 0, live |-> TRUE] \in Row
        BY DEF Row
      <4> QED
        BY <3>1, <4>1
    <3>3. source[d].live = TRUE
      BY <1>a
    <3> QED
      BY <1>a, <3>1, <3>2, <3>3 DEF Current
  <2>3. \A d \in Docs : ~source[d].live => active[d] = None
    BY <1>b
  <2>4. \A p \in Writers : pend[p] = None
    OBVIOUS
  <2> QED
    BY <2>1, <2>2, <2>3, <2>4 DEF ActiveInv, Shown
<1> QED
  BY <1>1, <1>2, <1>3, <1>4, <1>5, <1>6 DEF IInv, BaseInv

\* The base invariant is inductive.
LEMMA BaseStep == BaseInv /\ [Next]_vars => BaseInv'
BY TypeStep, SourceStepInv, OutboxStepInv, WorkerStepInv, WriteStepInv, PhaseStepInv DEF BaseInv

(***************************************************************************)
(* Whatever stalls and replays the environment allows: the newest committed *)
(* event of a document is the one its source shows; leases are held only on *)
(* committed, unprocessed events with attempts left (worker.go claimEvents, *)
(* markFailed); what a worker still has to write is the newest event of its *)
(* document in the batch (mergeLatestEvents); no prepared write claims a    *)
(* version beyond what it has seen; and no open transaction is below the    *)
(* commit boundary of a catch-up (rebuild.go outboxCommitBarrier).          *)
(***************************************************************************)
THEOREM BaseCorrect == Spec => []BaseInv
<1>1. Init => BaseInv
  BY InitIInv DEF IInv
<1> QED
  BY <1>1, BaseStep, PTL DEF Spec

-------------------------------------------------------------------------------
\* Only an operator's replay ends a quarantine.
LEMMA QuarantineStays ==
  ASSUME BaseInv, [Next]_vars, \A o \in committed : ~ReplayEvent(o)
  PROVE  \A o \in committed : Quarantined(o) => Quarantined(o)'
<1> USE NoneAssumption, SyncAssumption
<1>a. attempts \in [Orders -> 0..MaxAttempts] /\ committed \subseteq Orders
  BY DEF BaseInv, TypeOK
<1>b. \A o \in Orders : lock[o] # None => attempts[o] < MaxAttempts
  BY DEF BaseInv, OutboxInv
<1>c. committed \subseteq committed'
  BY HistoryGrows DEF Grows
<1> DEFINE Goal == \A o \in committed : Quarantined(o) => Quarantined(o)'
<1>1. UNCHANGED <<done, attempts>> => Goal
  BY <1>c DEF Quarantined
<1>2. ASSUME NEW w \in Workers, AckEvents(w) PROVE Goal
  <2>1. /\ attempts' = attempts
        /\ \A o \in done' : o \in done \/ lock[o] = w
    BY <1>2 DEF AckEvents, Held
  <2>2. \A o \in Orders : lock[o] = w => attempts[o] < MaxAttempts
    BY <1>b
  <2>3. \A o \in Orders : attempts[o] < MaxAttempts => ~(attempts[o] >= MaxAttempts)
    BY <1>a
  <2> QED
    BY <1>a, <1>c, <2>1, <2>2, <2>3 DEF Quarantined
<1>3. ASSUME NEW w \in Workers, NEW o, NEW landed, NEW marked, FailEvent(w, o, landed, marked) PROVE Goal
  <2>1. done' = done /\ \A p \in Orders : attempts'[p] = attempts[p] \/ attempts'[p] = attempts[p] + 1
    BY <1>3 DEF FailEvent
  <2>2. \A p \in Orders : attempts[p] >= MaxAttempts => attempts'[p] >= MaxAttempts
    BY <1>a, <2>1
  <2> QED
    BY <1>a, <1>c, <2>1, <2>2 DEF Quarantined
<1>4. ASSUME NEW w \in Workers, WorkerStep(w) PROVE Goal
  <2>1. ASSUME NEW batch, ClaimEvents(w, batch) PROVE UNCHANGED <<done, attempts>>
    BY <2>1 DEF ClaimEvents
  <2>2. FetchOrApply(w) \/ ReleaseClaim(w) => UNCHANGED <<done, attempts>>
    BY DEF FetchOrApply, FetchForEvent, ApplyEvent, ReleaseClaim, outboxVars
  <2> HIDE DEF Goal
  <2> QED
    BY <1>1, <1>2, <1>4, <2>1, <2>2 DEF WorkerStep, FetchOrApply
<1>5. ASSUME NEW w \in Workers, WorkerFault(w) PROVE Goal
  <2>1. CrashWorker(w) => UNCHANGED <<done, attempts>>
    BY DEF CrashWorker, outboxVars
  <2> HIDE DEF Goal
  <2> QED
    BY <1>1, <1>3, <1>5, <2>1 DEF WorkerFault
<1>6. UNCHANGED vars \/ Resting \/ UNCHANGED outboxVars => UNCHANGED <<done, attempts>>
  BY DEF vars, Resting, outboxVars
<1>7. Goal
  <2> HIDE DEF Goal
  <2> QED
    BY <1>1, <1>4, <1>5, <1>6, JobFrame, RebuildFrame, SourceFrame DEF Next
<1> QED
  BY <1>7

\* No write prepared during a rebuild brings back a document deleted before it.
LEMMA LiveWritesStep == BaseInv /\ LiveWrites /\ [Next]_vars => LiveWrites'
<1> SUFFICES ASSUME BaseInv, LiveWrites, [Next]_vars PROVE LiveWrites'
  OBVIOUS
<1> USE NoneAssumption
<1>a. /\ pend \in [Writers -> Write \cup {None}] /\ Workers \subseteq Writers
      /\ EntityJobs \subseteq Writers /\ open \subseteq Orders
      /\ watermark \in Nat /\ upper \in Nat
  BY MaxOrderAssumption DEF BaseInv, TypeOK, Writers, Versions
<1>b. \A p \in Writers : pend[p] # None => pend[p].doc \in Docs
  BY <1>a DEF Write
<1>c. \A d \in Docs : source'[d] = source[d] \/ ~(source'[d].rev <= watermark)
  <2>1. \A o \in open : o \in Nat /\ o > upper
    BY <1>a, MaxOrderAssumption DEF BaseInv, PhaseInv, Orders
  <2>2. watermark <= upper
    BY <1>a DEF BaseInv, PhaseInv, TypeOK
  <2>3. \A o \in open : ~(o <= watermark)
    BY <1>a, <2>1, <2>2
  <2> QED
    BY <2>3, HistoryGrows DEF Grows
<1> DEFINE Safe(p) == source'[pend[p].doc].rev <= watermark /\ pend[p].row.live
                        => source'[pend[p].doc].live
<1>d. phase # "idle" => \A p \in Writers \ stale : pend[p] # None => Safe(p)
  BY <1>b, <1>c DEF LiveWrites, Latest
\* The prepared writes and the phase stay, up to finished writes and newly stale ones.
<1>1. ASSUME phase' # "idle" => phase # "idle", watermark' = watermark,
             \A p \in Writers : pend'[p] \in {pend[p], None},
             \A p \in Writers : pend'[p] # None /\ p \notin stale' => p \notin stale
      PROVE  LiveWrites'
  BY <1>1, <1>d DEF LiveWrites, Latest
<1>2. CASE SourceStep
  BY <1>1, <1>2, SourceFrame DEF writerVars, rebuildVars
<1>3. ASSUME NEW w \in Writers, NEW d \in Docs, NEW r \in Row,
             pend' = [pend EXCEPT ![w] = [doc |-> d, row |-> r]],
             r.live => source'[d].live,
             phase' = phase, watermark' = watermark, stale' = stale
      PROVE  LiveWrites'
  BY <1>3, <1>a, <1>d DEF LiveWrites, Latest
<1>4. ASSUME NEW w \in Workers, WorkerStep(w) PROVE LiveWrites'
  <2>1. phase' = phase /\ watermark' = watermark /\ source' = source
    BY <1>4, WorkerFrame DEF rebuildVars, sourceVars
  <2>2. ASSUME NEW o \in left[w], FetchForEvent(w, o) PROVE LiveWrites'
    <3>1. pend' = [pend EXCEPT ![w] = [doc |-> evt[o].doc, row |-> EventRow(o)]] /\ stale' = stale
      BY <2>2 DEF FetchForEvent
    <3>2. o \in committed
      BY DEF BaseInv, WorkerInv
    <3> QED
      BY <1>3, <1>a, <2>1, <3>1, <3>2, EventRowFacts
  <2>3. CASE ApplyEvent(w)
    <3>1. pend' = [pend EXCEPT ![w] = None] /\ stale' = stale \ {w}
      BY <2>3 DEF ApplyEvent, ForgetWrite
    <3> QED
      BY <1>1, <1>a, <2>1, <3>1
  <2>4. ASSUME NEW batch, ClaimEvents(w, batch) PROVE LiveWrites'
    <3>1. pend' = pend /\ stale' = stale
      BY <2>4 DEF ClaimEvents, writerVars
    <3> QED
      BY <1>1, <2>1, <3>1
  <2>5. CASE AckEvents(w) \/ ReleaseClaim(w)
    <3>1. pend' = pend /\ stale' = stale
      BY <2>5 DEF AckEvents, ReleaseClaim, writerVars
    <3> QED
      BY <1>1, <2>1, <3>1
  <2> QED
    BY <1>4, <2>2, <2>3, <2>4, <2>5 DEF WorkerStep
<1>5. ASSUME NEW w \in Workers, WorkerFault(w) PROVE LiveWrites'
  <2>1. phase' = phase /\ watermark' = watermark
    BY <1>5, WorkerFrame DEF rebuildVars
  <2>2. ASSUME NEW o, NEW landed, NEW marked, FailEvent(w, o, landed, marked) PROVE ForgetWrite(w)
    BY <2>2 DEF FailEvent
  <2>3. ForgetWrite(w)
    BY <1>5, <2>2 DEF WorkerFault, CrashWorker
  <2> QED
    BY <1>1, <1>a, <2>1, <2>3 DEF ForgetWrite
<1>6. ASSUME NEW j \in EntityJobs, JobStep(j) PROVE LiveWrites'
  <2>1. phase' = phase /\ watermark' = watermark /\ source' = source
    BY <1>6, JobFrame DEF rebuildVars, sourceVars
  <2>2. CASE EntityFetch(j)
    <3> DEFINE d == want[j].doc
               r == [ver |-> want[j].ver, rev |-> source[d].rev, live |-> source[d].live]
    <3>1. pend' = [pend EXCEPT ![j] = [doc |-> d, row |-> r]] /\ stale' = stale /\ want[j] # None
      BY <2>2 DEF EntityFetch
    <3>2. d \in Docs /\ want[j].ver \in Versions
      BY <3>1 DEF BaseInv, TypeOK
    <3>3. r \in Row /\ r.live = source[d].live
      BY <3>2 DEF BaseInv, TypeOK, Row, Snapshot
    <3> HIDE DEF d, r
    <3> QED
      BY <1>3, <1>a, <2>1, <3>1, <3>2, <3>3
  <2>3. ASSUME NEW d, NEW v, EntityVersion(j, d, v) PROVE LiveWrites'
    <3>1. pend' = pend /\ stale' = stale
      BY <2>3 DEF EntityVersion, writerVars
    <3> QED
      BY <1>1, <2>1, <3>1
  <2>4. CASE EntityWrite(j)
    <3>1. pend' = [pend EXCEPT ![j] = None] /\ stale' = stale \ {j}
      BY <2>4 DEF EntityWrite, ForgetWrite
    <3> QED
      BY <1>1, <1>a, <2>1, <3>1
  <2> QED
    BY <1>6, <2>2, <2>3, <2>4 DEF JobStep
<1>7. ASSUME NEW m \in Versions, StartRebuild(m) PROVE LiveWrites'
  BY <1>7 DEF StartRebuild, LiveWrites
<1>8. CASE phase' = "idle"
  BY <1>8 DEF LiveWrites
<1>9. CASE RebuildStep
  <2> DEFINE Kept == UNCHANGED <<writerVars, watermark>> /\ phase # "idle"
  <2>1. (\E m \in Versions : Activate(m)) \/ Kept
    <3>1. ASSUME NEW o \in todo, CatchUpApply(o) PROVE Kept
      <4>1. phase # "idle"
        BY DEF BaseInv, PhaseInv
      <4> QED
        BY <3>1, <4>1 DEF CatchUpApply
    <3>2. ASSUME NEW S, BuildRead(S) PROVE Kept
      BY <3>2 DEF BuildRead
    <3>3. ASSUME NEW v, BuildStore(v) PROVE Kept
      BY <3>3 DEF BuildStore
    <3>4. ASSUME NEW m, StartCatchUp(m) \/ DeferActivation(m) PROVE Kept
      BY <3>4 DEF StartCatchUp, DeferActivation
    <3>5. ASSUME NEW last, CatchUpPage(last) \/ CatchUpDone PROVE Kept
      BY <3>5 DEF CatchUpPage, CatchUpDone
    <3> HIDE DEF Kept
    <3> QED
      BY <1>9, <3>1, <3>2, <3>3, <3>4, <3>5 DEF RebuildStep
  <2>2. ASSUME NEW m \in Versions, Activate(m) PROVE phase' = "idle"
    BY <2>2 DEF Activate, EndRebuild
  <2> QED
    BY <1>1, <1>8, <2>1, <2>2 DEF writerVars
<1>10. CASE FailRebuild
  BY <1>8, <1>10 DEF FailRebuild, EndRebuild
<1>11. CASE UNCHANGED <<writerVars, rebuildVars>>
  BY <1>1, <1>11 DEF writerVars, rebuildVars
<1>12. UNCHANGED vars \/ Resting => UNCHANGED <<writerVars, rebuildVars>>
  BY DEF vars, Resting
<1> QED
  BY <1>2, <1>4, <1>5, <1>6, <1>7, <1>9, <1>10, <1>11, <1>12, ReplayFrame DEF Next

-------------------------------------------------------------------------------
(***************************************************************************)
(* What the version gate gives: a write that claims no more than it has    *)
(* seen never displaces the row of the last event, establishes it when it  *)
(* carries that event's version, and revives nothing unless it is live.    *)
(***************************************************************************)
LEMMA GatedKeeps ==
  ASSUME NEW row \in Row \cup {None}, NEW new \in Row, NEW s \in Snapshot,
         Seen(new, s), row # None => row.ver <= s.rev
  PROVE  /\ GatedWrite(row, new) # None
         /\ GatedWrite(row, new).ver <= s.rev
         /\ Current(row, s) \/ new.ver = s.rev => Current(GatedWrite(row, new), s)
         /\ ~new.live /\ (row # None => ~row.live) => ~GatedWrite(row, new).live
<1> USE NoneAssumption
<1>1. /\ new # None /\ new.ver \in Nat /\ new.rev \in Nat /\ s.rev \in Nat
      /\ row # None => row.ver \in Nat
  BY MaxOrderAssumption DEF Row, Snapshot, Versions
<1>2. new.ver <= s.rev /\ (new.ver = s.rev => Current(new, s))
  BY <1>1 DEF Seen, Current
<1>3. CASE row = None \/ row.ver <= new.ver
  <2>1. GatedWrite(row, new) = new
    BY <1>3 DEF GatedWrite
  <2>2. Current(row, s) => new.ver = s.rev
    BY <1>1, <1>2, <1>3 DEF Current
  <2> QED
    BY <1>1, <1>2, <2>1, <2>2
<1>4. CASE ~(row = None \/ row.ver <= new.ver)
  <2>1. GatedWrite(row, new) = row
    BY <1>4 DEF GatedWrite
  <2>2. new.ver # s.rev
    BY <1>1, <1>4
  <2> QED
    BY <1>4, <2>1, <2>2
<1> QED
  BY <1>3, <1>4

\* The highest event a commit barrier sees of a document is the document's
\* last change.
LEMMA HighestIsLatest ==
  ASSUME BaseInv, NEW d \in Docs, NEW v \in Versions, IsHighest(v, EventsOf(d, committed))
  PROVE  v = Latest(d)
<1>1. Latest(d) \in Nat /\ v \in Nat /\ \A o \in committed : o \in Nat /\ o # 0
  BY MaxOrderAssumption DEF BaseInv, TypeOK, Latest, Snapshot, Versions, Orders
<1>2. Latest(d) # 0 => Latest(d) \in EventsOf(d, committed)
  BY DEF BaseInv, SourceInv, EventsOf
<1>3. \A o \in EventsOf(d, committed) : o \in committed /\ o <= Latest(d)
  BY DEF BaseInv, SourceInv, EventsOf
<1>4. v \in EventsOf(d, committed) \cup {0} /\ \A o \in EventsOf(d, committed) : o <= v
  BY DEF IsHighest
<1> QED
  BY <1>1, <1>2, <1>3, <1>4

\* The event of order o in the page or tail events, when it is d's last one.
LEMMA LatestReplayed ==
  ASSUME BaseInv, NEW d \in Docs, NEW a \in Versions, NEW b \in Versions,
         Latest(d) > a, Latest(d) <= b, ~Quarantined(Latest(d))
  PROVE  /\ Latest(d) \in MergeLatest(EventsAfter(a, b), EventDoc)
         /\ \A o \in MergeLatest(EventsAfter(a, b), EventDoc) : evt[o].doc = d => o = Latest(d)
<1>1. Latest(d) \in Nat /\ a \in Nat /\ \A o \in committed : o \in Nat /\ o \in Orders
  BY MaxOrderAssumption DEF BaseInv, TypeOK, Latest, Snapshot, Versions, Orders
<1>2. Latest(d) \in committed /\ evt[Latest(d)].doc = d
  BY <1>1 DEF BaseInv, SourceInv
<1>3. \A o \in committed : EventDoc[o] = evt[o].doc
  <2>1. \A o \in committed : evt[o] # None
    BY DEF BaseInv, SourceInv
  <2> QED
    BY <1>1, <2>1 DEF EventDoc
<1>4. Latest(d) \in EventsAfter(a, b)
  BY <1>2 DEF EventsAfter
<1>5. \A o \in EventsAfter(a, b) : o \in committed
  BY DEF EventsAfter
<1>6. \A o \in committed : evt[o].doc = d => o <= Latest(d)
  BY DEF BaseInv, SourceInv
<1>7. Latest(d) \in MergeLatest(EventsAfter(a, b), EventDoc)
  BY <1>2, <1>3, <1>4, <1>5, <1>6 DEF MergeLatest
<1>8. ASSUME NEW o \in MergeLatest(EventsAfter(a, b), EventDoc), evt[o].doc = d
      PROVE  o = Latest(d)
  <2>1. o \in committed /\ Latest(d) <= o
    BY <1>2, <1>3, <1>4, <1>5, <1>8 DEF MergeLatest
  <2> QED
    BY <1>1, <1>6, <1>8, <2>1
<1> QED
  BY <1>7, <1>8

\* The row an event makes of its document shows a committed state of it.
LEMMA EventRowSeen ==
  ASSUME BaseInv, NEW o \in committed
  PROVE  EventRow(o) \in Row /\ Seen(EventRow(o), source[evt[o].doc]) /\ EventRow(o).ver = o
BY EventRowFacts DEF Seen, Latest

-------------------------------------------------------------------------------
\* Steps of other processes do not disturb the copy ...
LEMMA CopyFrame ==
  ASSUME BaseInv, CopyInv, [Next]_vars, UNCHANGED rebuildVars,
         \A o \in committed : ~ReplayEvent(o)
  PROVE  CopyInv'
<1> USE NoneAssumption
<1>a. /\ source \in [Docs -> Snapshot] /\ committed \subseteq Orders /\ open \subseteq Orders
      /\ shadow \in [Docs -> Row \cup {None}]
      /\ watermark \in Nat /\ upper \in Nat /\ cursor \in Nat
  BY MaxOrderAssumption DEF BaseInv, TypeOK, Versions
<1>b. /\ watermark' = watermark /\ cursor' = cursor /\ phase' = phase /\ shadow' = shadow
      /\ unbuilt' = unbuilt /\ page' = page /\ todo' = todo
  BY DEF rebuildVars
<1>c. \A o \in open : ~(o <= cursor) /\ ~(o <= watermark) /\ o > cursor
  <2>1. \A o \in open : o \in Nat
    BY <1>a, MaxOrderAssumption DEF Orders
  <2>2. watermark <= cursor /\ cursor <= upper /\ \A o \in open : o > upper
    BY DEF BaseInv, PhaseInv
  <2>3. watermark \in Nat /\ upper \in Nat /\ cursor \in Nat
    BY <1>a
  <2> QED
    BY <2>1, <2>2, <2>3
<1>d. \A d \in Docs : \/ source'[d] = source[d]
                      \/ /\ source'[d].rev \in open /\ source'[d].rev > source[d].rev
                         /\ ~(source'[d].rev <= cursor) /\ ~(source'[d].rev <= watermark)
                         /\ source'[d].rev > cursor
  BY <1>c, HistoryGrows DEF Grows, Latest
<1>e. \A o \in todo : o \in committed /\ evt'[o] = evt[o] /\ evt[o].doc \in Docs
  BY HistoryGrows, EventRowFacts DEF BaseInv, PhaseInv, Grows
<1>f. \A o \in committed : Quarantined(o) => Quarantined(o)'
  BY QuarantineStays
<1>1. ShadowVersions'
  <2>1. ASSUME NEW d \in Docs, shadow[d] # None PROVE shadow[d].ver <= source'[d].rev
    <3>1. shadow[d].ver \in Nat /\ source[d].rev \in Nat /\ shadow[d].ver <= source[d].rev
      BY <1>a, <2>1, MaxOrderAssumption
      DEF CopyInv, ShadowVersions, Latest, Row, Snapshot, Versions
    <3>2. source'[d].rev \in Nat /\ source[d].rev <= source'[d].rev
      <4>1. \A o \in open : o \in Nat
        BY <1>a, MaxOrderAssumption DEF Orders
      <4> QED
        BY <1>d, <3>1, <4>1
    <3> QED
      BY <3>1, <3>2
  <2> QED
    BY <1>b, <2>1 DEF ShadowVersions, Latest
<1>2. TodoInv'
  <2>1. ASSUME NEW o \in todo
        PROVE  LET n == source'[evt'[o].doc].rev
               IN  n = o \/ n > cursor \/ (n \in committed /\ Quarantined(n))
    <3> DEFINE d == evt[o].doc
    <3>1. d \in Docs /\ evt'[o].doc = d
      BY <1>e
    <3>2. Latest(d) = o \/ Latest(d) > cursor \/ Quarantined(Latest(d))
      BY DEF CopyInv, TodoInv
    <3>3. Quarantined(Latest(d)) => Latest(d) \in committed
      BY DEF Quarantined
    <3> HIDE DEF d
    <3>4. CASE source'[d] = source[d]
      BY <3>1, <3>2, <3>3, <3>4 DEF Latest
    <3>5. CASE source'[d].rev > cursor
      BY <3>1, <3>5
    <3> QED
      BY <1>d, <3>1, <3>4, <3>5
  <2> QED
    BY <1>b, <1>f, <2>1 DEF TodoInv, Latest
<1>3. ShadowCurrent'
  <2>1. ASSUME NEW d \in Docs, CaughtUp(d)' PROVE source'[d] = source[d] /\ CaughtUp(d)
    <3>1. source'[d] = source[d]
      BY <1>b, <1>d, <2>1 DEF CaughtUp, Latest
    <3>2. Quarantined(Latest(d)) => Quarantined(Latest(d))'
      BY <1>f, <3>1 DEF Quarantined, Latest
    <3>3. \A o \in todo : evt'[o].doc # d => evt[o].doc # d
      BY <1>e
    <3>4. CASE (Latest(d) <= watermark)'
      BY <1>b, <3>1, <3>4 DEF CaughtUp, Latest
    <3>5. CASE (Latest(d) <= cursor /\ ~Quarantined(Latest(d)) /\ \A o \in todo : evt[o].doc # d)'
      <4>1. Latest(d) <= cursor
        BY <1>b, <3>1, <3>5 DEF Latest
      <4>2. \A o \in todo : evt[o].doc # d
        BY <1>b, <3>3, <3>5
      <4>3. ~Quarantined(Latest(d))
        BY <3>2, <3>5
      <4> QED
        BY <3>1, <4>1, <4>2, <4>3 DEF CaughtUp
    <3> QED
      BY <2>1, <3>4, <3>5 DEF CaughtUp
  <2> QED
    BY <1>b, <2>1 DEF CopyInv, ShadowCurrent, Built, Latest
<1> QED
  BY <1>1, <1>2, <1>3 DEF CopyInv

\* ... and a replay comes before anything is caught up with.
LEMMA CopyReplay ==
  ASSUME BaseInv, CopyInv, ~ReplayAnyTime, NEW o \in committed, ReplayEvent(o)
  PROVE  CopyInv'
<1>1. /\ UNCHANGED <<source, evt>> /\ watermark' = watermark /\ cursor' = cursor
      /\ phase' = phase /\ shadow' = shadow /\ unbuilt' = unbuilt /\ page' = page /\ todo' = todo
      /\ phase \in {"idle", "building"}
  BY DEF ReplayEvent, sourceVars, rebuildVars
<1>2. todo = {}
  BY <1>1 DEF BaseInv, PhaseInv
<1>3. phase = "building" => cursor = watermark
  BY MaxOrderAssumption DEF BaseInv, PhaseInv, TypeOK, Versions
<1>4. ShadowVersions' /\ TodoInv'
  BY <1>1, <1>2 DEF CopyInv, ShadowVersions, TodoInv, Latest
<1>5. ShadowCurrent'
  <2>1. ASSUME NEW d \in Docs, CaughtUp(d)', phase = "building" PROVE CaughtUp(d)
    BY <1>1, <1>3, <2>1 DEF CaughtUp, Latest
  <2> QED
    BY <1>1, <2>1 DEF CopyInv, ShadowCurrent, Built, Latest
<1> QED
  BY <1>4, <1>5 DEF CopyInv

\* The rebuild's own steps keep the shadow copy's invariant.
LEMMA CopyRebuild ==
  ASSUME BaseInv, CopyInv, RebuildStep \/ FailRebuild \/ \E m \in Versions : StartRebuild(m)
  PROVE  CopyInv'
<1> USE NoneAssumption
<1>a. /\ source \in [Docs -> Snapshot] /\ committed \subseteq Orders
      /\ shadow \in [Docs -> Row \cup {None}] /\ page \in [Docs -> Snapshot \cup {None}]
      /\ watermark \in Nat /\ upper \in Nat /\ cursor \in Nat /\ upper \in Versions
      /\ cursor \in Versions
  BY MaxOrderAssumption DEF BaseInv, TypeOK, Versions
<1>b. source' = source /\ evt' = evt /\ committed' = committed /\ done' = done /\ attempts' = attempts
  BY RebuildFrame DEF sourceVars, outboxVars
<1>c. \A o : Quarantined(o)' <=> Quarantined(o)
  BY <1>b DEF Quarantined
<1>d. /\ \A d \in Docs : source[d] \in Snapshot /\ source[d].rev \in Nat /\ source[d].rev \in Versions
      /\ \A o \in committed : o \in Nat
  BY <1>a, MaxOrderAssumption DEF Snapshot, Versions, Orders
<1>e. phase = "building" => cursor = watermark
  BY <1>a DEF BaseInv, PhaseInv
<1>1. ASSUME shadow' = NoRows, todo' = {}, phase' = "idle" \/ unbuilt' = Docs PROVE CopyInv'
  BY <1>1 DEF CopyInv, ShadowVersions, TodoInv, ShadowCurrent, Built, NoRows
<1>2. ASSUME NEW m \in Versions, StartRebuild(m) PROVE CopyInv'
  BY <1>1, <1>2 DEF StartRebuild
<1>3. CASE FailRebuild
  BY <1>1, <1>3 DEF FailRebuild, EndRebuild
<1>4. ASSUME NEW m \in Versions, Activate(m) PROVE CopyInv'
  BY <1>1, <1>4 DEF Activate, EndRebuild
<1>5. ASSUME NEW S \in SUBSET unbuilt, BuildRead(S) PROVE CopyInv'
  <2>1. /\ phase = "building" /\ page = NoRows /\ unbuilt' = unbuilt \ S
        /\ page' = [d \in Docs |-> IF d \in S /\ source[d].live THEN source[d] ELSE None]
        /\ UNCHANGED <<phase, shadow, watermark, cursor, todo>>
    BY <1>5 DEF BuildRead
  <2>2. todo = {}
    BY <2>1 DEF BaseInv, PhaseInv
  <2>3. ASSUME NEW d \in Docs, Built(d)', CaughtUp(d)'
        PROVE  \/ Current(shadow[d], source[d])
               \/ shadow[d] = None /\ ~source[d].live /\ Latest(d) <= watermark
    <3>1. CaughtUp(d) /\ Latest(d) <= watermark
      BY <1>b, <1>c, <1>e, <2>1, <2>2, <2>3 DEF CaughtUp, Latest
    <3>2. CASE d \in S
      <4>1. shadow[d] = None
        BY <3>2 DEF BaseInv, PhaseInv
      <4>2. page'[d] = None
        BY <2>3 DEF Built
      <4>3. source[d] # None
        BY <1>d
      <4>4. ~source[d].live
        BY <2>1, <3>2, <4>2, <4>3
      <4> QED
        BY <3>1, <4>1, <4>4
    <3>3. CASE d \notin S
      <4>1. Built(d)
        BY <2>1, <2>3, <3>3 DEF Built, NoRows
      <4> QED
        BY <2>1, <3>1, <4>1 DEF CopyInv, ShadowCurrent
    <3> QED
      BY <3>2, <3>3
  <2> QED
    BY <1>b, <2>1, <2>2, <2>3 DEF CopyInv, ShadowVersions, TodoInv, ShadowCurrent, Latest
<1>6. ASSUME NEW v \in [Docs -> Versions], BuildStore(v) PROVE CopyInv'
  <2> DEFINE new(d) == [ver |-> v[d], rev |-> page[d].rev, live |-> TRUE]
  <2>1. /\ phase = "building" /\ UNCHANGED <<phase, unbuilt, watermark, cursor, todo>>
        /\ \A d \in Docs : IsHighest(v[d], EventsOf(d, committed))
        /\ \A d \in Docs : page[d] = None => shadow'[d] = shadow[d]
        /\ \A d \in Docs : page[d] # None => shadow'[d] = GatedWrite(shadow[d], new(d))
    BY <1>6 DEF BuildStore
  <2>2. todo = {}
    BY <2>1 DEF BaseInv, PhaseInv
  <2>3. \A d \in Docs : v[d] = Latest(d)
    BY <2>1, HighestIsLatest
  <2>4. ASSUME NEW d \in Docs, page[d] # None
        PROVE  shadow'[d] = new(d) /\ new(d).ver = Latest(d)
    <3>1. shadow[d] = None
      BY <2>4 DEF BaseInv, PhaseInv
    <3> QED
      BY <2>1, <2>3, <2>4, <3>1 DEF GatedWrite
  <2>5. ASSUME NEW d \in Docs, shadow'[d] # None PROVE shadow'[d].ver <= Latest(d)
    <3>1. Latest(d) <= Latest(d)
      BY <1>d DEF Latest
    <3>2. CASE page[d] # None
      BY <2>4, <3>1, <3>2
    <3>3. CASE page[d] = None
      BY <2>1, <2>5, <3>3 DEF CopyInv, ShadowVersions
    <3> QED
      BY <3>2, <3>3
  <2>6. ASSUME NEW d \in Docs, Built(d)', CaughtUp(d)'
        PROVE  \/ Current(shadow'[d], source[d])
               \/ shadow'[d] = None /\ ~source[d].live /\ Latest(d) <= watermark
    <3>1. CaughtUp(d) /\ Latest(d) <= watermark
      BY <1>b, <1>c, <1>e, <2>1, <2>2, <2>6 DEF CaughtUp, Latest
    <3>2. CASE page[d] = None
      <4>1. Built(d)
        BY <2>1, <2>6, <3>2 DEF Built
      <4> QED
        BY <2>1, <3>1, <3>2, <4>1 DEF CopyInv, ShadowCurrent
    <3>3. CASE page[d] # None
      <4>1. page[d] = source[d] /\ page[d].live
        BY <3>1, <3>3 DEF BaseInv, PhaseInv
      <4>2. source[d].live = TRUE
        BY <1>d, <4>1 DEF Snapshot
      <4>3. new(d) \in Row
        BY <1>d, <4>1 DEF Row, Snapshot
      <4>4. new(d) # None
        BY <4>3
      <4>5. shadow'[d] = new(d) /\ new(d).ver = source[d].rev
        BY <2>4, <3>3 DEF Latest
      <4>6. new(d).rev = source[d].rev /\ new(d).live = source[d].live
        BY <4>1, <4>2
      <4> HIDE DEF new
      <4> QED
        BY <4>4, <4>5, <4>6 DEF Current
    <3> QED
      BY <3>2, <3>3
  <2> QED
    BY <1>b, <2>1, <2>2, <2>5, <2>6 DEF CopyInv, ShadowVersions, TodoInv, ShadowCurrent, Latest
<1>7. ASSUME NEW m \in Versions, StartCatchUp(m) \/ DeferActivation(m) PROVE CopyInv'
  <2>1. /\ phase # "idle" /\ UNCHANGED <<shadow, unbuilt, page, watermark, cursor, todo>>
    BY <1>7 DEF StartCatchUp, DeferActivation
  <2>2. \A d \in Docs : Built(d)' /\ CaughtUp(d)' => Built(d) /\ CaughtUp(d)
    BY <1>b, <1>c, <2>1 DEF Built, CaughtUp, Latest
  <2>3. TodoInv'
    BY <1>b, <2>1 DEF CopyInv, TodoInv, Latest, Quarantined
  <2>4. ShadowCurrent' /\ ShadowVersions'
    BY <1>b, <2>1, <2>2 DEF CopyInv, ShadowVersions, ShadowCurrent, Latest
  <2> QED
    BY <2>3, <2>4 DEF CopyInv
<1>8. ASSUME NEW last \in committed, CatchUpPage(last) PROVE CopyInv'
  <2>1. /\ phase = "catchup" /\ UNCHANGED <<phase, shadow, unbuilt, page, watermark>>
        /\ todo = {} /\ cursor' = last /\ cursor < last
        /\ todo' = MergeLatest(EventsAfter(cursor, last), EventDoc)
    BY <1>8 DEF CatchUpPage, EventsAfter
  <2>2. last \in Versions /\ last \in Nat
    BY <1>a, <1>d DEF Orders, Versions
  <2>3. \A o \in todo' : o \in committed /\ o > cursor /\ evt[o].doc \in Docs
    BY <2>1, EventRowFacts DEF MergeLatest, EventsAfter
  \* A document's last event is among those of the page, unless left out.
  <2>4. ASSUME NEW d \in Docs, Latest(d) > cursor, Latest(d) <= last, ~Quarantined(Latest(d))
        PROVE  Latest(d) \in todo' /\ \A o \in todo' : evt[o].doc = d => o = Latest(d)
    BY <1>a, <2>1, <2>2, <2>4, LatestReplayed
  <2>5. ASSUME NEW o \in todo'
        PROVE  LET n == Latest(evt[o].doc) IN n = o \/ n > last \/ Quarantined(n)
    <3> DEFINE d == evt[o].doc
    <3>1. d \in Docs /\ o <= Latest(d) /\ o > cursor /\ o \in Nat
      BY <1>d, <2>3 DEF BaseInv, SourceInv
    <3>2. Latest(d) \in Nat /\ cursor \in Nat
      BY <1>a, <1>d, <3>1 DEF Latest
    <3>3. Latest(d) > cursor
      BY <3>1, <3>2
    <3> QED
      BY <2>2, <2>4, <3>1, <3>2, <3>3
  <2>6. ASSUME NEW d \in Docs, CaughtUp(d)' PROVE CaughtUp(d)
    <3>1. CASE Latest(d) <= watermark
      BY <3>1 DEF CaughtUp
    <3>2. CASE /\ Latest(d) <= last /\ ~Quarantined(Latest(d))
               /\ \A o \in todo' : evt[o].doc # d
      <4>1. Latest(d) # 0 => evt[Latest(d)].doc = d
        BY DEF BaseInv, SourceInv
      <4>2. Latest(d) \in Nat
        BY <1>d DEF Latest
      <4>3. Latest(d) <= cursor
        BY <1>a, <2>4, <3>2, <4>1, <4>2
      <4> QED
        BY <2>1, <3>2, <4>3 DEF CaughtUp
    <3> QED
      BY <1>b, <2>1, <2>6, <3>1, <3>2 DEF CaughtUp, Latest, Quarantined
  <2>7. TodoInv'
    BY <1>b, <2>1, <2>5 DEF TodoInv, Latest, Quarantined
  <2>8. ShadowVersions' /\ ShadowCurrent'
    BY <1>b, <2>1, <2>6 DEF CopyInv, ShadowVersions, ShadowCurrent, Built, Latest
  <2> QED
    BY <2>7, <2>8 DEF CopyInv
<1>9. ASSUME NEW o \in todo, CatchUpApply(o) PROVE CopyInv'
  <2>a. PICK d \in Docs : d = evt[o].doc
    BY EventRowFacts DEF BaseInv, PhaseInv
  <2>1. /\ UNCHANGED <<phase, unbuilt, page, watermark, cursor>> /\ todo' = todo \ {o}
        /\ shadow' = [shadow EXCEPT ![d] = GatedWrite(@, EventRow(o))]
    BY <1>9, <2>a DEF CatchUpApply
  <2>2. o \in committed /\ d \in Docs /\ watermark < o /\ o <= Latest(d) /\ o \in Nat
    BY <1>d, <2>a DEF BaseInv, PhaseInv, SourceInv
  <2>3. shadow[d] \in Row \cup {None} /\ (shadow[d] # None => shadow[d].ver <= source[d].rev)
    BY <1>a, <2>2 DEF CopyInv, ShadowVersions, Latest
  <2>4. /\ GatedWrite(shadow[d], EventRow(o)).ver <= source[d].rev
        /\ o = source[d].rev => Current(GatedWrite(shadow[d], EventRow(o)), source[d])
    BY <1>d, <2>a, <2>2, <2>3, GatedKeeps, EventRowSeen
  <2>5. shadow'[d] = GatedWrite(shadow[d], EventRow(o))
    BY <1>a, <2>1, <2>2
  <2>6. \A e \in Docs : e # d => shadow'[e] = shadow[e]
    BY <1>a, <2>1
  <2>7. ShadowVersions'
    BY <1>b, <2>4, <2>5, <2>6 DEF CopyInv, ShadowVersions, Latest
  <2>8. TodoInv'
    BY <1>b, <2>1 DEF CopyInv, TodoInv, Latest, Quarantined
  <2>9. ASSUME NEW e \in Docs, e # d, CaughtUp(e)' PROVE CaughtUp(e)
    BY <1>b, <1>c, <2>a, <2>1, <2>9 DEF CaughtUp, Latest
  <2>10. CaughtUp(d)' => o = Latest(d)
    <3> SUFFICES ASSUME CaughtUp(d)', o # Latest(d) PROVE FALSE
      OBVIOUS
    <3>1. Latest(d) \in Nat /\ watermark \in Nat
      BY <1>a, <1>d, <2>2 DEF Latest
    <3>2. ~(Latest(d) <= watermark)
      BY <2>2, <3>1
    <3>3. Latest(d) > cursor \/ Quarantined(Latest(d))
      BY <2>a DEF CopyInv, TodoInv
    <3>4. Latest(d) <= cursor /\ ~Quarantined(Latest(d))
      BY <1>b, <2>1, <3>2 DEF CaughtUp, Latest, Quarantined
    <3> QED
      BY <1>a, <3>1, <3>3, <3>4
  <2>11. ShadowCurrent'
    <3>1. phase # "idle"
      BY DEF BaseInv, PhaseInv
    <3>2. ASSUME NEW e \in Docs, Built(e)', CaughtUp(e)'
          PROVE  \/ Current(shadow'[e], source[e])
                 \/ shadow'[e] = None /\ ~source[e].live /\ Latest(e) <= watermark
      <4>1. CASE e = d
        BY <2>4, <2>5, <2>10, <3>2, <4>1 DEF Latest
      <4>2. CASE e # d
        <5>1. Built(e) /\ CaughtUp(e)
          BY <2>1, <2>9, <3>2, <4>2 DEF Built
        <5> QED
          BY <2>6, <3>1, <4>2, <5>1 DEF CopyInv, ShadowCurrent
      <4> QED
        BY <4>1, <4>2
    <3> QED
      BY <1>b, <2>1, <3>2 DEF ShadowCurrent, Latest
  <2> QED
    BY <2>7, <2>8, <2>11 DEF CopyInv
<1>10. ASSUME CatchUpDone PROVE CopyInv'
  <2>1. /\ phase = "catchup" /\ UNCHANGED <<shadow, unbuilt, page, watermark, todo>>
        /\ phase' = "ready" /\ cursor' = upper /\ todo = {} /\ EventsAfter(cursor, upper) = {}
    BY <1>10 DEF CatchUpDone
  <2>2. ASSUME NEW d \in Docs, CaughtUp(d)' PROVE CaughtUp(d)
    <3>1. Latest(d) \in Nat
      BY <1>d DEF Latest
    <3>2. Latest(d) # 0 => Latest(d) \in committed
      BY DEF BaseInv, SourceInv
    <3>3. Latest(d) <= upper /\ ~Quarantined(Latest(d)) => Latest(d) <= cursor
      BY <1>a, <2>1, <3>1, <3>2 DEF EventsAfter
    <3> QED
      BY <1>b, <2>1, <2>2, <3>3 DEF CaughtUp, Latest, Quarantined
  <2> QED
    BY <1>b, <2>1, <2>2 DEF CopyInv, ShadowVersions, TodoInv, ShadowCurrent, Built, Latest
<1>11. CASE RebuildStep
  BY <1>4, <1>5, <1>6, <1>7, <1>8, <1>9, <1>10, <1>11 DEF RebuildStep
<1> QED
  BY <1>2, <1>3, <1>11

\* Every step keeps the shadow copy's invariant.
LEMMA CopyStep ==
  ASSUME BaseInv, CopyInv, ~ReplayAnyTime, [Next]_vars PROVE CopyInv'
<1>1. CASE \E o \in committed : ReplayEvent(o)
  BY <1>1, CopyReplay
<1>2. CASE ~\E o \in committed : ReplayEvent(o)
  <2>1. UNCHANGED vars \/ Resting => UNCHANGED rebuildVars
    BY DEF vars, Resting
  <2>2. \/ UNCHANGED rebuildVars
        \/ RebuildStep \/ FailRebuild \/ \E m \in Versions : StartRebuild(m)
    BY <1>2, <2>1, WorkerFrame, JobFrame, SourceFrame DEF Next
  <2> QED
    BY <1>2, <2>2, CopyFrame, CopyRebuild
<1> QED
  BY <1>1, <1>2

-------------------------------------------------------------------------------
(***************************************************************************)
(* What activateTail switches to: the last state of every document whose   *)
(* last event is not quarantined, or no row at all for a document deleted  *)
(* before the watermark.                                                   *)
(***************************************************************************)
LEMMA SwitchShows ==
  ASSUME BaseInv, CopyInv, NEW m \in Versions, Activate(m), NEW d \in Docs
  PROVE  /\ active'[d] # None => active'[d].ver <= Latest(d)
         /\ \/ Quarantined(Latest(d))
            \/ Current(active'[d], source[d])
            \/ active'[d] = None /\ ~source[d].live /\ Latest(d) <= watermark
<1> USE NoneAssumption
<1>a. /\ source[d] \in Snapshot /\ Latest(d) \in Nat /\ shadow[d] \in Row \cup {None}
      /\ cursor \in Nat /\ cursor \in Versions /\ m \in Nat
      /\ \A o \in committed : o \in Nat
  BY MaxOrderAssumption DEF BaseInv, TypeOK, Latest, Snapshot, Versions, Orders
<1>b. /\ phase = "ready" /\ IsHighest(m, committed)
      /\ active' = WithTail(EventsAfter(cursor, m))
  BY DEF Activate, CommitBarrier
<1>c. Latest(d) <= m
  <2>1. Latest(d) = 0 \/ Latest(d) \in committed
    BY DEF BaseInv, SourceInv
  <2> QED
    BY <1>a, <1>b, <2>1 DEF IsHighest
<1>d. Latest(d) # 0 => evt[Latest(d)].doc = d
  BY DEF BaseInv, SourceInv
<1>e. shadow[d] # None => shadow[d].ver <= source[d].rev
  BY DEF CopyInv, ShadowVersions, Latest
<1> DEFINE newest == EventsOf(d, MergeLatest(EventsAfter(cursor, m), EventDoc))
<1>f. active'[d] = IF newest = {} THEN shadow[d]
                   ELSE GatedWrite(shadow[d], EventRow(CHOOSE o \in newest : TRUE))
  BY <1>b DEF WithTail
<1>1. CASE newest = {}
  <2>1. active'[d] = shadow[d]
    BY <1>1, <1>f
  <2>2. ASSUME ~Quarantined(Latest(d))
        PROVE  \/ Current(shadow[d], source[d])
               \/ shadow[d] = None /\ ~source[d].live /\ Latest(d) <= watermark
    <3>1. Latest(d) <= cursor
      <4> SUFFICES ASSUME Latest(d) > cursor PROVE FALSE
        BY <1>a
      <4>1. Latest(d) \in MergeLatest(EventsAfter(cursor, m), EventDoc)
        BY <1>a, <1>c, <2>2, LatestReplayed
      <4>2. Latest(d) # 0
        BY <1>a
      <4> QED
        BY <1>1, <1>d, <4>1, <4>2 DEF EventsOf
    <3>2. Built(d) /\ CaughtUp(d)
      BY <1>b, <2>2, <3>1 DEF Built, CaughtUp, BaseInv, PhaseInv, NoRows
    <3> QED
      BY <1>b, <3>2 DEF CopyInv, ShadowCurrent
  <2> QED
    BY <1>e, <2>1, <2>2 DEF Latest
<1>2. CASE newest # {}
  <2>1. PICK o \in newest : o = (CHOOSE p \in newest : TRUE)
    BY <1>2
  <2>2. o \in MergeLatest(EventsAfter(cursor, m), EventDoc) /\ evt[o].doc = d
    BY <2>1 DEF EventsOf
  <2>3. o \in committed /\ o > cursor
    BY <2>2 DEF MergeLatest, EventsAfter
  <2>4. active'[d] = GatedWrite(shadow[d], EventRow(o))
    BY <1>2, <1>f, <2>1
  <2>5. EventRow(o) \in Row /\ Seen(EventRow(o), source[d]) /\ EventRow(o).ver = o
    BY <2>2, <2>3, EventRowSeen
  <2>6. /\ active'[d].ver <= source[d].rev
        /\ o = source[d].rev => Current(active'[d], source[d])
    BY <1>a, <1>e, <2>4, <2>5, GatedKeeps
  <2>7. ~Quarantined(Latest(d)) => o = Latest(d)
    <3>1. o <= Latest(d)
      BY <2>2, <2>3 DEF BaseInv, SourceInv
    <3>2. Latest(d) > cursor
      BY <1>a, <2>3, <3>1
    <3> QED
      BY <1>a, <1>c, <2>2, <3>2, LatestReplayed
  <2> QED
    BY <2>6, <2>7 DEF Latest
<1> QED
  BY <1>1, <1>2

(***************************************************************************)
(* The generation switched to is current, however long writers stall,      *)
(* provided replays of quarantined events wait for the rebuild to end.     *)
(***************************************************************************)
THEOREM SwitchCorrect ==
  ASSUME ~ReplayAnyTime
  PROVE  Spec => SwitchIsCurrent
<1> DEFINE CInv == BaseInv /\ CopyInv
<1>1. Init => CInv
  BY InitIInv DEF IInv, ShadowInv
<1>2. CInv /\ [Next]_vars => CInv'
  BY BaseStep, CopyStep
<1>3. ASSUME CInv, [Next]_vars
      PROVE  [gen' # gen => \A d \in Docs : Fresh(active'[d], d) \/ Quarantined(source[d].rev)]_vars
  <2> SUFFICES ASSUME gen' # gen, NEW d \in Docs
               PROVE  Fresh(active'[d], d) \/ Quarantined(source[d].rev)
    OBVIOUS
  <2>1. PICK m \in Versions : Activate(m)
    <3>1. SourceStep => gen' = gen
      BY SourceFrame DEF indexVars
    <3>2. \A o \in committed : ReplayEvent(o) => gen' = gen
      BY ReplayFrame DEF indexVars
    <3>3. \A m \in Versions : StartRebuild(m) => gen' = gen
      BY DEF StartRebuild, indexVars
    <3>4. FailRebuild => gen' = gen
      BY DEF FailRebuild, indexVars
    <3>5. RebuildStep => gen' = gen \/ \E m \in Versions : Activate(m)
      BY DEF RebuildStep, BuildRead, BuildStore, StartCatchUp, CatchUpPage, CatchUpApply,
             CatchUpDone, DeferActivation, indexVars
    <3>6. UNCHANGED vars \/ Resting => gen' = gen
      BY DEF vars, Resting, indexVars
    <3> QED
      BY <1>3, <3>1, <3>2, <3>3, <3>4, <3>5, <3>6, WorkerFrame, JobFrame DEF Next
  <2>2. \/ Quarantined(Latest(d))
        \/ Current(active'[d], source[d])
        \/ active'[d] = None /\ ~source[d].live
    BY <1>3, <2>1, SwitchShows
  <2> QED
    BY <2>2 DEF Fresh, Current, Latest
<1> QED
  BY <1>1, <1>2, <1>3, PTL DEF Spec, SwitchIsCurrent

-------------------------------------------------------------------------------
\* A settled document's last event is not quarantined.
LEMMA SettledNotQuarantined ==
  ASSUME BaseInv, NEW d \in Docs, Settled(d)
  PROVE  ~Quarantined(Latest(d))
<1>1. /\ attempts \in [Orders -> 0..MaxAttempts] /\ committed \subseteq Orders /\ 0 \notin Orders
  BY MaxOrderAssumption DEF BaseInv, TypeOK, Orders
<1>2. \A o \in Orders : lock[o] # None => attempts[o] < MaxAttempts
  BY DEF BaseInv, OutboxInv
<1>3. \A o \in Orders : attempts[o] < MaxAttempts => ~(attempts[o] >= MaxAttempts)
  BY <1>1, SyncAssumption
<1> QED
  BY <1>1, <1>2, <1>3, SyncAssumption DEF Settled, Quarantined

(***************************************************************************)
(* The steps that neither write to the index nor prepare a write: what     *)
(* they settle was settled before.                                         *)
(***************************************************************************)
LEMMA ActiveFrame ==
  ASSUME BaseInv, ActiveInv, source' = source, active' = active,
         \A p \in Writers : pend'[p] \in {pend[p], None},
         \A d \in Docs : Settled(d)' => Settled(d)
  PROVE  ActiveInv'
<1>1. \A d \in Docs : Shown(active[d], d) => Shown(active[d], d)'
  BY DEF Shown
<1> QED
  BY <1>1 DEF ActiveInv, Latest

\* A write to the active generation that changes nothing about leases and
\* completions, or completes what it has written.
LEMMA ActiveWrite ==
  ASSUME BaseInv, ActiveInv, NEW p \in Writers, pend[p] # None, WriteActive(p), ForgetWrite(p),
         source' = source,
         \A d \in Docs : Settled(d)' =>
            \/ Settled(d)
            \/ d = pend[p].doc /\ pend[p].row.ver = Latest(d)
  PROVE  ActiveInv'
<1> USE NoneAssumption
<1>a. /\ active \in [Docs -> Row \cup {None}] /\ pend \in [Writers -> Write \cup {None}]
      /\ source \in [Docs -> Snapshot]
  BY DEF BaseInv, TypeOK
<1>b. \A d \in Docs : active[d] # None => active[d].ver <= source[d].rev
  BY DEF ActiveInv, Latest
<1>c. \A d \in Docs : Settled(d) => Shown(active[d], d)
  BY DEF ActiveInv
<1>1. PICK e \in Docs : e = pend[p].doc
  BY <1>a DEF Write
<1>2. PICK r \in Row : r = pend[p].row
  BY <1>a DEF Write
<1>3. Seen(r, source[e])
  BY <1>1, <1>2 DEF BaseInv, WriteInv
<1>4. active' = [active EXCEPT ![e] = GatedWrite(@, r)] /\ pend' = [pend EXCEPT ![p] = None]
  BY <1>1, <1>2 DEF WriteActive, ForgetWrite
<1>5. active'[e] = GatedWrite(active[e], r) /\ \A d \in Docs : d # e => active'[d] = active[d]
  BY <1>a, <1>4
<1>6. /\ active'[e] # None /\ active'[e].ver <= source[e].rev
      /\ Current(active[e], source[e]) \/ r.ver = source[e].rev => Current(active'[e], source[e])
      /\ ~r.live /\ (active[e] # None => ~active[e].live) => ~active'[e].live
  BY <1>a, <1>b, <1>3, <1>5, GatedKeeps
<1>7. \A q \in Writers : pend'[q] \in {pend[q], None}
  BY <1>a, <1>4
<1>8. ASSUME NEW d \in Docs, Shown(active[d], d) PROVE Shown(active[d], d)'
  <2>1. CASE d # e
    BY <1>5, <1>7, <1>8, <2>1 DEF Shown
  <2>2. CASE d = e /\ Current(active[d], source[d])
    BY <1>6, <2>2 DEF Shown
  <2>3. CASE d = e /\ ~Current(active[d], source[d])
    <3>1. ~r.live /\ ~source[e].live /\ (active[e] # None => ~active[e].live)
      BY <1>1, <1>2, <1>8, <2>3 DEF Shown
    <3>2. \A q \in Writers : pend[q] # None /\ pend[q].doc = e => ~pend[q].row.live
      BY <1>8, <2>3 DEF Shown
    <3> QED
      BY <1>6, <1>7, <2>3, <3>1, <3>2 DEF Shown
  <2> QED
    BY <2>1, <2>2, <2>3
<1>9. ASSUME NEW d \in Docs, Settled(d)' PROVE Shown(active[d], d)'
  <2>1. CASE Settled(d)
    BY <1>c, <1>8, <2>1
  <2>2. CASE d = pend[p].doc /\ pend[p].row.ver = Latest(d)
    BY <1>1, <1>2, <1>6, <2>2 DEF Shown, Latest
  <2> QED
    BY <1>9, <2>1, <2>2
<1>10. ASSUME NEW d \in Docs, active'[d] # None PROVE active'[d].ver <= source[d].rev
  BY <1>b, <1>5, <1>6, <1>10
<1> QED
  BY <1>9, <1>10 DEF ActiveInv, Latest

\* Source transactions leave each stale document an unprocessed event.
LEMMA ActiveSource ==
  ASSUME BaseInv, ActiveInv, [Next]_vars, SourceStep
  PROVE  ActiveInv'
<1>a. active' = active /\ pend' = pend /\ done' = done /\ lock' = lock /\ completed' = completed
  BY SourceFrame DEF indexVars, writerVars, outboxVars, workerVars
<1>b. \A d \in Docs : \/ source'[d] = source[d]
                      \/ source'[d].rev \in open /\ source'[d].rev > source[d].rev
  BY HistoryGrows DEF Grows, Latest
<1>c. /\ \A o \in open : o \in Nat /\ o # 0 /\ o \notin committed
      /\ \A d \in Docs : source[d].rev \in Nat
      /\ active \in [Docs -> Row \cup {None}]
  BY MaxOrderAssumption DEF BaseInv, TypeOK, SourceInv, Orders, Snapshot, Versions
<1>d. done \subseteq committed /\ \A w \in Workers : completed[w] \subseteq committed
  BY DEF BaseInv, OutboxInv, WorkerInv
<1>1. ASSUME NEW d \in Docs, active[d] # None PROVE active[d].ver <= source'[d].rev
  <2>1. active[d].ver \in Nat /\ active[d].ver <= source[d].rev
    BY <1>c, <1>1, MaxOrderAssumption DEF ActiveInv, Latest, Row, Versions
  <2>2. source'[d].rev \in Nat /\ source[d].rev <= source'[d].rev
    BY <1>b, <1>c
  <2> QED
    BY <1>c, <2>1, <2>2
<1>2. ASSUME NEW d \in Docs, Settled(d)' PROVE Shown(active[d], d)'
  <2>1. source'[d].rev \notin open
    BY <1>a, <1>c, <1>d, <1>2 DEF Settled, Latest
  <2>2. source'[d] = source[d]
    BY <1>b, <2>1
  <2>3. Settled(d)
    BY <1>a, <1>2, <2>2 DEF Settled, Latest
  <2>4. Shown(active[d], d)
    BY <2>3 DEF ActiveInv
  <2> QED
    BY <1>a, <2>2, <2>4 DEF Shown
<1> QED
  BY <1>a, <1>1, <1>2 DEF ActiveInv, Latest

\* Worker steps acknowledge an event only after its effect is in the index.
LEMMA ActiveWorker ==
  ASSUME BaseInv, ActiveInv, NEW w \in Workers, WorkerStep(w) \/ WorkerFault(w)
  PROVE  ActiveInv'
<1> USE NoneAssumption, SyncAssumption
<1>a. /\ pend \in [Writers -> Write \cup {None}] /\ completed \in [Workers -> SUBSET Orders]
      /\ claim \in [Workers -> SUBSET Orders] /\ Workers \subseteq Writers
      /\ lock \in [Orders -> Workers \cup {None}] /\ committed \subseteq Orders
  BY DEF BaseInv, TypeOK, Writers
<1>b. source' = source /\ \A d \in Docs : Latest(d)' = Latest(d)
  BY WorkerFrame DEF sourceVars, Latest
<1>c. \A v \in Workers : completed[v] \subseteq claim[v] /\ claim[v] \subseteq committed
  BY DEF BaseInv, WorkerInv
<1>e. \A d \in Docs : Latest(d) # 0 => evt[Latest(d)].doc = d
  BY DEF BaseInv, SourceInv
\* Completions and leases that are only given up settle nothing.
<1>1. ASSUME done' = done, \A v \in Workers : completed'[v] \subseteq completed[v],
             \A o \in Orders : lock'[o] \in {lock[o], None}
      PROVE  \A d \in Docs : Settled(d)' => Settled(d)
  <2>1. ASSUME NEW d \in Docs, NEW v \in Workers,
               Latest(d) \in completed'[v], lock'[Latest(d)] = v
        PROVE  Latest(d) \in completed[v] /\ lock[Latest(d)] = v
    BY <1>1, <1>a, <2>1
  <2> QED
    BY <1>1, <1>b, <2>1 DEF Settled
<1>2. ASSUME NEW batch \in SUBSET (committed \ done), ClaimEvents(w, batch) PROVE ActiveInv'
  <2>1. /\ claim[w] = {} /\ completed' = completed /\ done' = done
        /\ lock' = [o \in Orders |-> IF o \in batch THEN w ELSE lock[o]]
        /\ active' = active /\ pend' = pend
    BY <1>2 DEF ClaimEvents, indexVars, writerVars
  <2>2. ASSUME NEW d \in Docs, NEW v \in Workers,
               Latest(d) \in completed'[v], lock'[Latest(d)] = v
        PROVE  Latest(d) \in completed[v] /\ lock[Latest(d)] = v
    <3>1. Latest(d) \in completed[v] /\ Latest(d) \in Orders /\ v # w
      BY <1>a, <1>c, <2>1, <2>2
    <3> QED
      BY <2>1, <2>2, <3>1
  <2>3. \A d \in Docs : Settled(d)' => Settled(d)
    BY <1>b, <2>1, <2>2 DEF Settled
  <2> QED
    BY <1>b, <2>1, <2>3, ActiveFrame
<1>3. ASSUME NEW o \in left[w], FetchForEvent(w, o) PROVE ActiveInv'
  <2>1. /\ pend' = [pend EXCEPT ![w] = [doc |-> evt[o].doc, row |-> EventRow(o)]]
        /\ active' = active /\ UNCHANGED <<done, lock, completed>>
    BY <1>3 DEF FetchForEvent, indexVars, outboxVars, workerVars
  <2>2. o \in committed
    BY <1>3 DEF BaseInv, WorkerInv
  <2>3. EventRow(o).live => source[evt[o].doc].live
    BY <2>2, EventRowFacts
  <2>4. \A d \in Docs : Settled(d)' => Settled(d)
    BY <1>b, <2>1 DEF Settled
  <2>5. ASSUME NEW d \in Docs, Shown(active[d], d) PROVE Shown(active[d], d)'
    BY <1>a, <1>b, <2>1, <2>3, <2>5 DEF Shown
  <2> QED
    BY <1>b, <2>1, <2>4, <2>5 DEF ActiveInv
<1>4. CASE ApplyEvent(w)
  <2> DEFINE mine == EventsOf(pend[w].doc, claim[w])
  <2>1. /\ pend[w] # None /\ WriteActive(w) /\ ForgetWrite(w)
        /\ completed' = [completed EXCEPT ![w] = @ \cup mine]
        /\ done' = done /\ lock' = lock
    BY <1>4 DEF ApplyEvent, outboxVars
  <2>2. /\ pend[w].row.ver \in left[w] /\ pend[w].row.ver \in claim[w]
        /\ evt[pend[w].row.ver].doc = pend[w].doc
        /\ \A p \in claim[w] : evt[p].doc = evt[pend[w].row.ver].doc => p <= pend[w].row.ver
    BY <2>1 DEF BaseInv, WorkerInv
  \* The event written for is the newest of its document in the batch.
  <2>3. ASSUME NEW d \in Docs, Latest(d) \in mine PROVE d = pend[w].doc /\ pend[w].row.ver = Latest(d)
    <3>1. Latest(d) \in claim[w] /\ evt[Latest(d)].doc = pend[w].doc
      BY <2>3 DEF EventsOf
    <3>2. \A o \in claim[w] : o \in committed /\ o \in Nat /\ o # 0
      BY <1>a, <1>c, MaxOrderAssumption DEF Orders
    <3>3. d = pend[w].doc
      BY <1>e, <3>1, <3>2
    <3>4. pend[w].row.ver <= Latest(d)
      BY <2>2, <3>2, <3>3 DEF BaseInv, SourceInv
    <3>5. Latest(d) <= pend[w].row.ver
      BY <2>2, <3>1
    <3> QED
      BY <2>2, <3>1, <3>2, <3>3, <3>4, <3>5
  <2> HIDE DEF mine
  <2>4. \A d \in Docs : Settled(d)' =>
           \/ Settled(d)
           \/ d = pend[w].doc /\ pend[w].row.ver = Latest(d)
    <3> SUFFICES ASSUME NEW d \in Docs, Settled(d)', Latest(d) \notin mine PROVE Settled(d)
      BY <2>3
    <3>1. \A v \in Workers : Latest(d) \in completed'[v] => Latest(d) \in completed[v]
      BY <1>a, <2>1
    <3> QED
      BY <1>b, <2>1, <3>1 DEF Settled
  <2> QED
    BY <1>a, <1>b, <2>1, <2>4, ActiveWrite
<1>5. ASSUME NEW o \in left[w], NEW landed \in BOOLEAN, NEW marked \in BOOLEAN,
             FailEvent(w, o, landed, marked) PROVE ActiveInv'
  <2>1. /\ ForgetWrite(w) /\ done' = done /\ completed' = completed
        /\ \A p \in Orders : lock'[p] \in {lock[p], None}
    BY <1>5 DEF FailEvent
  <2>2. \A d \in Docs : Settled(d)' => Settled(d)
    BY <1>1, <2>1
  <2>3. CASE landed
    <3>1. pend[w] # None /\ WriteActive(w)
      BY <1>5, <2>3 DEF FailEvent
    <3> QED
      BY <1>a, <1>b, <2>1, <2>2, <3>1, ActiveWrite
  <2>4. CASE ~landed
    <3>1. active' = active /\ \A p \in Writers : pend'[p] \in {pend[p], None}
      BY <1>5, <1>a, <2>1, <2>4 DEF FailEvent, ForgetWrite
    <3> QED
      BY <1>b, <2>2, <3>1, ActiveFrame
  <2> QED
    BY <2>3, <2>4
<1>6. CASE AckEvents(w)
  <2> DEFINE held == Held(w, completed[w])
  <2>1. /\ done' = done \cup held /\ completed' = [completed EXCEPT ![w] = {}]
        /\ lock' = [o \in Orders |-> IF o \in held THEN None ELSE lock[o]]
        /\ active' = active /\ pend' = pend
    BY <1>6 DEF AckEvents, indexVars, writerVars
  <2>2. \A o : o \in held => o \in completed[w] /\ lock[o] = w
    BY DEF Held
  <2> HIDE DEF held
  <2>3. ASSUME NEW d \in Docs, NEW v \in Workers,
               Latest(d) \in completed'[v], lock'[Latest(d)] = v
        PROVE  Latest(d) \in completed[v] /\ lock[Latest(d)] = v
    BY <1>a, <2>1, <2>3
  <2>4. \A d \in Docs : Settled(d)' => Settled(d)
    BY <1>b, <2>1, <2>2, <2>3 DEF Settled
  <2> QED
    BY <1>b, <2>1, <2>4, ActiveFrame
<1>7. CASE ReleaseClaim(w) \/ CrashWorker(w)
  <2>1. /\ done' = done /\ completed' = [completed EXCEPT ![w] = {}] /\ active' = active
        /\ \A o \in Orders : lock'[o] \in {lock[o], None}
        /\ \A p \in Writers : pend'[p] \in {pend[p], None}
    BY <1>7, <1>a DEF ReleaseClaim, CrashWorker, ForgetBatch, ForgetWrite, outboxVars, indexVars,
                      writerVars
  <2>2. \A v \in Workers : completed'[v] \subseteq completed[v]
    BY <1>a, <2>1
  <2> QED
    BY <1>1, <1>b, <2>1, <2>2, ActiveFrame
<1> QED
  BY <1>2, <1>3, <1>4, <1>5, <1>6, <1>7 DEF WorkerStep, WorkerFault

\* Entity jobs keep every document fresh or covered by an unprocessed event.
LEMMA ActiveJob ==
  ASSUME BaseInv, ActiveInv, NEW j \in EntityJobs, JobStep(j)
  PROVE  ActiveInv'
<1>a. /\ pend \in [Writers -> Write \cup {None}] /\ j \in Writers
      /\ source' = source /\ UNCHANGED <<done, lock, completed>>
  BY JobFrame DEF BaseInv, TypeOK, Writers, sourceVars, outboxVars, workerVars
<1>b. \A d \in Docs : Settled(d)' => Settled(d)
  BY <1>a DEF Settled, Latest
<1>1. ASSUME NEW d, NEW v, EntityVersion(j, d, v) PROVE ActiveInv'
  <2>1. active' = active /\ pend' = pend
    BY <1>1 DEF EntityVersion, indexVars, writerVars
  <2> QED
    BY <1>a, <1>b, <2>1, ActiveFrame
<1>2. CASE EntityFetch(j)
  <2>1. PICK d : d = want[j].doc
    OBVIOUS
  <2>2. PICK r : r = [ver |-> want[j].ver, rev |-> source[d].rev, live |-> source[d].live]
    OBVIOUS
  <2>3. pend' = [pend EXCEPT ![j] = [doc |-> d, row |-> r]] /\ active' = active
    BY <1>2, <2>1, <2>2 DEF EntityFetch, indexVars
  <2>4. r.live = source[d].live
    BY <2>2
  <2>5. ASSUME NEW e \in Docs, Shown(active[e], e) PROVE Shown(active[e], e)'
    <3>1. CASE Current(active[e], source[e])
      BY <1>a, <2>3, <3>1 DEF Shown
    <3>2. CASE ~Current(active[e], source[e])
      <4>1. /\ ~source[e].live /\ (active[e] # None => ~active[e].live)
            /\ \A p \in Writers : pend[p] # None /\ pend[p].doc = e => ~pend[p].row.live
        BY <2>5, <3>2 DEF Shown
      <4>2. \A p \in Writers : pend'[p] # None /\ pend'[p].doc = e => ~pend'[p].row.live
        BY <1>a, <2>3, <2>4, <4>1
      <4> QED
        BY <1>a, <2>3, <4>1, <4>2 DEF Shown
    <3> QED
      BY <3>1, <3>2
  <2> QED
    BY <1>a, <1>b, <2>3, <2>5 DEF ActiveInv, Latest
<1>3. CASE EntityWrite(j)
  <2>1. pend[j] # None /\ WriteActive(j) /\ ForgetWrite(j)
    BY <1>3 DEF EntityWrite
  <2> QED
    BY <1>a, <1>b, <2>1, ActiveWrite
<1> QED
  BY <1>1, <1>2, <1>3 DEF JobStep

(***************************************************************************)
(* The switch.  A shadow without a row of a deleted document is safe only  *)
(* because no write prepared before the watermark is still to come.        *)
(***************************************************************************)
LEMMA ActiveRebuild ==
  ASSUME BaseInv, CopyInv, LiveWrites, ActiveInv, ~StallSpansRebuild,
         RebuildStep \/ FailRebuild \/ \E m \in Versions : StartRebuild(m)
  PROVE  ActiveInv'
<1>a. source' = source /\ pend' = pend /\ UNCHANGED <<done, lock, completed>>
  BY RebuildFrame DEF sourceVars, outboxVars, workerVars
<1>b. \A d \in Docs : Settled(d)' => Settled(d)
  BY <1>a DEF Settled, Latest
<1>1. CASE active' = active
  BY <1>1, <1>a, <1>b, ActiveFrame
<1>2. ASSUME NEW m \in Versions, Activate(m) PROVE ActiveInv'
  <2>1. stale = {} /\ phase # "idle"
    BY <1>2 DEF Activate
  <2>2. ASSUME NEW d \in Docs, Settled(d)
        PROVE  Shown(active[d], d)'
    <3>1. ~Quarantined(Latest(d))
      BY <2>2, SettledNotQuarantined
    <3>2. CASE Current(active'[d], source[d])
      BY <1>a, <3>2 DEF Shown
    <3>3. CASE active'[d] = None /\ ~source[d].live /\ Latest(d) <= watermark
      <4>1. \A p \in Writers : pend[p] # None /\ pend[p].doc = d => ~pend[p].row.live
        BY <2>1, <3>3 DEF LiveWrites
      <4> QED
        BY <1>a, <3>3, <4>1 DEF Shown
    <3> QED
      BY <1>2, <3>1, <3>2, <3>3, SwitchShows
  <2>3. \A d \in Docs : active'[d] # None => active'[d].ver <= Latest(d)
    BY <1>2, SwitchShows
  <2> QED
    BY <1>a, <1>b, <2>2, <2>3 DEF ActiveInv, Latest
<1>3. CASE RebuildStep
  <2>1. active' = active \/ \E m \in Versions : Activate(m)
    BY <1>3 DEF RebuildStep, BuildRead, BuildStore, StartCatchUp, CatchUpPage, CatchUpApply,
                CatchUpDone, DeferActivation, indexVars
  <2> QED
    BY <1>1, <1>2, <2>1
<1>4. CASE FailRebuild \/ \E m \in Versions : StartRebuild(m)
  <2>1. active' = active
    BY <1>4 DEF FailRebuild, StartRebuild, indexVars
  <2> QED
    BY <1>1, <2>1
<1> QED
  BY <1>3, <1>4

\* Every step keeps the active generation's invariant.
LEMMA ActiveStep ==
  ASSUME BaseInv, CopyInv, LiveWrites, ActiveInv, ~StallSpansRebuild, [Next]_vars
  PROVE  ActiveInv'
<1>1. ASSUME UNCHANGED <<source, active, pend, done, lock, completed>> PROVE ActiveInv'
  <2>1. \A d \in Docs : Settled(d)' => Settled(d)
    BY <1>1 DEF Settled, Latest
  <2> QED
    BY <1>1, <2>1, ActiveFrame
<1>2. ASSUME NEW o \in committed, ReplayEvent(o) PROVE ActiveInv'
  BY <1>1, <1>2 DEF ReplayEvent, sourceVars, workerVars, writerVars, indexVars
<1>3. CASE UNCHANGED vars \/ Resting
  BY <1>1, <1>3 DEF vars, Resting, sourceVars, outboxVars, workerVars, writerVars, indexVars
<1> QED
  BY <1>2, <1>3, ActiveSource, ActiveWorker, ActiveJob, ActiveRebuild DEF Next

\* The inductive invariant of the index holds in every reachable state, when
\* no write is stalled through a whole rebuild and no quarantined event is
\* replayed during a catch-up.
THEOREM IndexCorrect ==
  ASSUME ~StallSpansRebuild, ~ReplayAnyTime
  PROVE  Spec => []IInv
<1>1. IInv /\ [Next]_vars => IInv'
  BY BaseStep, CopyStep, LiveWritesStep, ActiveStep DEF IInv, ShadowInv
<1> QED
  BY <1>1, InitIInv, PTL DEF Spec

(***************************************************************************)
(* The last change of a document is never lost: not by lapsed leases and   *)
(* lost acknowledgements, not by late or repeated writes, not by a         *)
(* rebuild and its switch (processBatch, writeActive, activateTail).       *)
(***************************************************************************)
THEOREM NoUpdateIsLost ==
  ASSUME ~StallSpansRebuild, ~ReplayAnyTime
  PROVE  Spec => []NoLostUpdate
<1>1. IInv => NoLostUpdate
  <2> SUFFICES ASSUME IInv, NEW d \in Docs,
                      \A o \in committed \ done : evt[o].doc # d
               PROVE  Fresh(active[d], d)
    BY DEF NoLostUpdate
  <2>1. Latest(d) = 0 \/ Latest(d) \in done
    BY DEF IInv, BaseInv, SourceInv
  <2>2. Shown(active[d], d)
    BY <2>1 DEF IInv, ActiveInv, Settled
  <2> QED
    BY <2>2 DEF Shown, Current, Fresh, Latest
<1> QED
  BY <1>1, IndexCorrect, PTL

-------------------------------------------------------------------------------
(***************************************************************************)
(* The index implements EventualIndex.                                     *)
(***************************************************************************)
\* Fresh is what the mapping says of a document that is not owed.
LEMMA FreshIsShown ==
  ASSUME TypeOK, NEW d \in Docs
  PROVE  Fresh(active[d], d) <=> Content(active[d]) = Content(source[d])
<1>1. source[d] \in Snapshot /\ active[d] \in Row \cup {None}
  BY DEF TypeOK
<1>2. source[d] # None /\ source[d].rev # None
  BY <1>1, NoneAssumption, NoVersionAssumption DEF Snapshot
<1> QED
  BY <1>1, <1>2, NoneAssumption, NoVersionAssumption DEF Fresh, Content, Row, Snapshot

\* A search shows a state of the source, or nothing.
LEMMA ContentType ==
  ASSUME TypeOK
  PROVE  /\ [d \in Docs |-> Content(active[d])] \in [Docs -> Versions \cup {None}]
         /\ [d \in Docs |-> Content(source[d])] \in [Docs -> Versions \cup {None}]
BY DEF TypeOK, Content, Row, Snapshot

\* The index owes what it owed before, unless the source changes.
LEMMA OwedShrinks ==
  ASSUME BaseInv, committed' = committed, evt' = evt, done \subseteq done'
  PROVE  Owed' \subseteq Owed
BY DEF Owed

\* A committed change is owed, and a search shows what it showed before.
LEMMA CommitChanges ==
  ASSUME BaseInv, NEW o \in open, CommitSource(o)
  PROVE  EI!Change(evt[o].doc, Content([rev |-> o, live |-> evt[o].live]))
<1> DEFINE x == evt[o].doc
           s == [rev |-> o, live |-> evt[o].live]
<1>1. /\ source' = [source EXCEPT ![x] = s]
      /\ committed' = committed \cup {o} /\ evt' = evt /\ done' = done /\ active' = active
  BY DEF CommitSource, outboxVars, indexVars
<1>2. x \in Docs /\ source \in [Docs -> Snapshot] /\ o \notin done
  <2>1. o \in Orders /\ evt[o] \in Event \cup {None} /\ evt[o] # None
    BY DEF BaseInv, TypeOK, SourceInv
  <2> QED
    BY <2>1 DEF BaseInv, TypeOK, SourceInv, OutboxInv, Event
<1>3. [d \in Docs |-> Content(source[d])]'
        = [[d \in Docs |-> Content(source[d])] EXCEPT ![x] = Content(s)]
  <2> SUFFICES ASSUME NEW d \in Docs
               PROVE  Content(source'[d]) = IF d = x THEN Content(s) ELSE Content(source[d])
    OBVIOUS
  <2>1. source'[d] = IF d = x THEN s ELSE source[d]
    BY <1>1, <1>2
  <2> QED
    BY <2>1
<1>4. Owed' = Owed \cup {x}
  BY <1>1, <1>2 DEF Owed
<1>5. [d \in Docs |-> Content(active[d])]' = [d \in Docs |-> Content(active[d])]
  BY <1>1
<1> QED
  BY <1>3, <1>4, <1>5 DEF EI!Change

\* Every other step leaves the source alone and takes nothing back.
LEMMA SourceOrIndex ==
  ASSUME BaseInv, [Next]_vars
  PROVE  \/ \E o \in open : CommitSource(o)
         \/ source' = source /\ Owed' \subseteq Owed
<1>0. /\ committed \subseteq Orders /\ done \subseteq committed
      /\ \A o \in open \cup committed : o <= lastOrder
      /\ \A o \in committed : o \in Nat /\ lastOrder \in Nat
  BY MaxOrderAssumption DEF BaseInv, TypeOK, SourceInv, OutboxInv, Orders, Versions
<1>1. ASSUME NEW d \in Docs, NEW l \in BOOLEAN, BeginSource(d, l)
      PROVE  source' = source /\ Owed' \subseteq Owed
  <2>1. /\ evt' = [evt EXCEPT ![lastOrder + 1] = [doc |-> d, live |-> l]]
        /\ committed' = committed /\ done' = done /\ source' = source
    BY <1>1 DEF BeginSource, outboxVars
  <2>2. \A o \in committed : evt'[o] = evt[o]
    BY <1>0, <2>1 DEF BaseInv, TypeOK
  <2> QED
    BY <2>1, <2>2 DEF Owed
<1>2. ASSUME UNCHANGED sourceVars, done \subseteq done'
      PROVE  source' = source /\ Owed' \subseteq Owed
  BY <1>2, OwedShrinks DEF sourceVars
<1>3. ASSUME NEW o \in open, AbortSource(o) PROVE source' = source /\ Owed' \subseteq Owed
  BY <1>3, OwedShrinks DEF AbortSource, outboxVars
<1>4. UNCHANGED vars \/ Resting => UNCHANGED sourceVars /\ done' = done
  BY DEF vars, Resting, outboxVars
<1>5. ASSUME NEW w \in Workers, WorkerStep(w) \/ WorkerFault(w)
      PROVE  UNCHANGED sourceVars /\ done \subseteq done'
  BY <1>5 DEF WorkerStep, WorkerFault, ClaimEvents, FetchForEvent, ApplyEvent, AckEvents,
    ReleaseClaim, FailEvent, CrashWorker, outboxVars
<1>6. ASSUME NEW o \in committed, ReplayEvent(o) PROVE UNCHANGED sourceVars /\ done' = done
  BY <1>6 DEF ReplayEvent
<1>7. ASSUME NEW j \in EntityJobs, JobStep(j) PROVE UNCHANGED sourceVars /\ done' = done
  BY <1>7 DEF JobStep, EntityVersion, EntityFetch, EntityWrite, outboxVars
<1>8. ASSUME RebuildStep \/ FailRebuild \/ \E m \in Versions : StartRebuild(m)
      PROVE  UNCHANGED sourceVars /\ done' = done
  BY <1>8 DEF RebuildStep, FailRebuild, StartRebuild, BuildRead, BuildStore, StartCatchUp,
    Activate, DeferActivation, CatchUpPage, CatchUpApply, CatchUpDone, outboxVars
<1> QED
  BY <1>1, <1>2, <1>3, <1>4, <1>5, <1>6, <1>7, <1>8 DEF Next, SourceStep

(***************************************************************************)
(* Workers, leases, retries, jobs and full rebuilds together implement the *)
(* index a reader of the main database expects: a change is owed until it  *)
(* is shown, under the two assumptions of IndexCorrect.                    *)
(***************************************************************************)
THEOREM IndexFollowsSource ==
  ASSUME ~StallSpansRebuild, ~ReplayAnyTime
  PROVE  Spec => FollowsTheSource
<1>1. Init => EI!Init
  <2> SUFFICES ASSUME Init PROVE EI!Init
    OBVIOUS
  <2>1. IInv
    BY InitIInv
  <2>2. Owed = {}
    BY DEF Owed, Init
  <2>3. ASSUME NEW d \in Docs PROVE Fresh(active[d], d)
    <3> DEFINE first == [ver |-> 0, rev |-> 0, live |-> TRUE]
    <3>a. 0 \in Versions
      BY MaxOrderAssumption DEF Versions
    <3>b. first \in Row
      BY <3>a DEF Row
    <3>1. first # None
      BY <3>b, NoneAssumption
    <3>2. /\ source[d] \in {[rev |-> 0, live |-> b] : b \in BOOLEAN}
          /\ active[d] = IF source[d].live THEN [ver |-> 0, rev |-> 0, live |-> TRUE] ELSE None
      BY DEF Init
    <3> QED
      BY <3>1, <3>2 DEF Fresh
  <2>4. \A d \in Docs : Content(active[d]) = Content(source[d])
    BY <2>1, <2>3, FreshIsShown DEF IInv, BaseInv
  <2> QED
    BY <2>1, <2>2, <2>4, ContentType DEF EI!Init, IInv, BaseInv
<1>2. IInv /\ NoLostUpdate' /\ IInv' /\ [Next]_vars => [EI!Next]_EI!vars
  <2> SUFFICES ASSUME IInv, NoLostUpdate', IInv', [Next]_vars PROVE EI!Next
    OBVIOUS
  <2>1. TypeOK /\ TypeOK' /\ BaseInv
    BY DEF IInv, BaseInv
  <2>2. CASE \E o \in open : CommitSource(o)
    <3>1. PICK o \in open : CommitSource(o)
      BY <2>2
    <3>2. evt[o].doc \in Docs /\ Content([rev |-> o, live |-> evt[o].live]) \in Versions \cup {None}
      <4>1. o \in Orders /\ evt[o] \in Event \cup {None} /\ evt[o] # None
        BY <2>1 DEF BaseInv, TypeOK, SourceInv
      <4>2. evt[o].doc \in Docs
        BY <4>1 DEF Event
      <4>3. o \in Versions
        BY <4>1, MaxOrderAssumption DEF Orders, Versions
      <4>4. Content([rev |-> o, live |-> evt[o].live]) \in {o, None}
        BY DEF Content
      <4> QED
        BY <4>2, <4>3, <4>4
    <3> QED
      BY <2>1, <3>1, <3>2, CommitChanges DEF EI!Next
  <2>3. CASE source' = source /\ Owed' \subseteq Owed
    <3>1. [d \in Docs |-> Content(active[d])]' \in [Docs -> Versions \cup {None}]
      BY <2>1 DEF TypeOK, Content, Row
    <3>2. ASSUME NEW d \in Docs \ Owed'
          PROVE  Content(active'[d]) = Content(source[d])
      <4>1. Fresh(active[d], d)'
        BY <3>2 DEF NoLostUpdate, Owed
      <4>2. source[d] \in Snapshot /\ active'[d] \in Row \cup {None}
        BY <2>1 DEF TypeOK
      <4>3. source[d] # None
        BY <4>2, NoneAssumption
      <4> QED
        BY <2>3, <4>1, <4>2, <4>3 DEF Fresh, Content
    <3> QED
      BY <2>3, <3>1, <3>2 DEF EI!Next, EI!Index
  <2> QED
    BY <2>1, <2>2, <2>3, SourceOrIndex
<1> QED
  BY <1>1, <1>2, IndexCorrect, NoUpdateIsLost, PTL DEF Spec, FollowsTheSource, EI!Spec
===============================================================================
