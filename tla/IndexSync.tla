------------------------------- MODULE IndexSync -------------------------------
(***************************************************************************)
(* How the index follows the main database.  Source transactions write a   *)
(* document and an outbox event together; outbox workers lease events,     *)
(* fetch the document and write it to the active generation; entity        *)
(* rebuild jobs rewrite one document; a full rebuild fills a shadow        *)
(* generation, catches up with the outbox and switches to it.              *)
(*                                                                         *)
(* Every database statement or short transaction of the code is one step,  *)
(* and the steps of all processes interleave.  A source document is the    *)
(* event_order of the last transaction that changed it and whether it      *)
(* still exists.  Leases carry no clock: a lease may lapse while its       *)
(* holder still works, each time at the cost of one fault, and at any time *)
(* once the holder has gone.                                               *)
(***************************************************************************)
EXTENDS SearchRows

CONSTANTS
  Workers,            \* outbox worker loops, over all replicas
  EntityJobs,         \* single-entity rebuild jobs (each runs once)
  BatchSize,          \* events claimed at a time
  MaxAttempts,        \* failures after which an event is quarantined
  PageSize,           \* catch-up page (500 in the code)
  TailLimit,          \* largest tail replayed under the switch lock (500)
  MaxRebuilds,        \* bound: full rebuilds started
  MaxFaults,          \* bound: crashes, lapsed leases, aborted batches, ...
  StallSpansRebuild,  \* a writer may stall between fetch and write through
                      \* a whole rebuild (watermark to switch)
  ReplayAnyTime       \* an operator may replay a quarantined event at any
                      \* time, not only before a rebuild's catch-up

ASSUME SyncAssumption ==
  /\ None \notin Workers
  /\ Workers \cap EntityJobs = {}
  /\ BatchSize \in Nat \ {0}
  /\ MaxAttempts \in Nat \ {0}
  /\ PageSize \in Nat \ {0}
  /\ TailLimit \in Nat
  /\ MaxRebuilds \in Nat
  /\ MaxFaults \in Nat
  /\ StallSpansRebuild \in BOOLEAN
  /\ ReplayAnyTime \in BOOLEAN

VARIABLES
  \* main database
  source,      \* source[d]: the committed document
  lastOrder,   \* last value of search_index_event_order_seq
  evt,         \* evt[o]: the event of order o, None before it is inserted
  open,        \* orders whose source transaction is still in flight
  committed,   \* orders visible in search_index_events
  done,        \* processed_at IS NOT NULL
  attempts,    \* attempts column
  lock,        \* the worker whose claim set locked_at, None when NULL
  \* worker processes
  claim,       \* claim[w]: the batch w holds in memory
  left,        \* left[w]: merged events w has still to process
  completed,   \* completed[w]: events w will acknowledge
  pend,        \* pend[p]: the write p has prepared from its fetch
  stale,       \* writers whose prepared write predates the rebuild's watermark
  \* entity rebuild jobs
  want,        \* want[j]: document and source version read, None before
  over,        \* finished jobs
  \* index database
  active,      \* rows of the active generation
  gen,         \* number of switches so far (identifies the generation)
  \* full rebuild
  phase, shadow, unbuilt, page, watermark, upper, cursor, todo,
  \* bounds
  rebuilds, faults

sourceVars  == <<source, lastOrder, evt, open, committed>>
outboxVars  == <<done, attempts, lock>>
workerVars  == <<claim, left, completed>>
writerVars  == <<pend, stale>>
jobVars     == <<want, over>>
indexVars   == <<active, gen>>
rebuildVars == <<phase, shadow, unbuilt, page, watermark, upper, cursor, todo, rebuilds>>
vars == <<sourceVars, outboxVars, workerVars, writerVars, jobVars, indexVars, rebuildVars, faults>>

Writers == Workers \cup EntityJobs

Write == [doc : Docs, row : Row]

Phases == {"idle", "building", "catchup", "ready"}

EventDoc == [o \in Orders |-> IF evt[o] = None THEN None ELSE evt[o].doc]

EventsOf(d, S) == {o \in S : evt[o].doc = d}

Fault == faults < MaxFaults /\ faults' = faults + 1

\* Failed MaxAttempts times: no worker claims it and catch-up leaves it out.
Quarantined(o) == o \in committed \ done /\ attempts[o] >= MaxAttempts

NoRows == [d \in Docs |-> None]

Init ==
  /\ source \in [Docs -> {[rev |-> 0, live |-> b] : b \in BOOLEAN}]
  /\ lastOrder = 0
  /\ evt = [o \in Orders |-> None]
  /\ open = {} /\ committed = {} /\ done = {}
  /\ attempts = [o \in Orders |-> 0]
  /\ lock = [o \in Orders |-> None]
  /\ claim = [w \in Workers |-> {}]
  /\ left = [w \in Workers |-> {}]
  /\ completed = [w \in Workers |-> {}]
  /\ pend = [p \in Writers |-> None]
  /\ stale = {}
  /\ want = [j \in EntityJobs |-> None]
  /\ over = {}
  /\ active = [d \in Docs |-> IF source[d].live
                                THEN [ver |-> 0, rev |-> 0, live |-> TRUE]
                                ELSE None]
  /\ gen = 0
  /\ phase = "idle"
  /\ shadow = NoRows /\ unbuilt = {} /\ page = NoRows
  /\ watermark = 0 /\ upper = 0 /\ cursor = 0 /\ todo = {}
  /\ rebuilds = 0 /\ faults = 0

-------------------------------------------------------------------------------
(***************************************************************************)
(* Source transactions (external: the application that owns the main       *)
(* database).  The order is taken from the sequence when the event row is  *)
(* inserted; transactions on one document are serialised by the row they   *)
(* update, transactions on different documents commit in any order.        *)
(***************************************************************************)
BeginSource(d, l) ==
  /\ lastOrder < MaxOrder
  /\ \A o \in open : evt[o].doc # d
  /\ lastOrder' = lastOrder + 1
  /\ evt' = [evt EXCEPT ![lastOrder + 1] = [doc |-> d, live |-> l]]
  /\ open' = open \cup {lastOrder + 1}
  /\ UNCHANGED <<source, committed, outboxVars, workerVars, writerVars, jobVars,
                 indexVars, rebuildVars, faults>>

CommitSource(o) ==
  /\ o \in open
  /\ open' = open \ {o}
  /\ committed' = committed \cup {o}
  /\ source' = [source EXCEPT ![evt[o].doc] = [rev |-> o, live |-> evt[o].live]]
  /\ UNCHANGED <<lastOrder, evt, outboxVars, workerVars, writerVars, jobVars,
                 indexVars, rebuildVars, faults>>

AbortSource(o) ==
  /\ o \in open
  /\ open' = open \ {o}
  /\ UNCHANGED <<source, lastOrder, evt, committed, outboxVars, workerVars,
                 writerVars, jobVars, indexVars, rebuildVars, faults>>

(***************************************************************************)
(* outboxCommitBarrier: SHARE mode waits until no transaction that has     *)
(* inserted an event is in flight, so the highest order read is a complete *)
(* commit boundary.                                                        *)
(***************************************************************************)
UnlockedBarrier(m) == IsHighest(m, committed)  \* mutant: max(event_order) without the lock

CommitBarrier(m) == open = {} /\ IsHighest(m, committed)

-------------------------------------------------------------------------------
(***************************************************************************)
(* Outbox worker.                                                          *)
(***************************************************************************)
\* WHERE locked_at = claimedAt: the events of S that w's claim still leases.
HeldOrNot(w, S) == S  \* mutant: the update names the events only

Held(w, S) == {o \in S : lock[o] = w}

\* A lease that lapsed while its holder still has the batch in hand.
TakenOver(w, batch) ==
  {o \in batch : lock[o] # None /\ lock[o] # w /\ o \in claim[lock[o]]}

(***************************************************************************)
(* claimEvents.  Events skipped because their row is locked, their lease   *)
(* is fresh or their retry delay has not passed make the batch any set of  *)
(* claimable events.  A claim is not an attempt.                           *)
(***************************************************************************)
ClaimEvents(w, batch) ==
  /\ claim[w] = {}
  /\ batch # {} /\ Cardinality(batch) <= BatchSize
  /\ \A o \in batch : attempts[o] < MaxAttempts
  /\ lock' = [o \in Orders |-> IF o \in batch THEN w ELSE lock[o]]
  /\ claim' = [claim EXCEPT ![w] = batch]
  /\ left' = [left EXCEPT ![w] = MergeLatest(batch, EventDoc)]
  /\ IF TakenOver(w, batch) = {} THEN UNCHANGED faults ELSE Fault
  /\ UNCHANGED <<sourceVars, done, attempts, completed, writerVars, jobVars,
                 indexVars, rebuildVars>>

(***************************************************************************)
(* What an event makes of its document: a delete event a tombstone, any    *)
(* other event the document as fetched now, or a tombstone when it is not  *)
(* found.  Used by processEvent and by applyEventFrom.                     *)
(***************************************************************************)
EventRow(o) ==
  IF evt[o].live
    THEN [ver |-> o, rev |-> source[evt[o].doc].rev, live |-> source[evt[o].doc].live]
    ELSE [ver |-> o, rev |-> o, live |-> FALSE]

\* processEvent up to the write: the fetch is made outside the switch lock.
FetchForEvent(w, o) ==
  /\ o \in left[w]
  /\ pend[w] = None
  /\ pend' = [pend EXCEPT ![w] = [doc |-> evt[o].doc, row |-> EventRow(o)]]
  /\ UNCHANGED <<sourceVars, outboxVars, workerVars, stale, jobVars, indexVars,
                 rebuildVars, faults>>

\* writeActive: one index transaction, under the generation switch lock.
OverwriteActive(p) ==  \* mutant: the row is stored whatever version is there
  active' = [active EXCEPT ![pend[p].doc] = pend[p].row]

WriteActive(p) ==
  active' = [active EXCEPT ![pend[p].doc] = GatedWrite(@, pend[p].row)]

ForgetWrite(p) ==
  /\ pend' = [pend EXCEPT ![p] = None]
  /\ stale' = stale \ {p}

\* The write succeeds: every claimed event of the document is completed.
ApplyEvent(w) ==
  /\ pend[w] # None
  /\ WriteActive(w)
  /\ completed' = [completed EXCEPT ![w] = @ \cup EventsOf(pend[w].doc, claim[w])]
  /\ left' = [left EXCEPT ![w] = @ \ EventsOf(pend[w].doc, claim[w])]
  /\ ForgetWrite(w)
  /\ UNCHANGED <<sourceVars, outboxVars, claim, jobVars, gen, rebuildVars, faults>>

(***************************************************************************)
(* processEvent returns an error, in the fetch or in the write - where the *)
(* commit may have landed all the same - and markFailed counts an attempt  *)
(* on the document's events it still holds the lease of. When markFailed   *)
(* fails itself the batch goes on, and keeps the lease until it ends.      *)
(***************************************************************************)
FailEvent(w, o, landed, marked) ==
  /\ o \in left[w]
  /\ pend[w] # None => pend[w].doc = evt[o].doc
  /\ IF landed THEN pend[w] # None /\ WriteActive(w) ELSE UNCHANGED active
  /\ ForgetWrite(w)
  /\ IF marked THEN UNCHANGED faults ELSE Fault
  /\ LET held == IF marked THEN Held(w, EventsOf(evt[o].doc, claim[w])) ELSE {}
     IN  /\ attempts' = [p \in Orders |-> IF p \in held THEN attempts[p] + 1 ELSE attempts[p]]
         /\ lock' = [p \in Orders |-> IF p \in held THEN None ELSE lock[p]]
  /\ left' = [left EXCEPT ![w] = @ \ {o}]
  /\ UNCHANGED <<sourceVars, done, claim, completed, jobVars, gen, rebuildVars>>

\* markProcessed, after the cache fence of the batch has completed.
AckEvents(w) ==
  /\ left[w] = {} /\ completed[w] # {}
  /\ LET held == Held(w, completed[w])
     IN  /\ done' = done \cup held
         /\ lock' = [o \in Orders |-> IF o \in held THEN None ELSE lock[o]]
  /\ completed' = [completed EXCEPT ![w] = {}]
  /\ UNCHANGED <<sourceVars, attempts, claim, left, writerVars, jobVars, indexVars,
                 rebuildVars, faults>>

ForgetBatch(w) ==
  /\ claim' = [claim EXCEPT ![w] = {}]
  /\ left' = [left EXCEPT ![w] = {}]
  /\ completed' = [completed EXCEPT ![w] = {}]

(***************************************************************************)
(* The deferred release of processBatch, at the end of the batch or, after *)
(* an expired deadline or a refused or ambiguous cache fence, before it.   *)
(***************************************************************************)
ReleaseClaim(w) ==
  /\ claim[w] # {} /\ pend[w] = None
  /\ IF left[w] = {} /\ completed[w] = {} THEN UNCHANGED faults ELSE Fault
  /\ lock' = [o \in Orders |-> IF o \in Held(w, claim[w]) \ done THEN None ELSE lock[o]]
  /\ ForgetBatch(w)
  /\ UNCHANGED <<sourceVars, done, attempts, writerVars, jobVars, indexVars, rebuildVars>>

\* The process dies with its batch; the leases stay in the table until they lapse.
CrashWorker(w) ==
  /\ claim[w] # {}
  /\ Fault
  /\ ForgetBatch(w)
  /\ ForgetWrite(w)
  /\ UNCHANGED <<sourceVars, outboxVars, jobVars, indexVars, rebuildVars>>

\* An operator makes a quarantined event eligible again (external).
ReplayEvent(o) ==
  /\ Quarantined(o)
  /\ ReplayAnyTime \/ phase \in {"idle", "building"}
  /\ Fault
  /\ attempts' = [attempts EXCEPT ![o] = 0]
  /\ UNCHANGED <<sourceVars, done, lock, workerVars, writerVars, jobVars, indexVars,
                 rebuildVars>>

-------------------------------------------------------------------------------
(***************************************************************************)
(* runEntityRebuild: version, then document, then a gated write.           *)
(***************************************************************************)
EntityVersion(j, d, v) ==
  /\ want[j] = None
  /\ IsHighest(v, EventsOf(d, committed))
  /\ want' = [want EXCEPT ![j] = [doc |-> d, ver |-> v]]
  /\ UNCHANGED <<sourceVars, outboxVars, workerVars, writerVars, over, indexVars,
                 rebuildVars, faults>>

EntityFetch(j) ==
  /\ want[j] # None /\ pend[j] = None /\ j \notin over
  /\ LET d == want[j].doc
     IN  pend' = [pend EXCEPT ![j] =
                    [doc |-> d, row |-> [ver |-> want[j].ver, rev |-> source[d].rev,
                                         live |-> source[d].live]]]
  /\ UNCHANGED <<sourceVars, outboxVars, workerVars, stale, jobVars, indexVars,
                 rebuildVars, faults>>

EntityWrite(j) ==
  /\ pend[j] # None
  /\ WriteActive(j)
  /\ ForgetWrite(j)
  /\ over' = over \cup {j}
  /\ UNCHANGED <<sourceVars, outboxVars, workerVars, want, gen, rebuildVars, faults>>

-------------------------------------------------------------------------------
(***************************************************************************)
(* Full rebuild: runFullRebuild and RebuildCoordinator.Run.                *)
(***************************************************************************)
StartRebuild(m) ==
  /\ phase = "idle" /\ rebuilds < MaxRebuilds
  /\ CommitBarrier(m)
  /\ phase' = "building"
  /\ watermark' = m /\ upper' = m /\ cursor' = m
  /\ shadow' = NoRows /\ unbuilt' = Docs /\ page' = NoRows /\ todo' = {}
  /\ stale' = {p \in Writers : pend[p] # None}
  /\ rebuilds' = rebuilds + 1
  /\ UNCHANGED <<sourceVars, outboxVars, workerVars, pend, jobVars, indexVars, faults>>

\* fetchMany: the documents of a page, as they are now; S covers the page's ids.
BuildRead(S) ==
  /\ phase = "building" /\ page = NoRows
  /\ S # {}
  /\ unbuilt' = unbuilt \ S
  /\ page' = [d \in Docs |-> IF d \in S /\ source[d].live THEN source[d] ELSE None]
  /\ UNCHANGED <<sourceVars, outboxVars, workerVars, writerVars, jobVars, indexVars,
                 phase, shadow, watermark, upper, cursor, todo, rebuilds, faults>>

(***************************************************************************)
(* populateSourceVersions and the writes of the page.  The versions are    *)
(* read after the documents, so a row may carry a version newer than its   *)
(* content.                                                                *)
(***************************************************************************)
BuildStore(v) ==
  /\ phase = "building" /\ page # NoRows
  /\ \A d \in Docs : IsHighest(v[d], EventsOf(d, committed))
  /\ shadow' = [d \in Docs |->
       IF page[d] = None
         THEN shadow[d]
         ELSE GatedWrite(shadow[d], [ver |-> v[d], rev |-> page[d].rev, live |-> TRUE])]
  /\ page' = NoRows
  /\ UNCHANGED <<sourceVars, outboxVars, workerVars, writerVars, jobVars, indexVars,
                 phase, unbuilt, watermark, upper, cursor, todo, rebuilds, faults>>

\* CatchUp: a fresh commit boundary after the build.
StartCatchUp(m) ==
  /\ phase = "building" /\ unbuilt = {} /\ page = NoRows
  /\ CommitBarrier(m)
  /\ phase' = "catchup" /\ upper' = m
  /\ UNCHANGED <<sourceVars, outboxVars, workerVars, writerVars, jobVars, indexVars,
                 shadow, unbuilt, page, watermark, cursor, todo, rebuilds, faults>>

\* eventsAfterFrom: processed or not, but never a quarantined event.
UnprocessedAfter(after, through) ==  \* mutant: processed_at IS NULL
  {o \in committed \ done : after < o /\ o <= through /\ ~Quarantined(o)}

EventsAfter(after, through) ==
  {o \in committed : after < o /\ o <= through /\ ~Quarantined(o)}

\* One page of catchUpThrough is read; last is the order of its last event.
CatchUpPage(last) ==
  /\ phase = "catchup" /\ todo = {}
  /\ last \in EventsAfter(cursor, upper)
  /\ LET events == EventsAfter(cursor, last)
     IN  /\ Cardinality(events) <= PageSize
         /\ Cardinality(events) = PageSize \/ events = EventsAfter(cursor, upper)
         /\ todo' = MergeLatest(events, EventDoc)
  /\ cursor' = last
  /\ UNCHANGED <<sourceVars, outboxVars, workerVars, writerVars, jobVars, indexVars,
                 phase, shadow, unbuilt, page, watermark, upper, rebuilds, faults>>

CatchUpApply(o) ==
  /\ o \in todo
  /\ shadow' = [shadow EXCEPT ![evt[o].doc] = GatedWrite(@, EventRow(o))]
  /\ todo' = todo \ {o}
  /\ UNCHANGED <<sourceVars, outboxVars, workerVars, writerVars, jobVars, indexVars,
                 phase, unbuilt, page, watermark, upper, cursor, rebuilds, faults>>

\* An empty page ends the pass and moves catchUpWatermark to its upper bound.
CatchUpDone ==
  /\ phase = "catchup" /\ todo = {}
  /\ EventsAfter(cursor, upper) = {}
  /\ phase' = "ready" /\ cursor' = upper
  /\ UNCHANGED <<sourceVars, outboxVars, workerVars, writerVars, jobVars, indexVars,
                 shadow, unbuilt, page, watermark, upper, todo, rebuilds, faults>>

EndRebuild ==
  /\ phase' = "idle"
  /\ shadow' = NoRows /\ unbuilt' = {} /\ page' = NoRows
  /\ watermark' = 0 /\ upper' = 0 /\ cursor' = 0 /\ todo' = {}

\* The tail of events, merged, applied to the shadow rows.
WithTail(events) ==
  [d \in Docs |->
     LET newest == EventsOf(d, MergeLatest(events, EventDoc))
     IN  IF newest = {} THEN shadow[d]
         ELSE GatedWrite(shadow[d], EventRow(CHOOSE o \in newest : TRUE))]

(***************************************************************************)
(* activateTail.  Switch lock and commit barrier are held from the read of *)
(* the tail to the commit: no writer, no event insert and no lease update  *)
(* comes in between, so the transaction is one step.                       *)
(***************************************************************************)
Activate(m) ==
  /\ phase = "ready"
  /\ CommitBarrier(m)
  /\ Cardinality(EventsAfter(cursor, m)) <= TailLimit
  /\ StallSpansRebuild \/ stale = {}
  /\ active' = WithTail(EventsAfter(cursor, m))
  /\ gen' = gen + 1
  /\ stale' = {}
  /\ EndRebuild
  /\ UNCHANGED <<sourceVars, outboxVars, workerVars, pend, jobVars, rebuilds, faults>>

\* A longer tail is replayed outside the lock and activation tried again.
DeferActivation(m) ==
  /\ phase = "ready"
  /\ CommitBarrier(m)
  /\ Cardinality(EventsAfter(cursor, m)) > TailLimit
  /\ phase' = "catchup" /\ upper' = m
  /\ UNCHANGED <<sourceVars, outboxVars, workerVars, writerVars, jobVars, indexVars,
                 shadow, unbuilt, page, watermark, cursor, todo, rebuilds, faults>>

\* Any error, timeout or crash of the rebuild: the shadow is never seen.
FailRebuild ==
  /\ phase # "idle"
  /\ Fault
  /\ stale' = {}
  /\ EndRebuild
  /\ UNCHANGED <<sourceVars, outboxVars, workerVars, pend, jobVars, indexVars, rebuilds>>

-------------------------------------------------------------------------------
\* Nothing left to do: the only state the system may rest in.
Pending == {o \in committed \ done : ~Quarantined(o)}

Resting ==
  /\ lastOrder = MaxOrder /\ open = {}
  /\ Workers = {} \/ Pending = {}
  /\ \A w \in Workers : claim[w] = {}
  /\ over = EntityJobs
  /\ phase = "idle" /\ rebuilds = MaxRebuilds
  /\ UNCHANGED vars

SourceStep ==
  \/ \E d \in Docs, l \in BOOLEAN : BeginSource(d, l)
  \/ \E o \in open : CommitSource(o) \/ AbortSource(o)

WorkerStep(w) ==
  \/ \E batch \in SUBSET (committed \ done) : ClaimEvents(w, batch)
  \/ \E o \in left[w] : FetchForEvent(w, o)
  \/ ApplyEvent(w)
  \/ AckEvents(w)
  \/ ReleaseClaim(w)

WorkerFault(w) ==
  \/ \E o \in left[w], landed, marked \in BOOLEAN : FailEvent(w, o, landed, marked)
  \/ CrashWorker(w)

JobStep(j) ==
  \/ \E d \in Docs, v \in Versions : EntityVersion(j, d, v)
  \/ EntityFetch(j)
  \/ EntityWrite(j)

RebuildStep ==
  \/ \E S \in SUBSET unbuilt : BuildRead(S)
  \/ \E v \in [Docs -> Versions] : BuildStore(v)
  \/ \E m \in Versions : StartCatchUp(m) \/ Activate(m) \/ DeferActivation(m)
  \/ \E last \in committed : CatchUpPage(last)
  \/ \E o \in todo : CatchUpApply(o)
  \/ CatchUpDone

Next ==
  \/ SourceStep
  \/ \E w \in Workers : WorkerStep(w) \/ WorkerFault(w)
  \/ \E o \in committed : ReplayEvent(o)
  \/ \E j \in EntityJobs : JobStep(j)
  \/ \E m \in Versions : StartRebuild(m)
  \/ RebuildStep
  \/ FailRebuild
  \/ Resting

(***************************************************************************)
(* Fairness: a transaction in flight ends, and worker loops keep running   *)
(* (Worker.loop polls for ever).  Nothing is assumed of rebuilds, entity   *)
(* jobs, faults or operators.                                              *)
(***************************************************************************)
Fairness ==
  /\ WF_vars(\E o \in open : CommitSource(o) \/ AbortSource(o))
  /\ \A w \in Workers : WF_vars(WorkerStep(w))

Spec == Init /\ [][Next]_vars

FairSpec == Spec /\ Fairness
-------------------------------------------------------------------------------
(***************************************************************************)
(* Properties.                                                             *)
(***************************************************************************)
TypeOK ==
  /\ source \in [Docs -> Snapshot]
  /\ lastOrder \in Versions
  /\ evt \in [Orders -> Event \cup {None}]
  /\ open \subseteq Orders /\ committed \subseteq Orders /\ done \subseteq Orders
  /\ attempts \in [Orders -> 0..MaxAttempts]
  /\ lock \in [Orders -> Workers \cup {None}]
  /\ claim \in [Workers -> SUBSET Orders]
  /\ left \in [Workers -> SUBSET Orders]
  /\ completed \in [Workers -> SUBSET Orders]
  /\ pend \in [Writers -> Write \cup {None}]
  /\ stale \subseteq Writers
  /\ want \in [EntityJobs -> [doc : Docs, ver : Versions] \cup {None}]
  /\ over \subseteq EntityJobs
  /\ active \in [Docs -> Row \cup {None}]
  /\ gen \in Nat
  /\ phase \in Phases
  /\ shadow \in [Docs -> Row \cup {None}]
  /\ unbuilt \subseteq Docs
  /\ page \in [Docs -> Snapshot \cup {None}]
  /\ watermark \in Versions /\ upper \in Versions /\ cursor \in Versions
  /\ todo \subseteq Orders
  /\ rebuilds \in 0..MaxRebuilds /\ faults \in 0..MaxFaults

\* What a search would show of d if the index were up to date.
Fresh(row, d) ==
  IF source[d].live
    THEN row # None /\ row.live /\ row.rev = source[d].rev
    ELSE row = None \/ ~row.live

(***************************************************************************)
(* A document whose row in the active generation differs from the source   *)
(* has an unprocessed outbox event: nothing that happens to leases,        *)
(* retries, rebuilds and switches may lose the last change of a document.  *)
(* (processBatch, markProcessed, writeActive, activateTail)                *)
(***************************************************************************)
NoLostUpdate ==
  \A d \in Docs :
    Fresh(active[d], d) \/ \E o \in committed \ done : evt[o].doc = d

(***************************************************************************)
(* The generation a full rebuild switches to shows every document as the   *)
(* source has it at the switch, unless the document's last event is        *)
(* quarantined.  (Build, CatchUp, Activate)                                *)
(***************************************************************************)
SwitchIsCurrent ==
  [][gen' # gen =>
       \A d \in Docs : Fresh(active'[d], d) \/ Quarantined(source[d].rev)]_vars

(***************************************************************************)
(* The effect of a processed event stays in the index: the active row of   *)
(* its document shows the source as of that event or later, also after a   *)
(* switch (README "marked processed_at once it succeeded", "catches up     *)
(* with the events produced after the watermark").                         *)
(***************************************************************************)
ProcessedStaysIndexed ==
  \A o \in done :
    LET row == active[evt[o].doc]
    IN  row # None => row.rev >= o \/ (~row.live /\ ~evt[o].live)

(***************************************************************************)
(* The promise of EventualIndex: a search shows what the row of a document  *)
(* in the active generation says, and the index owes the documents with    *)
(* unprocessed events.  So no step of workers, jobs, rebuilds, leases and   *)
(* replays makes the index owe a document anew, and what it stops owing -  *)
(* by an acknowledgement - it shows from that step on.                     *)
(* (processBatch, markProcessed, activateTail)                             *)
(***************************************************************************)
Content(x) == IF x # None /\ x.live THEN x.rev ELSE None

Owed == {d \in Docs : \E o \in committed \ done : evt[o].doc = d}

EI == INSTANCE EventualIndex
        WITH Contents <- Versions,
             source <- [d \in Docs |-> Content(source[d])],
             shown <- [d \in Docs |-> Content(active[d])],
             owed <- Owed

FollowsTheSource == EI!Spec

(***************************************************************************)
(* Once the source stops changing, every document is and stays up to date  *)
(* in the active generation, or its last event is quarantined.             *)
(***************************************************************************)
Converges ==
  \A d \in Docs : <>[](Fresh(active[d], d) \/ Quarantined(source[d].rev))
===============================================================================
