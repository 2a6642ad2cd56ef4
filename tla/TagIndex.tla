------------------------------- MODULE TagIndex -------------------------------
(***************************************************************************)
(* tag_index, the number of shown documents per tag of each generation,     *)
(* beside search_index, from which it is counted anew: in the transaction  *)
(* of every write to the active generation, by a standalone recount, and    *)
(* for the shadow generation of a rebuild, whose switch counts only the    *)
(* tags its last events touch.                                             *)
(*                                                                         *)
(* Transactions run at READ COMMITTED: a statement sees what is committed  *)
(* when it starts and the writes of its own transaction.  The version gate *)
(* and the source are those of IndexSync; here a write stores any row, or  *)
(* is refused.                                                             *)
(***************************************************************************)
EXTENDS Integers, FiniteSets

CONSTANTS
  Docs,
  Tags,        \* normalized tags
  RowValues,   \* what a row may say of its tags and of being shown
  Writers,     \* writes to the active generation: workers, entity jobs, requests
  Callers,     \* standalone recounts
  Job,         \* the full rebuild under way
  Readers,     \* requests for a page of tags
  None,        \* no row, no holder of a lock
  Same,        \* untouched by a transaction
  MaxGen,      \* bound: generations
  MaxWrites    \* bound: rows written

Row == [tags : SUBSET Tags, shown : BOOLEAN]
Procs == Writers \cup Callers \cup {Job}
Gens == 0..MaxGen

ASSUME TagsAssumption ==
  /\ RowValues \subseteq Row
  /\ Job \notin Writers \cup Callers /\ Writers \cap Callers = {}
  /\ None \notin Procs /\ None \notin Row /\ None \notin Gens /\ Same \notin Row \cup {None} /\ Same \notin Nat
  /\ IsFiniteSet(Docs)
  /\ MaxGen \in Nat /\ MaxWrites \in Nat

VARIABLES
  active,       \* the active generation
  search_index, \* search_index[g][d]: committed rows
  tag_index,    \* tag_index[g][t]: committed count, 0 for no row
  switchLock,   \* holder of generationSwitchLockKey
  genLock,      \* genLock[g]: holder of the lock on the generation's row
  tx,           \* tx[p]: the transaction of a process
  shadow,       \* the generation the job builds
  phase,        \* how far the job is
  reading,      \* reading[r]: the generation a request took for the active one, or None
  writes        \* bound

vars == <<active, search_index, tag_index, switchLock, genLock, tx, shadow, phase, reading, writes>>

NoTx == [stage |-> "idle", gen |-> 0, selected |-> {},
         rows |-> [d \in Docs |-> Same], counts |-> [t \in Tags |-> Same]]

Shows(x, t) == x # None /\ x.shown /\ t \in x.tags
Count(m, t) == Cardinality({d \in Docs : Shows(m[d], t)})
TagsOf(x) == IF x = None THEN {} ELSE x.tags

(* What the statements of a transaction see in its generation.             *)
View(p) == [d \in Docs |-> IF tx[p].rows[d] = Same
                           THEN search_index[tx[p].gen][d] ELSE tx[p].rows[d]]

(* Any rows, counted.                                                      *)
Init ==
  /\ active = 0
  /\ \E m \in [Docs -> RowValues \cup {None}] :
       /\ search_index = [g \in Gens |-> IF g = 0 THEN m ELSE [d \in Docs |-> None]]
       /\ tag_index = [g \in Gens |-> [t \in Tags |-> IF g = 0 THEN Count(m, t) ELSE 0]]
  /\ switchLock = None
  /\ genLock = [g \in Gens |-> None]
  /\ tx = [p \in Procs |-> NoTx]
  /\ shadow = 0 /\ phase = "none" /\ writes = 0
  /\ reading = [r \in Readers |-> None]

-------------------------------------------------------------------------------
(* Recounting, in a transaction that is already open.                      *)

\* Mutant: the generation's row is read without FOR UPDATE.
ReadGeneration(p) ==
  /\ tx[p].stage = "tags"
  /\ tx' = [tx EXCEPT ![p].stage = "locked"]
  /\ UNCHANGED <<active, search_index, tag_index, switchLock, genLock, shadow, phase, writes, reading>>

(* FOR UPDATE on the generation's row comes before the aggregate's          *)
(* snapshot.                                                               *)
LockGeneration(p) ==
  /\ tx[p].stage = "tags"
  /\ genLock[tx[p].gen] = None
  /\ genLock' = [genLock EXCEPT ![tx[p].gen] = p]
  /\ tx' = [tx EXCEPT ![p].stage = "locked"]
  /\ UNCHANGED <<active, search_index, tag_index, switchLock, shadow, phase, writes, reading>>

(* The selected tags are deleted and counted anew.                         *)
CountTags(p) ==
  /\ tx[p].stage = "locked"
  /\ tx' = [tx EXCEPT ![p].stage = "counted",
                      ![p].counts = [t \in Tags |-> IF t \in tx[p].selected
                                                    THEN Count(View(p), t) ELSE @[t]]]
  /\ UNCHANGED <<active, search_index, tag_index, switchLock, genLock, shadow, phase, writes, reading>>

Release(p) ==
  /\ tx' = [tx EXCEPT ![p] = NoTx]
  /\ switchLock' = IF switchLock = p THEN None ELSE switchLock
  /\ genLock' = [g \in Gens |-> IF genLock[g] = p THEN None ELSE genLock[g]]

StoreTx(p) ==
  LET g == tx[p].gen
  IN /\ search_index' = [search_index EXCEPT ![g] = View(p)]
     /\ tag_index' = [tag_index EXCEPT ![g] =
                        [t \in Tags |-> IF tx[p].counts[t] = Same THEN @[t] ELSE tx[p].counts[t]]]

Commit(p) ==
  /\ p # Job
  /\ tx[p].stage = "counted"
  /\ StoreTx(p)
  /\ Release(p)
  /\ UNCHANGED <<active, shadow, phase, writes, reading>>

(* An error, a timeout or the death of the process, at any point.          *)
Rollback(p) ==
  /\ p # Job
  /\ tx[p].stage # "idle"
  /\ Release(p)
  /\ UNCHANGED <<active, search_index, tag_index, shadow, phase, writes, reading>>

-------------------------------------------------------------------------------
(* writeActive.                                                            *)

BeginWrite(w) ==
  /\ tx[w].stage = "idle"
  /\ switchLock = None
  /\ switchLock' = w
  /\ tx' = [tx EXCEPT ![w].stage = "open", ![w].gen = active]
  /\ UNCHANGED <<active, search_index, tag_index, genLock, shadow, phase, writes, reading>>

WriteRow(w, d, x) ==
  /\ tx[w].stage = "open"
  /\ writes < MaxWrites
  /\ writes' = writes + 1
  /\ tx' = [tx EXCEPT ![w].stage = "tags", ![w].rows[d] = x, ![w].selected = Tags]
  /\ UNCHANGED <<active, search_index, tag_index, switchLock, genLock, shadow, phase, reading>>

(* Refused by the version gate: nothing changes and nothing is counted.    *)
RefuseRow(w) ==
  /\ tx[w].stage = "open"
  /\ Release(w)
  /\ UNCHANGED <<active, search_index, tag_index, shadow, phase, writes, reading>>

(* RebuildTags, without the switch lock: its generation may be retired      *)
(* before it is locked.                                                    *)
RebuildTags(c) ==
  /\ tx[c].stage = "idle"
  /\ tx' = [tx EXCEPT ![c].stage = "tags", ![c].gen = active, ![c].selected = Tags]
  /\ UNCHANGED <<active, search_index, tag_index, switchLock, genLock, shadow, phase, writes, reading>>

-------------------------------------------------------------------------------
(* The full rebuild.                                                       *)

StartBuild ==
  /\ phase = "none"
  /\ shadow < MaxGen
  /\ shadow' = shadow + 1
  /\ phase' = "build"
  /\ UNCHANGED <<active, search_index, tag_index, switchLock, genLock, tx, writes, reading>>

(* Build, catch-up and the replay of a large tail commit rows one by one.  *)
StoreRow(d, x) ==
  /\ phase \in {"build", "catchup"} /\ tx[Job].stage = "idle"
  /\ writes < MaxWrites
  /\ writes' = writes + 1
  /\ search_index' = [search_index EXCEPT ![shadow][d] = x]
  /\ UNCHANGED <<active, tag_index, switchLock, genLock, tx, shadow, phase, reading>>

(* rebuildTagsForGeneration, at the end of Build and again in Activate.    *)
BeginRecount ==
  /\ phase \in {"build", "catchup"} /\ tx[Job].stage = "idle"
  /\ tx' = [tx EXCEPT ![Job].stage = "tags", ![Job].gen = shadow, ![Job].selected = Tags]
  /\ UNCHANGED <<active, search_index, tag_index, switchLock, genLock, shadow, phase, writes, reading>>

CommitRecount ==
  /\ phase \in {"build", "catchup"} /\ tx[Job].stage = "counted"
  /\ StoreTx(Job)
  /\ Release(Job)
  /\ phase' = IF phase = "build" THEN "catchup" ELSE "recounted"
  /\ UNCHANGED <<active, shadow, writes, reading>>

(* activateTail: each event's row, and the tags it had and has.            *)
BeginTail ==
  /\ phase = "recounted" /\ switchLock = None
  /\ switchLock' = Job
  /\ phase' = "tail"
  /\ tx' = [tx EXCEPT ![Job].stage = "open", ![Job].gen = shadow]
  /\ UNCHANGED <<active, search_index, tag_index, genLock, shadow, writes, reading>>

\* Mutant: only the tags the row has after the event.
NewTags(d, x) == TagsOf(x)

TouchedTags(d, x) == TagsOf(View(Job)[d]) \cup TagsOf(x)

TailRow(d, x) ==
  /\ phase = "tail" /\ tx[Job].stage = "open"
  /\ tx[Job].rows[d] = Same
  /\ writes < MaxWrites
  /\ writes' = writes + 1
  /\ tx' = [tx EXCEPT ![Job].rows[d] = x, ![Job].selected = @ \cup TouchedTags(d, x)]
  /\ UNCHANGED <<active, search_index, tag_index, switchLock, genLock, shadow, phase, reading>>

(* More than 500 events, known before the first row: they are replayed      *)
(* without the lock, and all tags are counted again.                       *)
DeferTail ==
  /\ phase = "tail" /\ tx[Job].stage = "open"
  /\ \A d \in Docs : tx[Job].rows[d] = Same
  /\ Release(Job)
  /\ phase' = "catchup"
  /\ UNCHANGED <<active, search_index, tag_index, shadow, writes, reading>>

EndTail ==
  /\ phase = "tail" /\ tx[Job].stage = "open"
  /\ tx' = [tx EXCEPT ![Job].stage = IF tx[Job].selected = {} THEN "untagged" ELSE "tags"]
  /\ UNCHANGED <<active, search_index, tag_index, switchLock, genLock, shadow, phase, writes, reading>>

(* Retiring the old generation waits for the lock on its row.              *)
Activate ==
  /\ phase = "tail" /\ tx[Job].stage \in {"counted", "untagged"}
  /\ genLock[active] = None
  /\ StoreTx(Job)
  /\ Release(Job)
  /\ active' = shadow
  /\ phase' = "none"
  /\ UNCHANGED <<shadow, writes, reading>>

FailBuild ==
  /\ phase # "none"
  /\ Release(Job)
  /\ phase' = "none"
  /\ UNCHANGED <<active, search_index, tag_index, shadow, writes, reading>>

-------------------------------------------------------------------------------
(* Tags: the active generation is read first; the total and the page are    *)
(* then read from its rows, in later statements and in no transaction.     *)

ReadActive(r) ==
  /\ reading[r] = None
  /\ reading' = [reading EXCEPT ![r] = active]
  /\ UNCHANGED <<active, search_index, tag_index, switchLock, genLock, tx, shadow, phase, writes>>

EndRead(r) ==
  /\ reading[r] # None
  /\ reading' = [reading EXCEPT ![r] = None]
  /\ UNCHANGED <<active, search_index, tag_index, switchLock, genLock, tx, shadow, phase, writes>>

-------------------------------------------------------------------------------
Next ==
  \/ \E p \in Procs : LockGeneration(p) \/ CountTags(p) \/ Commit(p) \/ Rollback(p)
  \/ \E w \in Writers : \/ BeginWrite(w) \/ RefuseRow(w)
                        \/ \E d \in Docs, x \in RowValues : WriteRow(w, d, x)
  \/ \E c \in Callers : RebuildTags(c)
  \/ \E d \in Docs, x \in RowValues : StoreRow(d, x) \/ TailRow(d, x)
  \/ StartBuild \/ BeginRecount \/ CommitRecount \/ BeginTail \/ DeferTail
  \/ EndTail \/ Activate \/ FailBuild
  \/ \E r \in Readers : ReadActive(r) \/ EndRead(r)

Spec == Init /\ [][Next]_vars

-------------------------------------------------------------------------------
(* Properties.                                                             *)

Tx == [stage : {"idle", "open", "tags", "locked", "counted", "untagged"}, gen : Gens,
       selected : SUBSET Tags, rows : [Docs -> Row \cup {None, Same}],
       counts : [Tags -> Nat \cup {Same}]]

TypeOK ==
  /\ active \in Gens /\ shadow \in Gens
  /\ search_index \in [Gens -> [Docs -> Row \cup {None}]]
  /\ tag_index \in [Gens -> [Tags -> Nat]]
  /\ switchLock \in Procs \cup {None}
  /\ genLock \in [Gens -> Procs \cup {None}]
  /\ tx \in [Procs -> Tx]
  /\ phase \in {"none", "build", "catchup", "recounted", "tail"}
  /\ reading \in [Readers -> Gens \cup {None}]
  /\ writes \in Nat

(* A request for tags always finds the counts of the rows it could search: *)
(* whatever is committed, the counts of the active generation are those of *)
(* its rows - also right after a switch, which counts only some tags, and  *)
(* beside recounts that do not take the switch lock.                       *)
TagsMatchRows == \A t \in Tags : tag_index[active][t] = Count(search_index[active], t)

(* Between reading the active generation and reading the page a request may *)
(* sleep through a switch.  What it then finds are still counts of the rows *)
(* of the generation it took, whoever recounts or writes meanwhile: a       *)
(* retired generation is never left half counted.                          *)
ReadersSeeTheirRows ==
  \A r \in Readers : reading[r] # None =>
    \A t \in Tags : tag_index[reading[r]][t] = Count(search_index[reading[r]], t)
===============================================================================
