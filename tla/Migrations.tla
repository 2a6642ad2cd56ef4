------------------------------ MODULE Migrations ------------------------------
(***************************************************************************)
(* The migrations of the index database: runs of `nexusindex migrate up`    *)
(* that compete for an advisory lock, each migration committed together     *)
(* with its row, and processes of the service that check at their start     *)
(* what is installed and then run without looking again.                    *)
(*                                                                         *)
(* A definition stands for the name and the hash of a migration; its        *)
(* version is its place in the manifest of a binary, which the start of    *)
(* the program checks. A table of installed migrations that does not exist *)
(* yet is an empty one: Status answers version 0 for both.                  *)
(***************************************************************************)
EXTENDS Integers, Sequences

CONSTANTS
  Binaries,     \* builds of the program
  Manifest,     \* Manifest[b]: the definitions built into b, in order
  Definitions,  \* names and hashes of migrations
  Migrators,    \* places where `migrate up` is run, one run at a time in each
  Services,     \* places where the service is run
  None          \* no session

ASSUME ManifestAssumption == Manifest \in [Binaries -> Seq(Definitions)]

ASSUME PlacesAssumption == Migrators \cap Services = {}

ASSUME NoneAssumption == None \notin Migrators

\* Whether search_index_events.event_order of the forum's database is there, a bigint and
\* not null.
OutboxForms == {"v1", "v2"}

Running == {"waiting", "locked", "planned", "executed", "inserted"}
Ended == {"succeeded", "refused", "failed"}
Booting == {"started", "validated", "serving"}

VARIABLES
  installed,   \* rows of nexusindex_schema_migrations: a definition per version
  schema,      \* the migrations whose SQL was committed, in order
  holder,      \* the session that has the advisory lock, or None
  migrator,    \* migrator[m]: where the run of `migrate up` is
  binary,      \* binary[p]: what is run at p
  session,     \* session[m]: the database still has the connection of m
  next,        \* next[m]: the version the run of m applies next
  service,     \* service[s]: where the start of the process is
  outbox       \* the form of the forum's outbox table

vars == <<installed, schema, holder, migrator, binary, session, next, service, outbox>>

-------------------------------------------------------------------------------
(***************************************************************************)
(* What is installed.                                                      *)
(***************************************************************************)
Versions == DOMAIN installed

\* CurrentVersion: the version of the last row, 0 without rows.
CurrentIs(v) == IF Versions = {} THEN v = 0
                ELSE v \in Versions /\ \A w \in Versions : w <= v

TargetVersion(b) == Len(Manifest[b])

\* validateInstalled: the n-th row is the n-th migration of the binary, with its hash.
ValidateInstalled(b) ==
  \E n \in 0..Len(Manifest[b]) :
    /\ Versions = 1..n
    /\ \A v \in 1..n : installed[v] = Manifest[b][v]

WithRow(rows, v, d) == [w \in DOMAIN rows \cup {v} |-> IF w = v THEN d ELSE rows[w]]

-------------------------------------------------------------------------------
(***************************************************************************)
(* `nexusindex migrate up`.                                                *)
(***************************************************************************)
Unmoved == UNCHANGED <<installed, schema, service, outbox>>

To(m, place) == migrator' = [migrator EXCEPT ![m] = place]

\* Up returns: its variables are gone.
EndAt(m, place) == To(m, place) /\ next' = [next EXCEPT ![m] = 1]

\* The command connects as the owner of the schema and asks for the lock.
BeginUp(m, b) ==
  /\ migrator[m] \notin Running /\ ~session[m]
  /\ To(m, "waiting")
  /\ binary' = [binary EXCEPT ![m] = b]
  /\ session' = [session EXCEPT ![m] = TRUE]
  /\ Unmoved /\ UNCHANGED <<holder, next>>

NoLock(m) ==    \* mutant: no lock
  /\ migrator[m] = "waiting"
  /\ To(m, "locked")
  /\ Unmoved /\ UNCHANGED <<holder, binary, session, next>>

\* SELECT pg_advisory_lock: waits for the session that has it.
Lock(m) ==
  /\ migrator[m] = "waiting"
  /\ holder = None
  /\ holder' = m
  /\ To(m, "locked")
  /\ Unmoved /\ UNCHANGED <<binary, session, next>>

\* The deferred unlock.
Unlock(m) == holder' = IF holder = m THEN None ELSE holder

\* statusOnConn reads the rows, and validateInstalled and Plan compare them with the manifest.
PlanUp(m) ==
  /\ migrator[m] = "locked"
  /\ ValidateInstalled(binary[m])
  /\ \E v \in 0..TargetVersion(binary[m]) : CurrentIs(v) /\ next' = [next EXCEPT ![m] = v + 1]
  /\ To(m, "planned")
  /\ Unmoved /\ UNCHANGED <<holder, binary, session>>

Refuse(m) ==
  /\ migrator[m] = "locked"
  /\ ~ValidateInstalled(binary[m])
  /\ EndAt(m, "refused")
  /\ Unlock(m)
  /\ Unmoved /\ UNCHANGED <<binary, session>>

\* applyMigration begins a transaction and runs the migration's SQL in it.
ExecSQL(m) ==
  /\ migrator[m] = "planned"
  /\ next[m] <= TargetVersion(binary[m])
  /\ To(m, "executed")
  /\ Unmoved /\ UNCHANGED <<holder, binary, session, next>>

\* INSERT of the row: it waits for a transaction that has inserted the same version, and the
\* primary key refuses a version that is there already.
InsertRow(m) ==
  /\ migrator[m] = "executed"
  /\ \A o \in Migrators \ {m} : migrator[o] = "inserted" => next[o] # next[m]
  /\ IF next[m] \in Versions
       THEN EndAt(m, "refused") /\ Unlock(m)
       ELSE To(m, "inserted") /\ UNCHANGED <<holder, next>>
  /\ Unmoved /\ UNCHANGED <<binary, session>>

\* The transaction of m takes effect: the SQL and the row together.
Apply(m) ==
  LET definition == Manifest[binary[m]][next[m]]
  IN  /\ schema' = Append(schema, definition)
      /\ installed' = WithRow(installed, next[m], definition)

Commit(m) ==
  /\ migrator[m] = "inserted"
  /\ Apply(m)
  /\ next' = [next EXCEPT ![m] = @ + 1]
  /\ To(m, "planned")
  /\ UNCHANGED <<holder, binary, session, service, outbox>>

\* The last pending migration is in: Up returns nil and gives the lock back.
FinishUp(m) ==
  /\ migrator[m] = "planned"
  /\ next[m] > TargetVersion(binary[m])
  /\ EndAt(m, "succeeded")
  /\ Unlock(m)
  /\ Unmoved /\ UNCHANGED <<binary, session>>

FailKeepsSQL(m) ==    \* mutant: a migration outside of a transaction
  /\ migrator[m] \in Running
  /\ EndAt(m, "failed")
  /\ Unlock(m)
  /\ schema' = IF migrator[m] \in {"executed", "inserted"}
                 THEN Append(schema, Manifest[binary[m]][next[m]]) ELSE schema
  /\ UNCHANGED <<installed, service, outbox, binary, session>>

\* A statement fails: the deferred Rollback undoes the transaction, Up gives the lock back.
FailUp(m) ==
  /\ migrator[m] \in Running
  /\ EndAt(m, "failed")
  /\ Unlock(m)
  /\ Unmoved /\ UNCHANGED <<binary, session>>

\* The process dies or its connection breaks. The session keeps what it has for now.
CrashUp(m) ==
  /\ migrator[m] \in Running
  /\ EndAt(m, "crashed")
  /\ Unmoved /\ UNCHANGED <<holder, binary, session>>

\* The same after it sent COMMIT: the database carries it out.
CrashInCommit(m) ==
  /\ migrator[m] = "inserted"
  /\ Apply(m)
  /\ EndAt(m, "crashed")
  /\ UNCHANGED <<holder, binary, session, service, outbox>>

\* A session that waits for the lock gets it though its process is gone.
GrantToDead(m) ==
  /\ migrator[m] = "crashed" /\ session[m]
  /\ holder = None
  /\ holder' = m
  /\ Unmoved /\ UNCHANGED <<migrator, binary, session, next>>

SessionKeepsLock(m) ==    \* mutant: a lock that outlives the session
  /\ migrator[m] \notin Running /\ session[m]
  /\ session' = [session EXCEPT ![m] = FALSE]
  /\ Unmoved /\ UNCHANGED <<holder, migrator, binary, next>>

\* The database ends the session of a process that is gone, and its locks with it.
EndSession(m) ==
  /\ migrator[m] \notin Running /\ session[m]
  /\ session' = [session EXCEPT ![m] = FALSE]
  /\ Unlock(m)
  /\ Unmoved /\ UNCHANGED <<migrator, binary, next>>

-------------------------------------------------------------------------------
(***************************************************************************)
(* The start of the service.                                               *)
(***************************************************************************)
ServiceTo(s, place) == service' = [service EXCEPT ![s] = place]

Untouched == UNCHANGED <<installed, schema, holder, migrator, session, next, outbox>>

StartService(s, b) ==
  /\ service[s] \notin Booting
  /\ ServiceTo(s, "started")
  /\ binary' = [binary EXCEPT ![s] = b]
  /\ Untouched

VersionOnly(s) ==    \* mutant: only the version is compared
  /\ service[s] = "started"
  /\ CurrentIs(TargetVersion(binary[s]))
  /\ ServiceTo(s, "validated")
  /\ Untouched /\ UNCHANGED binary

\* ValidateSchemaVersion: one statement reads the rows.
ValidateSchemaVersion(s) ==
  /\ service[s] = "started"
  /\ CurrentIs(TargetVersion(binary[s]))
  /\ ValidateInstalled(binary[s])
  /\ ServiceTo(s, "validated")
  /\ Untouched /\ UNCHANGED binary

\* ValidateMainOutboxSchema; the process recovers its jobs, starts the worker and serves.
ValidateMainOutboxSchema(s) ==
  /\ service[s] = "validated"
  /\ outbox = "v2"
  /\ ServiceTo(s, "serving")
  /\ Untouched /\ UNCHANGED binary

\* log.Fatal of a step that failed, or the death of the process.
Exit(s) ==
  /\ service[s] \in Booting
  /\ ServiceTo(s, "exited")
  /\ Untouched /\ UNCHANGED binary

\* The forum migrates its own database.
ForumMigrates ==
  /\ outbox # "v2"
  /\ outbox' = "v2"
  /\ UNCHANGED <<installed, schema, holder, migrator, binary, session, next, service>>

-------------------------------------------------------------------------------
Init ==
  /\ installed = [v \in {} |-> None]
  /\ schema = <<>>
  /\ holder = None
  /\ migrator = [m \in Migrators |-> "idle"]
  /\ binary \in [Migrators \cup Services -> Binaries]
  /\ session = [m \in Migrators |-> FALSE]
  /\ next = [m \in Migrators |-> 1]
  /\ service = [s \in Services |-> "exited"]
  /\ outbox \in OutboxForms

Next ==
  \/ \E m \in Migrators, b \in Binaries : BeginUp(m, b)
  \/ \E m \in Migrators :
       \/ Lock(m) \/ PlanUp(m) \/ Refuse(m)
       \/ ExecSQL(m) \/ InsertRow(m) \/ Commit(m)
       \/ FinishUp(m) \/ FailUp(m)
       \/ CrashUp(m) \/ CrashInCommit(m) \/ GrantToDead(m) \/ EndSession(m)
  \/ \E s \in Services, b \in Binaries : StartService(s, b)
  \/ \E s \in Services :
       \/ ValidateSchemaVersion(s) \/ ValidateMainOutboxSchema(s) \/ Exit(s)
  \/ ForumMigrates

\* A run that has the processor takes its next step, the database ends dead sessions, and
\* it serves those who wait for an advisory lock in order.
Fairness ==
  \A m \in Migrators :
    /\ SF_vars(Lock(m))
    /\ WF_vars(PlanUp(m) \/ Refuse(m) \/ ExecSQL(m) \/ InsertRow(m) \/ Commit(m)
               \/ FinishUp(m))
    /\ WF_vars(EndSession(m))

Spec == Init /\ [][Next]_vars /\ Fairness

-------------------------------------------------------------------------------
(***************************************************************************)
(* Properties.                                                             *)
(***************************************************************************)
TypeOK ==
  /\ installed \in Seq(Definitions) /\ schema \in Seq(Definitions)
  /\ holder \in Migrators \cup {None}
  /\ migrator \in [Migrators -> Running \cup Ended \cup {"idle", "crashed"}]
  /\ binary \in [Migrators \cup Services -> Binaries]
  /\ session \in [Migrators -> BOOLEAN]
  /\ next \in [Migrators -> Nat \ {0}]
  /\ service \in [Services -> Booting \cup {"exited"}]
  /\ outbox \in OutboxForms

\* The binary's migrations are the first ones of those installed.
Installed(b) ==
  /\ Len(Manifest[b]) <= Len(installed)
  /\ \A v \in 1..Len(Manifest[b]) : installed[v] = Manifest[b][v]

\* A run of `migrate up` that is at work.
AtWork == {"locked", "planned", "executed", "inserted"}

\* What makes Up safe: who is at work has the lock and a session, and what it read under
\* the lock still holds when it writes.
LockedPlan ==
  \A m \in Migrators :
    /\ migrator[m] \in AtWork => holder = m
    /\ migrator[m] \in Running => session[m]
    /\ migrator[m] \in {"planned", "executed", "inserted"} =>
         /\ next[m] = Len(installed) + 1
         /\ Len(installed) <= Len(Manifest[binary[m]])
         /\ \A v \in 1..Len(installed) : installed[v] = Manifest[binary[m]][v]
    /\ migrator[m] \in {"executed", "inserted"} => next[m] <= Len(Manifest[binary[m]])

\* The database holds the SQL of the migrations that are recorded, each applied once and
\* in order, whatever fails and whenever a process dies: no run applies a migration a
\* second time after a crash or skips one (runner.go, applyMigration).
SchemaIsRecorded == schema = installed

\* Whoever was told that the database has its schema has it for good: behind each process
\* of the service that passed its check, and each `migrate up` that succeeded, the
\* migrations of its binary are installed in order, so no two of them ever disagree on a
\* migration, though nobody looks again and newer migrations come while it serves.
OneHistory ==
  /\ \A s \in Services : service[s] \in {"validated", "serving"} => Installed(binary[s])
  /\ \A m \in Migrators : migrator[m] = "succeeded" => Installed(binary[m])

\* A run of `migrate up` is refused only for what the manifests say, never because another
\* run was at work beside it.
NoFalseRefusal ==
  \A m \in Migrators : migrator[m] = "refused" => ~ValidateInstalled(binary[m])

IInv == TypeOK /\ LockedPlan /\ SchemaIsRecorded /\ OneHistory /\ NoFalseRefusal

\* Every run of `migrate up` ends, however many others run and die beside it: no process
\* that is gone keeps the others from the lock.
UpEnds == \A m \in Migrators : migrator[m] = "waiting" ~> migrator[m] \in Ended \cup {"crashed"}
===============================================================================
