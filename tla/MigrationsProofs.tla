--------------------------- MODULE MigrationsProofs ---------------------------
(***************************************************************************)
(* Proofs about Migrations for any builds, manifests, migrators and        *)
(* services. What a run reads under the lock stays true until it gives the *)
(* lock back (LockedPlan), so what it appends continues its own manifest,  *)
(* and what is installed only grows.                                       *)
(***************************************************************************)
EXTENDS Migrations, SequenceTheorems, TLAPS

LEMMA InitIInv == Init => IInv
<1> SUFFICES ASSUME Init PROVE IInv
  OBVIOUS
<1> USE DEF Init
<1>1. installed = <<>>
  BY EmptySeq
<1>2. TypeOK
  BY <1>1 DEF TypeOK, Running, Ended, Booting, OutboxForms
<1>3. LockedPlan
  BY DEF LockedPlan, AtWork, Running
<1>4. SchemaIsRecorded
  BY <1>1 DEF SchemaIsRecorded
<1>5. OneHistory /\ NoFalseRefusal
  BY DEF OneHistory, NoFalseRefusal
<1> QED
  BY <1>2, <1>3, <1>4, <1>5 DEF IInv

-------------------------------------------------------------------------------
(* The rows as a sequence.                                                 *)

LEMMA RowIsAppended ==
  ASSUME NEW rows \in Seq(Definitions), NEW d \in Definitions
  PROVE  WithRow(rows, Len(rows) + 1, d) = Append(rows, d)
<1>1. /\ Len(rows) \in Nat /\ DOMAIN rows = 1..Len(rows)
      /\ DOMAIN rows \cup {Len(rows) + 1} = 1..(Len(rows) + 1)
  OBVIOUS
<1>2. /\ Append(rows, d) \in Seq(Definitions) /\ Len(Append(rows, d)) = Len(rows) + 1
      /\ Append(rows, d)[Len(rows) + 1] = d
      /\ \A w \in 1..Len(rows) : Append(rows, d)[w] = rows[w]
  BY AppendProperties
<1>3. Append(rows, d) = [w \in 1..(Len(rows) + 1) |-> Append(rows, d)[w]]
  BY <1>2, LenProperties
<1>4. WithRow(rows, Len(rows) + 1, d)
        = [w \in 1..(Len(rows) + 1) |-> IF w = Len(rows) + 1 THEN d ELSE rows[w]]
  BY <1>1 DEF WithRow
<1>5. \A w \in 1..(Len(rows) + 1) :
        Append(rows, d)[w] = IF w = Len(rows) + 1 THEN d ELSE rows[w]
  BY <1>1, <1>2
<1> QED
  BY <1>3, <1>4, <1>5

LEMMA CurrentIsLast ==
  ASSUME TypeOK, NEW v \in Nat, CurrentIs(v)
  PROVE  v = Len(installed)
<1>1. Versions = 1..Len(installed) /\ Len(installed) \in Nat
  BY DEF TypeOK, Versions
<1>2. CASE Versions = {}
  BY <1>1, <1>2 DEF CurrentIs
<1>3. CASE Versions # {}
  <2>1. v \in 1..Len(installed) /\ \A w \in 1..Len(installed) : w <= v
    BY <1>1, <1>3 DEF CurrentIs
  <2>2. Len(installed) \in 1..Len(installed)
    BY <2>1, <1>1
  <2> QED
    BY <2>1, <2>2, <1>1
<1> QED
  BY <1>2, <1>3

\* What a run may go on from, or a process may start with.
LEMMA ValidMeansPrefix ==
  ASSUME TypeOK, NEW b \in Binaries, ValidateInstalled(b)
  PROVE  /\ Len(installed) <= Len(Manifest[b])
         /\ \A v \in 1..Len(installed) : installed[v] = Manifest[b][v]
<1>1. PICK n \in 0..Len(Manifest[b]) :
        Versions = 1..n /\ \A v \in 1..n : installed[v] = Manifest[b][v]
  BY DEF ValidateInstalled
<1>2. Len(Manifest[b]) \in Nat /\ Len(installed) \in Nat /\ 1..n = 1..Len(installed)
  BY <1>1, ManifestAssumption DEF TypeOK, Versions
<1>3. n = Len(installed)
  <2>1. CASE n = 0
    <3>1. 1 \notin 1..n
      BY <2>1
    <3>2. ~(1 <= Len(installed))
      BY <1>2, <3>1
    <3> QED
      BY <1>2, <2>1, <3>2
  <2>2. CASE n # 0
    <3>1. n \in 1..Len(installed)
      BY <1>2, <2>2
    <3>2. Len(installed) \in 1..n
      BY <1>2, <3>1
    <3> QED
      BY <3>1, <3>2, <1>2
  <2> QED
    BY <2>1, <2>2
<1> QED
  BY <1>1, <1>2, <1>3

\* What follows the installed migrations in a manifest that starts with them.
LEMMA PrefixIsInstalled ==
  ASSUME TypeOK, NEW b \in Binaries, Len(Manifest[b]) = Len(installed),
         \A v \in 1..Len(installed) : installed[v] = Manifest[b][v]
  PROVE  Installed(b)
BY ManifestAssumption DEF Installed, TypeOK

-------------------------------------------------------------------------------
(* Steps that leave the rows alone keep what is recorded and installed.    *)

LEMMA QuietRows ==
  ASSUME UNCHANGED installed
  PROVE  \A b : /\ Installed(b)' <=> Installed(b)
                /\ ValidateInstalled(b)' <=> ValidateInstalled(b)
BY DEF Installed, ValidateInstalled, Versions

LEMMA QuietMigratorStep ==
  ASSUME IInv, UNCHANGED <<installed, schema, service, outbox, binary>>, NEW m \in Migrators,
         NEW p \in Running \cup Ended \cup {"idle", "crashed"},
         migrator' = [migrator EXCEPT ![m] = p],
         holder' \in {holder, None} \cup {m}, next' \in [Migrators -> Nat \ {0}],
         \A o \in Migrators \ {m} : next'[o] = next[o],
         holder = m \/ holder = None \/ holder' = holder,
         session' = session, p \in Running => session[m],
         p \in AtWork => holder' = m,
         p \in {"planned", "executed", "inserted"} =>
           /\ next'[m] = Len(installed) + 1
           /\ Len(installed) <= Len(Manifest[binary[m]])
           /\ \A v \in 1..Len(installed) : installed[v] = Manifest[binary[m]][v],
         p \in {"executed", "inserted"} => next'[m] <= Len(Manifest[binary[m]]),
         p = "succeeded" => Installed(binary[m]),
         p = "refused" => ~ValidateInstalled(binary[m])
  PROVE  IInv'
<1> USE DEF IInv
<1>1. TypeOK'
  BY DEF TypeOK
<1>2. LockedPlan'
  <2> SUFFICES ASSUME NEW o \in Migrators
               PROVE /\ migrator'[o] \in AtWork => holder' = o
                     /\ migrator'[o] \in Running => session'[o]
                     /\ migrator'[o] \in {"planned", "executed", "inserted"} =>
                          /\ next'[o] = Len(installed') + 1
                          /\ Len(installed') <= Len(Manifest[binary'[o]])
                          /\ \A v \in 1..Len(installed') :
                               installed'[v] = Manifest[binary'[o]][v]
                     /\ migrator'[o] \in {"executed", "inserted"} =>
                          next'[o] <= Len(Manifest[binary'[o]])
    BY DEF LockedPlan
  <2>1. CASE o = m
    BY <2>1 DEF TypeOK
  <2>2. CASE o # m
    <3>1. migrator'[o] = migrator[o] /\ next'[o] = next[o]
      BY <2>2 DEF TypeOK
    <3>2. migrator[o] \in AtWork => holder' = o
      BY <2>2, NoneAssumption DEF LockedPlan
    <3> QED
      BY <3>1, <3>2 DEF LockedPlan
  <2> QED
    BY <2>1, <2>2
<1>3. SchemaIsRecorded'
  BY DEF SchemaIsRecorded
<1>4. OneHistory'
  BY QuietRows DEF OneHistory, TypeOK
<1>5. NoFalseRefusal'
  BY QuietRows DEF NoFalseRefusal, TypeOK
<1> QED
  BY <1>1, <1>2, <1>3, <1>4, <1>5

-------------------------------------------------------------------------------
(* A commit continues the manifest of the run that has the lock, and what   *)
(* was installed before stays.                                             *)

LEMMA ApplyStep ==
  ASSUME IInv, NEW m \in Migrators, migrator[m] = "inserted", Apply(m),
         UNCHANGED <<holder, binary, session, service, outbox>>,
         NEW p \in {"planned", "crashed"}, migrator' = [migrator EXCEPT ![m] = p],
         next' \in [Migrators -> Nat \ {0}], \A o \in Migrators \ {m} : next'[o] = next[o],
         p = "planned" => next'[m] = next[m] + 1
  PROVE  IInv'
<1> USE DEF IInv
<1> DEFINE manifest == Manifest[binary[m]]
           d == manifest[next[m]]
<1>1. /\ binary[m] \in Binaries /\ manifest \in Seq(Definitions)
      /\ Len(manifest) \in Nat /\ Len(installed) \in Nat
      /\ migrator[m] \in AtWork /\ holder = m
  BY ManifestAssumption DEF TypeOK, LockedPlan, AtWork
<1>2. /\ next[m] = Len(installed) + 1 /\ next[m] <= Len(manifest)
      /\ \A v \in 1..Len(installed) : installed[v] = manifest[v]
  BY DEF LockedPlan
<1>3. d \in Definitions
  BY <1>1, <1>2
<1>4. installed' = Append(installed, d) /\ schema' = Append(schema, d)
  BY <1>2, <1>3, RowIsAppended DEF Apply, TypeOK
<1>5. /\ installed' \in Seq(Definitions) /\ schema' \in Seq(Definitions)
      /\ Len(installed') = Len(installed) + 1
      /\ \A v \in 1..Len(installed) : installed'[v] = installed[v]
      /\ installed'[Len(installed) + 1] = d
  BY <1>1, <1>3, <1>4 DEF TypeOK
<1>6. TypeOK'
  BY <1>5 DEF TypeOK, Running
<1>7. LockedPlan'
  <2> SUFFICES ASSUME NEW o \in Migrators
               PROVE /\ migrator'[o] \in AtWork => holder' = o
                     /\ migrator'[o] \in Running => session'[o]
                     /\ migrator'[o] \in {"planned", "executed", "inserted"} =>
                          /\ next'[o] = Len(installed') + 1
                          /\ Len(installed') <= Len(Manifest[binary'[o]])
                          /\ \A v \in 1..Len(installed') :
                               installed'[v] = Manifest[binary'[o]][v]
                     /\ migrator'[o] \in {"executed", "inserted"} =>
                          next'[o] <= Len(Manifest[binary'[o]])
    BY DEF LockedPlan
  <2>1. CASE o = m
    <3>1. migrator'[o] = p
      BY <2>1 DEF TypeOK
    <3>2. migrator[m] \in Running => session[m]
      BY DEF LockedPlan
    <3>3. \A v \in 1..Len(installed') : installed'[v] = manifest[v]
      BY <1>1, <1>2, <1>5
    <3> QED
      BY <2>1, <3>1, <3>2, <3>3, <1>1, <1>2, <1>5 DEF AtWork, Running, TypeOK
  <2>2. CASE o # m
    <3>1. migrator'[o] = migrator[o] /\ migrator[o] \notin AtWork
      BY <2>2, <1>1 DEF TypeOK, LockedPlan
    <3> QED
      BY <3>1 DEF LockedPlan, AtWork
  <2> QED
    BY <2>1, <2>2
<1>8. SchemaIsRecorded'
  BY <1>4 DEF SchemaIsRecorded
<1>9. \A b \in Binaries : Installed(b) => Installed(b)'
  BY <1>1, <1>5, ManifestAssumption DEF Installed
<1>10. OneHistory'
  BY <1>9 DEF OneHistory, TypeOK
<1>11. NoFalseRefusal'
  <2> SUFFICES ASSUME NEW o \in Migrators, migrator'[o] = "refused",
                      ValidateInstalled(binary[o])'
               PROVE FALSE
    BY DEF NoFalseRefusal
  <2>1. o # m /\ migrator[o] = "refused" /\ binary[o] \in Binaries /\ binary'[o] = binary[o]
    BY DEF TypeOK
  <2>2. /\ Len(installed') <= Len(Manifest[binary[o]])
        /\ \A v \in 1..Len(installed') : installed'[v] = Manifest[binary[o]][v]
    <3>1. PICK n \in 0..Len(Manifest[binary[o]]) :
            DOMAIN installed' = 1..n /\ \A v \in 1..n : installed'[v] = Manifest[binary[o]][v]
      BY <2>1 DEF ValidateInstalled, Versions
    <3>2. 1..n = 1..(Len(installed) + 1) /\ n \in Nat /\ Len(Manifest[binary[o]]) \in Nat
      BY <3>1, <1>1, <1>5, <2>1, ManifestAssumption
    <3>3. n = Len(installed) + 1
      <4>1. Len(installed) + 1 \in 1..n
        BY <3>2, <1>1
      <4>2. n \in 1..(Len(installed) + 1)
        BY <3>2, <4>1
      <4> QED
        BY <4>1, <4>2, <1>1, <3>2
    <3> QED
      BY <3>1, <3>2, <3>3, <1>5
  <2>3. ValidateInstalled(binary[o])
    <3>1. Versions = 1..Len(installed) /\ Len(Manifest[binary[o]]) \in Nat
      BY <2>1, ManifestAssumption DEF Versions, TypeOK
    <3>2. \A v \in 1..Len(installed) : installed[v] = Manifest[binary[o]][v]
      BY <2>2, <1>5, <1>1
    <3>3. Len(installed) \in 0..Len(Manifest[binary[o]])
      BY <2>2, <1>5, <1>1, <3>1
    <3> QED
      BY <3>1, <3>2, <3>3 DEF ValidateInstalled
  <2> QED
    BY <2>1, <2>3 DEF NoFalseRefusal
<1> QED
  BY <1>6, <1>7, <1>8, <1>10, <1>11

-------------------------------------------------------------------------------
(* The service.                                                            *)

LEMMA ServiceStep ==
  ASSUME IInv, Untouched, NEW s \in Services, NEW p \in Booting \cup {"exited"},
         service' = [service EXCEPT ![s] = p],
         binary' \in [Migrators \cup Services -> Binaries],
         \A o \in (Migrators \cup Services) \ {s} : binary'[o] = binary[o],
         p \in {"validated", "serving"} => binary'[s] = binary[s] /\ Installed(binary[s])
  PROVE  IInv'
<1> USE DEF IInv, Untouched
<1>1. \A m \in Migrators : binary'[m] = binary[m]
  BY PlacesAssumption
<1>2. TypeOK'
  BY DEF TypeOK
<1>3. LockedPlan'
  BY <1>1 DEF LockedPlan
<1>4. SchemaIsRecorded'
  BY DEF SchemaIsRecorded
<1>5. OneHistory'
  <2>1. ASSUME NEW o \in Services, service'[o] \in {"validated", "serving"}
        PROVE  Installed(binary[o])'
    <3>1. CASE o = s
      BY <2>1, <3>1, QuietRows DEF TypeOK, Installed
    <3>2. CASE o # s
      BY <2>1, <3>2, QuietRows DEF TypeOK, OneHistory, Installed
    <3> QED
      BY <3>1, <3>2
  <2>2. ASSUME NEW m \in Migrators, migrator'[m] = "succeeded"
        PROVE  Installed(binary[m])'
    BY <1>1, <2>2, QuietRows DEF OneHistory, Installed
  <2> QED
    BY <2>1, <2>2 DEF OneHistory
<1>6. NoFalseRefusal'
  BY <1>1, QuietRows DEF NoFalseRefusal, ValidateInstalled, Versions
<1> QED
  BY <1>2, <1>3, <1>4, <1>5, <1>6

-------------------------------------------------------------------------------
(* Every step keeps the invariant.                                         *)

LEMMA BeginUpStep ==
  ASSUME IInv, NEW m \in Migrators, NEW b \in Binaries, BeginUp(m, b)
  PROVE  IInv'
<1> USE DEF IInv, BeginUp, Unmoved, To
<1>1. TypeOK'
  BY DEF TypeOK, Running
<1>2. LockedPlan'
  BY DEF LockedPlan, TypeOK, AtWork, Running
<1>3. SchemaIsRecorded'
  BY DEF SchemaIsRecorded
<1>4. \A p \in (Migrators \cup Services) \ {m} : binary'[p] = binary[p]
  BY DEF TypeOK
<1>5. OneHistory'
  <2>1. ASSUME NEW s \in Services, service'[s] \in {"validated", "serving"}
        PROVE  Installed(binary[s])'
    BY <1>4, <2>1, QuietRows, PlacesAssumption DEF OneHistory, Installed
  <2>2. ASSUME NEW o \in Migrators, migrator'[o] = "succeeded"
        PROVE  Installed(binary[o])'
    <3>1. o # m /\ migrator[o] = "succeeded"
      BY <2>2 DEF TypeOK
    <3> QED
      BY <1>4, <3>1, QuietRows DEF OneHistory, Installed
  <2> QED
    BY <2>1, <2>2 DEF OneHistory
<1>6. NoFalseRefusal'
  <2> SUFFICES ASSUME NEW o \in Migrators, migrator'[o] = "refused"
               PROVE  ~ValidateInstalled(binary[o])'
    BY DEF NoFalseRefusal
  <2>1. o # m /\ migrator[o] = "refused"
    BY DEF TypeOK
  <2> QED
    BY <1>4, <2>1, QuietRows DEF NoFalseRefusal, ValidateInstalled, Versions
<1> QED
  BY <1>1, <1>2, <1>3, <1>5, <1>6

LEMMA MigratorStep ==
  ASSUME IInv, NEW m \in Migrators,
         \/ Lock(m) \/ PlanUp(m) \/ Refuse(m) \/ ExecSQL(m) \/ InsertRow(m) \/ Commit(m)
         \/ FinishUp(m) \/ FailUp(m) \/ CrashUp(m) \/ CrashInCommit(m)
  PROVE  IInv'
<1> USE DEF IInv, Unmoved, To, EndAt
<1>1. /\ binary[m] \in Binaries /\ Manifest[binary[m]] \in Seq(Definitions)
      /\ Len(Manifest[binary[m]]) \in Nat /\ Len(installed) \in Nat
      /\ next \in [Migrators -> Nat \ {0}] /\ holder \in Migrators \cup {None}
  BY ManifestAssumption DEF TypeOK
<1>2. /\ migrator[m] \in Running => session[m]
      /\ migrator[m] \in AtWork => holder = m
      /\ migrator[m] \in {"planned", "executed", "inserted"} =>
           /\ next[m] = Len(installed) + 1
           /\ Len(installed) <= Len(Manifest[binary[m]])
           /\ \A v \in 1..Len(installed) : installed[v] = Manifest[binary[m]][v]
      /\ migrator[m] \in {"executed", "inserted"} => next[m] <= Len(Manifest[binary[m]])
  BY DEF LockedPlan
<1>3. CASE Lock(m)
  <2>1. "locked" \in Running /\ "locked" \in AtWork
    BY DEF Running, AtWork
  <2> QED
    BY <1>1, <1>2, <1>3, <2>1, QuietMigratorStep DEF Lock, Running
<1>4. CASE PlanUp(m)
  <2>1. PICK v \in 0..TargetVersion(binary[m]) :
          CurrentIs(v) /\ next' = [next EXCEPT ![m] = v + 1]
    BY <1>4 DEF PlanUp
  <2>2. v = Len(installed)
    BY <2>1, <1>1, CurrentIsLast DEF TargetVersion
  <2>3. /\ Len(installed) <= Len(Manifest[binary[m]])
        /\ \A w \in 1..Len(installed) : installed[w] = Manifest[binary[m]][w]
    BY <1>1, <1>4, ValidMeansPrefix DEF PlanUp
  <2>4. next'[m] = Len(installed) + 1 /\ next' \in [Migrators -> Nat \ {0}]
        /\ \A o \in Migrators \ {m} : next'[o] = next[o]
    BY <1>1, <2>1, <2>2
  <2>5. "planned" \in Running /\ migrator[m] \in Running /\ migrator[m] \in AtWork
    BY <1>4 DEF PlanUp, Running, AtWork
  <2> QED
    BY <1>2, <1>4, <2>3, <2>4, <2>5, QuietMigratorStep DEF PlanUp
<1>5. CASE Refuse(m)
  <2>1. "refused" \in Ended /\ "refused" \notin Running /\ "refused" \notin AtWork
    BY DEF Ended, Running, AtWork
  <2>2. next' \in [Migrators -> Nat \ {0}] /\ \A o \in Migrators \ {m} : next'[o] = next[o]
    BY <1>1, <1>5 DEF Refuse
  <2>3. holder' \in {holder, None} /\ holder = m
    BY <1>2, <1>5 DEF Refuse, Unlock, AtWork
  <2> QED
    BY <1>5, <2>1, <2>2, <2>3, QuietMigratorStep DEF Refuse
<1>6. CASE ExecSQL(m)
  <2>1. "executed" \in Running /\ migrator[m] \in Running /\ migrator[m] \in AtWork
    BY <1>6 DEF ExecSQL, Running, AtWork
  <2> QED
    BY <1>1, <1>2, <1>6, <2>1, QuietMigratorStep DEF ExecSQL, TargetVersion
<1>7. CASE InsertRow(m)
  <2>1. next[m] \notin Versions
    BY <1>1, <1>2, <1>7 DEF InsertRow, Versions, TypeOK
  <2>2. "inserted" \in Running /\ migrator[m] \in Running /\ migrator[m] \in AtWork
    BY <1>7 DEF InsertRow, Running, AtWork
  <2> QED
    BY <1>1, <1>2, <1>7, <2>1, <2>2, QuietMigratorStep DEF InsertRow
<1>8. CASE Commit(m)
  <2>1. next' \in [Migrators -> Nat \ {0}] /\ (\A o \in Migrators \ {m} : next'[o] = next[o])
        /\ next'[m] = next[m] + 1
    BY <1>1, <1>8 DEF Commit
  <2> QED
    BY <1>8, <2>1, ApplyStep DEF Commit
<1>9. CASE FinishUp(m)
  <2>1. "succeeded" \in Ended /\ "succeeded" \notin Running /\ "succeeded" \notin AtWork
        /\ migrator[m] \in AtWork
    BY <1>9 DEF Ended, Running, AtWork, FinishUp
  <2>2. next' \in [Migrators -> Nat \ {0}] /\ \A o \in Migrators \ {m} : next'[o] = next[o]
    BY <1>1, <1>9 DEF FinishUp
  <2>3. holder' \in {holder, None} /\ holder = m
    BY <1>2, <1>9, <2>1 DEF FinishUp, Unlock
  <2>4. Installed(binary[m])
    <3>1. Len(Manifest[binary[m]]) = Len(installed)
      BY <1>1, <1>2, <1>9 DEF FinishUp, TargetVersion
    <3> QED
      BY <1>1, <1>2, <1>9, <3>1, PrefixIsInstalled DEF FinishUp
  <2> QED
    BY <1>9, <2>1, <2>2, <2>3, <2>4, QuietMigratorStep DEF FinishUp
<1>10. CASE FailUp(m)
  <2>1. "failed" \in Ended /\ "failed" \notin Running /\ "failed" \notin AtWork
    BY DEF Ended, Running, AtWork
  <2>2. next' \in [Migrators -> Nat \ {0}] /\ \A o \in Migrators \ {m} : next'[o] = next[o]
    BY <1>1, <1>10 DEF FailUp
  <2>3. holder' \in {holder, None} /\ (holder = m \/ holder' = holder)
    BY <1>10 DEF FailUp, Unlock
  <2> QED
    BY <1>10, <2>1, <2>2, <2>3, QuietMigratorStep DEF FailUp
<1>11. CASE CrashUp(m)
  <2>1. "crashed" \notin Running /\ "crashed" \notin AtWork
    BY DEF Running, AtWork
  <2>2. next' \in [Migrators -> Nat \ {0}] /\ \A o \in Migrators \ {m} : next'[o] = next[o]
    BY <1>1, <1>11 DEF CrashUp
  <2> QED
    BY <1>11, <2>1, <2>2, QuietMigratorStep DEF CrashUp
<1>12. CASE CrashInCommit(m)
  <2>1. next' \in [Migrators -> Nat \ {0}] /\ \A o \in Migrators \ {m} : next'[o] = next[o]
    BY <1>1, <1>12 DEF CrashInCommit
  <2> QED
    BY <1>12, <2>1, ApplyStep DEF CrashInCommit
<1> QED
  BY <1>3, <1>4, <1>5, <1>6, <1>7, <1>8, <1>9, <1>10, <1>11, <1>12

LEMMA SessionStep ==
  ASSUME IInv, NEW m \in Migrators, GrantToDead(m) \/ EndSession(m)
  PROVE  IInv'
<1> USE DEF IInv, Unmoved
<1>1. TypeOK'
  BY DEF TypeOK, GrantToDead, EndSession, Unlock
<1>2. LockedPlan'
  <2>1. CASE GrantToDead(m)
    <3>1. \A o \in Migrators : migrator[o] \notin AtWork
      BY <2>1, NoneAssumption DEF GrantToDead, LockedPlan
    <3> QED
      BY <2>1, <3>1 DEF LockedPlan, GrantToDead, AtWork
  <2>2. CASE EndSession(m)
    <3>1. migrator[m] \notin AtWork
      BY <2>2 DEF EndSession, AtWork, Running
    <3>2. \A o \in Migrators : migrator[o] \in Running => o # m
      BY <2>2 DEF EndSession
    <3>3. \A o \in Migrators : migrator[o] \in AtWork => holder' = o
      BY <2>2, <3>1 DEF EndSession, Unlock, LockedPlan
    <3>4. \A o \in Migrators : migrator[o] \in Running => session'[o]
      BY <2>2, <3>2 DEF EndSession, LockedPlan, TypeOK
    <3> QED
      BY <2>2, <3>3, <3>4 DEF LockedPlan, EndSession
  <2> QED
    BY <2>1, <2>2
<1>3. SchemaIsRecorded'
  BY DEF SchemaIsRecorded, GrantToDead, EndSession
<1>4. OneHistory' /\ NoFalseRefusal'
  BY QuietRows DEF OneHistory, NoFalseRefusal, GrantToDead, EndSession
<1> QED
  BY <1>1, <1>2, <1>3, <1>4

LEMMA StartStep ==
  ASSUME IInv, NEW s \in Services,
         \/ \E b \in Binaries : StartService(s, b)
         \/ ValidateSchemaVersion(s) \/ ValidateMainOutboxSchema(s) \/ Exit(s)
  PROVE  IInv'
<1> USE DEF IInv, ServiceTo
<1>1. /\ binary \in [Migrators \cup Services -> Binaries] /\ binary[s] \in Binaries
      /\ service[s] \in {"validated", "serving"} => Installed(binary[s])
  BY DEF TypeOK, OneHistory
<1>2. ASSUME NEW b \in Binaries, StartService(s, b) PROVE IInv'
  <2>1. "started" \in Booting
    BY DEF Booting
  <2>2. /\ binary' \in [Migrators \cup Services -> Binaries]
        /\ \A o \in (Migrators \cup Services) \ {s} : binary'[o] = binary[o]
    BY <1>1, <1>2 DEF StartService
  <2> QED
    BY <1>2, <2>1, <2>2, ServiceStep DEF StartService
<1>3. CASE ValidateSchemaVersion(s)
  <2>1. "validated" \in Booting
    BY DEF Booting
  <2>2. Len(Manifest[binary[s]]) = Len(installed)
    BY <1>1, <1>3, CurrentIsLast, ManifestAssumption DEF ValidateSchemaVersion, TargetVersion
  <2>3. \A v \in 1..Len(installed) : installed[v] = Manifest[binary[s]][v]
    BY <1>1, <1>3, ValidMeansPrefix DEF ValidateSchemaVersion
  <2>4. Installed(binary[s])
    BY <1>1, <2>2, <2>3, PrefixIsInstalled
  <2> QED
    BY <1>1, <1>3, <2>1, <2>4, ServiceStep DEF ValidateSchemaVersion
<1>4. CASE ValidateMainOutboxSchema(s)
  <2>1. "serving" \in Booting
    BY DEF Booting
  <2> QED
    BY <1>1, <1>4, <2>1, ServiceStep DEF ValidateMainOutboxSchema
<1>5. CASE Exit(s)
  BY <1>1, <1>5, ServiceStep DEF Exit
<1> QED
  BY <1>2, <1>3, <1>4, <1>5

LEMMA IInvStep == IInv /\ [Next]_vars => IInv'
<1> SUFFICES ASSUME IInv, [Next]_vars PROVE IInv'
  OBVIOUS
<1>1. ASSUME NEW m \in Migrators, NEW b \in Binaries, BeginUp(m, b) PROVE IInv'
  BY <1>1, BeginUpStep
<1>2. ASSUME NEW m \in Migrators,
             \/ Lock(m) \/ PlanUp(m) \/ Refuse(m) \/ ExecSQL(m) \/ InsertRow(m) \/ Commit(m)
             \/ FinishUp(m) \/ FailUp(m) \/ CrashUp(m) \/ CrashInCommit(m)
      PROVE IInv'
  BY <1>2, MigratorStep
<1>3. ASSUME NEW m \in Migrators, GrantToDead(m) \/ EndSession(m) PROVE IInv'
  BY <1>3, SessionStep
<1>4. ASSUME NEW s \in Services,
             \/ \E b \in Binaries : StartService(s, b)
             \/ ValidateSchemaVersion(s) \/ ValidateMainOutboxSchema(s) \/ Exit(s)
      PROVE IInv'
  BY <1>4, StartStep
<1>5. CASE ForumMigrates
  BY <1>5, QuietRows DEF ForumMigrates, IInv, TypeOK, OutboxForms, LockedPlan, SchemaIsRecorded,
       OneHistory, NoFalseRefusal
<1>6. CASE UNCHANGED vars
  BY <1>6, QuietRows DEF vars, IInv, TypeOK, LockedPlan, SchemaIsRecorded, OneHistory,
       NoFalseRefusal
<1> QED
  BY <1>1, <1>2, <1>3, <1>4, <1>5, <1>6 DEF Next

\* The invariant holds for any builds and any number of runs and processes: what a run of
\* Up reads under the lock (runner.go, Up) stays true until it gives the lock back.
THEOREM MigrationsCorrect == Spec => []IInv
BY InitIInv, IInvStep, PTL DEF Spec

\* Each migration that is recorded was applied once, in order, and with its row
\* (runner.go, applyMigration), whatever fails and whenever a process dies.
THEOREM SchemaRecorded == Spec => []SchemaIsRecorded
<1>1. IInv => SchemaIsRecorded
  BY DEF IInv
<1> QED
  BY <1>1, MigrationsCorrect, PTL

\* What ValidateSchemaVersion and Up promised once stays true for good, so all processes
\* that serve agree on every migration their binaries share.
THEOREM HistoryIsOne == Spec => []OneHistory
<1>1. IInv => OneHistory
  BY DEF IInv
<1> QED
  BY <1>1, MigrationsCorrect, PTL

\* No run of Up is refused because another one ran beside it.
THEOREM RefusalsAreJust == Spec => []NoFalseRefusal
<1>1. IInv => NoFalseRefusal
  BY DEF IInv
<1> QED
  BY <1>1, MigrationsCorrect, PTL
===============================================================================
