-------------------------- MODULE RuntimeConfigProofs --------------------------
(***************************************************************************)
(* Proofs that the properties of RuntimeConfig hold for any number of       *)
(* replicas, requests and searches and for any files and patches.          *)
(***************************************************************************)
EXTENDS RuntimeConfig, TLAPS

\* Whoever has read the snapshot holds the lock, and nobody has replaced it since.
LockInv ==
  /\ \A a \in Admins : seen[a] # None =>
       /\ task[a] # None
       /\ mutex[task[a].home] = a
       /\ seen[a] = snapshot[task[a].home]
  /\ \A a \in Admins : task[a] # None => Up(task[a].home)

\* What was loaded from a file is one of the configurations the file may give.
OriginInv ==
  /\ \A r \in Replicas : Up(r) /\ origin[r] # None => snapshot[r].config \in Loaded(origin[r])
  /\ \A a \in Admins : task[a] \in ReloadTask => task[a].config \in Loaded(task[a].from)

SearchInv ==
  /\ \A q \in Searches : found[q] # None => scope[q] # None
  /\ SearchesAreUniform

IInv == TypeOK /\ LockInv /\ OriginInv /\ SearchInv

-------------------------------------------------------------------------------
(***************************************************************************)
(* Configurations                                                          *)
(***************************************************************************)
LEMMA NormalizedType == ASSUME NEW c \in Config PROVE Normalized(c) \in Limited
<1>1. \A s \in Settings : c.values[s] \in Raw
  BY DEF Config
<1>2. \A s \in Settings : Clamp(s, c.values[s]) \in Low[s]..High[s] /\ Clamp(s, c.values[s]) \in Int
  <2> SUFFICES ASSUME NEW s \in Settings
               PROVE Clamp(s, c.values[s]) \in Low[s]..High[s] /\ Clamp(s, c.values[s]) \in Int
    OBVIOUS
  <2>1. Low[s] \in Int /\ High[s] \in Int /\ Default.values[s] \in Low[s]..High[s]
    BY ConfigAssumption
  <2>2. CASE c.values[s] = NaN
    BY <2>1, <2>2 DEF Clamp
  <2>3. CASE c.values[s] # NaN
    BY <1>1, <2>1, <2>3 DEF Clamp, Raw
  <2> QED BY <2>2, <2>3
<1>3. Normalized(c) = [values |-> [s \in Settings |-> Clamp(s, c.values[s])],
                       synonyms |-> c.synonyms]
  BY DEF Normalized, Config
<1> QED BY <1>2, <1>3 DEF Limited, Config, Raw

LEMMA LimitedIsConfig == ASSUME NEW c \in Limited PROVE c \in Config
BY DEF Limited

\* Normalizing twice is normalizing once.
LEMMA NormalizedTwice == ASSUME NEW c \in Limited PROVE Normalized(c) = c
<1>1. \A s \in Settings : Clamp(s, c.values[s]) = c.values[s]
  <2> SUFFICES ASSUME NEW s \in Settings PROVE Clamp(s, c.values[s]) = c.values[s]
    OBVIOUS
  <2>1. Low[s] \in Int /\ High[s] \in Int /\ c.values[s] \in Low[s]..High[s]
    BY ConfigAssumption DEF Limited
  <2>2. c.values[s] # NaN
    BY <2>1, NoneAssumption
  <2> QED BY <2>1, <2>2 DEF Clamp
<1>2. c.values = [s \in Settings |-> Clamp(s, c.values[s])]
  BY <1>1 DEF Limited, Config
<1>3. [c EXCEPT !.values = c.values] = c
  BY DEF Limited, Config
<1> QED BY <1>2, <1>3 DEF Normalized

LEMMA MergeType ==
  ASSUME NEW c \in Config, NEW o \in Override, NEW m \in Merge(c, o)
  PROVE /\ m \in Config
        /\ m.values = MergedValues(c.values, o.values)
        /\ m.synonyms \in MergedSynonyms(c.synonyms, o.synonyms)
<1>1. MergedValues(c.values, o.values) \in [Settings -> Raw]
  <2>1. \A s \in Settings : o.values[s] \in Int \cup {None} /\ c.values[s] \in Raw
    BY DEF Override, Config
  <2> QED BY <2>1 DEF MergedValues, Raw
<1> QED BY <1>1 DEF Merge, MergedSynonyms, Config

LEMMA FromFileType == ASSUME NEW f \in Files, NEW c \in FromFile(f) PROVE c \in Limited
<1>1. Default \in Config /\ f \in Override
  BY ConfigAssumption DEF Config, Raw
<1>2. PICK d \in Merge(Default, f) : c = Normalized(d)
  BY DEF FromFile
<1> QED BY <1>1, <1>2, MergeType, NormalizedType

LEMMA WithEnvironment ==
  ASSUME NEW c \in Limited
  PROVE [c EXCEPT !.values = MergedValues(c.values, Environment)] \in Config
<1>1. MergedValues(c.values, Environment) \in [Settings -> Raw]
  <2>1. \A s \in Settings : Environment[s] \in Raw \cup {None} /\ c.values[s] \in Raw
    BY ConfigAssumption DEF Limited, Config
  <2> QED BY <2>1 DEF MergedValues
<1> QED BY <1>1 DEF Limited, Config

LEMMA LoadedType == ASSUME NEW f \in Files, NEW c \in Loaded(f) PROVE c \in Limited
<1>1. PICK d \in FromFile(f) :
        c = Normalized([d EXCEPT !.values = MergedValues(d.values, Environment)])
  BY DEF Loaded
<1> QED BY <1>1, FromFileType, WithEnvironment, NormalizedType

\* A file that writes each term in one way gives one configuration.
LEMMA LoadedAlike ==
  ASSUME NEW f \in Files, OneSpelling(f), NEW c \in Loaded(f), NEW d \in Loaded(f)
  PROVE c = d
<1>0. Default \in Config /\ f \in Override
  BY ConfigAssumption DEF Config, Raw
<1>1. \A m, n \in Merge(Default, f) : m = n
  <2> SUFFICES ASSUME NEW m \in Merge(Default, f), NEW n \in Merge(Default, f) PROVE m = n
    OBVIOUS
  <2>1. /\ m \in Config /\ n \in Config
        /\ m.values = n.values
        /\ m.synonyms \in MergedSynonyms(Default.synonyms, f.synonyms)
        /\ n.synonyms \in MergedSynonyms(Default.synonyms, f.synonyms)
    BY <1>0, MergeType
  <2>2. ASSUME NEW t \in Terms PROVE m.synonyms[t] = n.synonyms[t]
    <3>1. CASE Named(f.synonyms, t) = {}
      BY <2>1, <3>1 DEF MergedSynonyms
    <3>2. CASE Named(f.synonyms, t) # {}
      <4>1. PICK k \in Named(f.synonyms, t) : m.synonyms[t] = f.synonyms[k]
        BY <2>1, <3>2 DEF MergedSynonyms
      <4>2. PICK l \in Named(f.synonyms, t) : n.synonyms[t] = f.synonyms[l]
        BY <2>1, <3>2 DEF MergedSynonyms
      <4> QED BY <4>1, <4>2, OneSpelling(f) DEF OneSpelling, Named
    <3> QED BY <3>1, <3>2
  <2>3. m.synonyms \in Dictionary /\ n.synonyms \in Dictionary
    BY <2>1 DEF Config
  <2>4. m.synonyms = n.synonyms
    BY <2>2, <2>3 DEF Dictionary
  <2> QED BY <2>1, <2>4 DEF Config
<1>2. \A m, n \in FromFile(f) : m = n
  BY <1>1 DEF FromFile
<1> QED BY <1>2 DEF Loaded

-------------------------------------------------------------------------------
(***************************************************************************)
(* Types                                                                   *)
(***************************************************************************)
LEMMA InitType == Init => TypeOK
<1> SUFFICES ASSUME Init PROVE TypeOK
  OBVIOUS
<1>1. file \in Files
  BY DEF Init
<1>2. PICK c \in [Replicas -> Loaded(file)] :
        snapshot = [r \in Replicas |-> [config |-> c[r], version |-> 1]]
  BY DEF Init
<1>3. \A r \in Replicas : c[r] \in Limited
  BY <1>1, LoadedType
<1>4. snapshot \in [Replicas -> Snapshot \cup {None}]
  BY <1>2, <1>3 DEF Snapshot
<1>5. 0 \in 0..MaxRequests
  BY ConfigAssumption
<1> QED BY <1>1, <1>4, <1>5 DEF Init, TypeOK

LEMMA SnapshotType ==
  ASSUME TypeOK, NEW r \in Replicas, snapshot[r] # None PROVE snapshot[r] \in Snapshot
BY DEF TypeOK

LEMMA SeenType == ASSUME TypeOK, NEW a \in Admins, seen[a] # None PROVE seen[a] \in Snapshot
BY DEF TypeOK

LEMMA TaskType ==
  ASSUME TypeOK, NEW a \in Admins, task[a] # None
  PROVE task[a] \in PatchTask \cup ReloadTask /\ task[a].home \in Replicas
<1>1. task[a] \in PatchTask \cup ReloadTask
  BY DEF TypeOK
<1> QED BY <1>1 DEF PatchTask, ReloadTask

\* What a request publishes, and what else it changes.
LEMMA PublishEffect ==
  ASSUME TypeOK, NEW a \in Admins, task[a] # None, seen[a] # None, NEW c \in Config,
         NEW from \in Files \cup {None}, Publish(a, c, seen[a].version + 1, from)
  PROVE /\ snapshot' = [snapshot EXCEPT ![task[a].home] =
                          [config |-> Normalized(c), version |-> seen[a].version + 1]]
        /\ [config |-> Normalized(c), version |-> seen[a].version + 1] \in Snapshot
        /\ origin' = [origin EXCEPT ![task[a].home] = from]
        /\ mutex' = [mutex EXCEPT ![task[a].home] = None]
        /\ seen' = [seen EXCEPT ![a] = None]
        /\ task' = [task EXCEPT ![a] = None]
        /\ UNCHANGED <<file, scope, found, cache, requests>>
        /\ TypeOK'
<1>1. /\ snapshot' = [snapshot EXCEPT ![task[a].home] =
                        [config |-> Normalized(c), version |-> seen[a].version + 1]]
      /\ origin' = [origin EXCEPT ![task[a].home] = from]
      /\ mutex' = [mutex EXCEPT ![task[a].home] = None]
      /\ seen' = [seen EXCEPT ![a] = None]
      /\ task' = [task EXCEPT ![a] = None]
      /\ UNCHANGED <<file, scope, found, cache, requests>>
  BY DEF Publish, searchVars
<1>2. seen[a].version + 1 \in Nat
  BY SeenType DEF Snapshot
<1>3. [config |-> Normalized(c), version |-> seen[a].version + 1] \in Snapshot
  BY <1>2, NormalizedType DEF Snapshot
<1>4. snapshot' \in [Replicas -> Snapshot \cup {None}]
  BY <1>1, <1>3 DEF TypeOK
<1>5. origin' \in [Replicas -> Files \cup {None}]
  BY <1>1 DEF TypeOK
<1>6. mutex' \in [Replicas -> Admins \cup {None}]
  BY <1>1 DEF TypeOK
<1>7. seen' \in [Admins -> Snapshot \cup {None}]
  BY <1>1 DEF TypeOK
<1>8. task' \in [Admins -> PatchTask \cup ReloadTask \cup {None}]
  BY <1>1 DEF TypeOK
<1>9. TypeOK'
  BY <1>1, <1>4, <1>5, <1>6, <1>7, <1>8 DEF TypeOK
<1> QED BY <1>1, <1>3, <1>9

\* A reload publishes what it loaded, a patch what it merged.
LEMMA UpdateEffect ==
  ASSUME TypeOK, OriginInv, NEW a \in Admins, Update(a)
  PROVE /\ task[a] \in ReloadTask /\ task[a] # None /\ seen[a] # None
        /\ task[a].config \in Limited /\ task[a].from \in Files
        /\ Normalized(task[a].config) = task[a].config
        /\ task[a].config \in Loaded(task[a].from)
        /\ Publish(a, task[a].config, seen[a].version + 1, task[a].from)
<1>1. task[a] \in ReloadTask /\ seen[a] # None
      /\ Publish(a, task[a].config, seen[a].version + 1, task[a].from)
  BY DEF Update
<1>2. task[a].config \in Loaded(task[a].from)
  BY <1>1 DEF OriginInv
<1>3. task[a].config \in Limited /\ task[a].from \in Files
  BY <1>1 DEF ReloadTask
<1>4. task[a] # None
  BY <1>1, NoneAssumption
<1> QED BY <1>1, <1>2, <1>3, <1>4, NormalizedTwice

LEMMA PatchEffect ==
  ASSUME TypeOK, NEW a \in Admins, Patch(a)
  PROVE /\ task[a] \in PatchTask /\ task[a] # None /\ seen[a] \in Snapshot /\ seen[a] # None
        /\ \E c \in Merge(seen[a].config, task[a].override) :
             c \in Config /\ Publish(a, c, seen[a].version + 1, None)
<1>1. task[a] \in PatchTask /\ seen[a] # None
  BY DEF Patch
<1>2. PICK c \in Merge(seen[a].config, task[a].override) :
        Publish(a, c, seen[a].version + 1, None)
  BY DEF Patch
<1>3. seen[a] \in Snapshot /\ task[a].override \in Override /\ task[a] # None
  BY <1>1, SeenType, NoneAssumption, ConfigAssumption DEF PatchTask
<1>4. c \in Config
  BY <1>2, <1>3, MergeType, LimitedIsConfig DEF Snapshot
<1> QED BY <1>1, <1>2, <1>3, <1>4

LEMMA BeginEffect ==
  ASSUME TypeOK, NEW a \in Admins, NEW t \in PatchTask \cup ReloadTask, BeginRequest(a, t)
  PROVE /\ task' = [task EXCEPT ![a] = t] /\ Up(t.home) /\ task[a] = None
        /\ UNCHANGED <<file, snapshot, mutex, seen, origin, scope, found, cache>>
        /\ TypeOK'
<1>1. /\ task' = [task EXCEPT ![a] = t] /\ Up(t.home) /\ task[a] = None
      /\ UNCHANGED <<file, snapshot, mutex, seen, origin, scope, found, cache>>
      /\ requests < MaxRequests /\ requests' = requests + 1
  BY DEF BeginRequest, storeVars, searchVars
<1>2. task' \in [Admins -> PatchTask \cup ReloadTask \cup {None}]
  BY <1>1 DEF TypeOK
<1>3. requests' \in 0..MaxRequests
  BY <1>1, ConfigAssumption DEF TypeOK
<1> QED BY <1>1, <1>2, <1>3 DEF TypeOK

\* A request that begins has a task, and what it loaded is what the file may give.
LEMMA BeginsTask ==
  ASSUME TypeOK, NEW a \in Admins, NEW r \in Replicas,
         BeginReload(a, r) \/ \E o \in Patches : BeginPatch(a, r, o)
  PROVE \E t \in PatchTask \cup ReloadTask :
          BeginRequest(a, t) /\ (t \in ReloadTask => t.config \in Loaded(t.from))
<1>1. CASE BeginReload(a, r)
  <2>1. PICK c \in Loaded(file) : BeginRequest(a, [home |-> r, from |-> file, config |-> c])
    BY <1>1 DEF BeginReload
  <2>2. file \in Files
    BY <1>1 DEF BeginReload, TypeOK
  <2>3. c \in Limited
    BY <2>2, LoadedType
  <2>4. [home |-> r, from |-> file, config |-> c] \in ReloadTask
    BY <2>2, <2>3 DEF ReloadTask
  <2> QED BY <2>1, <2>4
<1>2. CASE \E o \in Patches : BeginPatch(a, r, o)
  <2>1. PICK o \in Patches : BeginRequest(a, [home |-> r, override |-> o])
    BY <1>2 DEF BeginPatch
  <2>2. [home |-> r, override |-> o] \in PatchTask
    BY DEF PatchTask
  <2>3. [home |-> r, override |-> o] \notin ReloadTask
    BY DEF ReloadTask
  <2> QED BY <2>1, <2>2, <2>3
<1> QED BY <1>1, <1>2

LEMMA LockEffect ==
  ASSUME TypeOK, NEW a \in Admins, Lock(a)
  PROVE /\ task[a] # None /\ task[a].home \in Replicas /\ mutex[task[a].home] = None
        /\ mutex' = [mutex EXCEPT ![task[a].home] = a]
        /\ seen' = [seen EXCEPT ![a] = snapshot[task[a].home]]
        /\ UNCHANGED <<file, snapshot, task, scope, found, cache, requests, origin>>
        /\ TypeOK'
<1>1. /\ task[a] # None /\ mutex[task[a].home] = None
      /\ mutex' = [mutex EXCEPT ![task[a].home] = a]
      /\ seen' = [seen EXCEPT ![a] = snapshot[task[a].home]]
      /\ UNCHANGED <<file, snapshot, task, scope, found, cache, requests, origin>>
  BY DEF Lock, LockAndRead, searchVars
<1>2. task[a].home \in Replicas
  BY <1>1, TaskType
<1>3. snapshot[task[a].home] \in Snapshot \cup {None}
  BY <1>2 DEF TypeOK
<1>4. seen' \in [Admins -> Snapshot \cup {None}]
  BY <1>1, <1>3 DEF TypeOK
<1>5. mutex' \in [Replicas -> Admins \cup {None}]
  BY <1>1 DEF TypeOK
<1> QED BY <1>1, <1>2, <1>4, <1>5 DEF TypeOK

LEMMA CrashEffect ==
  ASSUME TypeOK, NEW r \in Replicas, Crash(r)
  PROVE /\ snapshot' = [snapshot EXCEPT ![r] = None]
        /\ origin' = [origin EXCEPT ![r] = None]
        /\ mutex' = [mutex EXCEPT ![r] = None]
        /\ \A a \in Admins : IF task[a] # None /\ task[a].home = r
                             THEN task'[a] = None /\ seen'[a] = None
                             ELSE task'[a] = task[a] /\ seen'[a] = seen[a]
        /\ \A q \in Searches : IF scope[q] # None /\ scope[q].home = r
                               THEN scope'[q] = None /\ found'[q] = None
                               ELSE scope'[q] = scope[q] /\ found'[q] = found[q]
        /\ UNCHANGED <<file, cache, requests>>
        /\ TypeOK'
<1> DEFINE ended(t) == t # None /\ t.home = r
<1>1. /\ snapshot' = [snapshot EXCEPT ![r] = None]
      /\ origin' = [origin EXCEPT ![r] = None]
      /\ mutex' = [mutex EXCEPT ![r] = None]
      /\ UNCHANGED <<file, cache, requests>>
  BY DEF Crash
<1>2. /\ task' = [a \in Admins |-> IF ended(task[a]) THEN None ELSE task[a]]
      /\ seen' = [a \in Admins |-> IF ended(task[a]) THEN None ELSE seen[a]]
      /\ scope' = [q \in Searches |-> IF ended(scope[q]) THEN None ELSE scope[q]]
      /\ found' = [q \in Searches |-> IF ended(scope[q]) THEN None ELSE found[q]]
  BY DEF Crash
<1>3. task' \in [Admins -> PatchTask \cup ReloadTask \cup {None}]
  BY <1>2 DEF TypeOK
<1>4. seen' \in [Admins -> Snapshot \cup {None}]
  BY <1>2 DEF TypeOK
<1>5. scope' \in [Searches -> Scope \cup {None}]
  BY <1>2 DEF TypeOK
<1>6. found' \in [Searches -> Result \cup {None}]
  BY <1>2 DEF TypeOK
<1>7. /\ snapshot' \in [Replicas -> Snapshot \cup {None}]
      /\ origin' \in [Replicas -> Files \cup {None}]
      /\ mutex' \in [Replicas -> Admins \cup {None}]
  BY <1>1 DEF TypeOK
<1>8. TypeOK'
  BY <1>1, <1>3, <1>4, <1>5, <1>6, <1>7 DEF TypeOK
<1> QED BY <1>1, <1>2, <1>8

LEMMA StartEffect ==
  ASSUME TypeOK, NEW r \in Replicas, Start(r)
  PROVE /\ snapshot[r] = None /\ file \in Files
        /\ \E c \in Loaded(file) :
             /\ c \in Limited
             /\ snapshot' = [snapshot EXCEPT ![r] = [config |-> c, version |-> 1]]
        /\ origin' = [origin EXCEPT ![r] = file]
        /\ UNCHANGED <<file, mutex, task, seen, scope, found, cache, requests>>
        /\ TypeOK'
<1>1. /\ snapshot[r] = None /\ file # None
      /\ origin' = [origin EXCEPT ![r] = file]
      /\ UNCHANGED <<file, mutex, task, seen, scope, found, cache, requests>>
  BY DEF Start, Up, searchVars
<1>2. file \in Files
  BY <1>1 DEF TypeOK
<1>3. PICK c \in Loaded(file) :
        snapshot' = [snapshot EXCEPT ![r] = [config |-> c, version |-> 1]]
  BY DEF Start
<1>4. c \in Limited
  BY <1>2, LoadedType
<1>5. [config |-> c, version |-> 1] \in Snapshot
  BY <1>4 DEF Snapshot
<1>6. snapshot' \in [Replicas -> Snapshot \cup {None}]
  BY <1>3, <1>5 DEF TypeOK
<1>7. origin' \in [Replicas -> Files \cup {None}]
  BY <1>1, <1>2 DEF TypeOK
<1> QED BY <1>1, <1>2, <1>3, <1>4, <1>6, <1>7 DEF TypeOK

\* Everything a search does leaves the stores alone.
SearchStep(q) ==
  (\E r \in Replicas : Capture(q, r)) \/ Hit(q) \/ SearchWithSnapshot(q) \/ Store(q) \/ EndSearch(q)

LEMMA FindEffect ==
  ASSUME TypeOK, NEW q \in Searches, NEW c \in Limited, NEW b \in BOOLEAN, Find(q, c, b)
  PROVE /\ scope[q] # None
        /\ found' = [found EXCEPT ![q] = [content |-> c, fresh |-> b]]
        /\ UNCHANGED <<file, snapshot, mutex, seen, origin, task, scope, cache, requests>>
        /\ TypeOK'
<1>1. [content |-> c, fresh |-> b] \in Result
  BY DEF Result
<1>2. /\ found' = [found EXCEPT ![q] = [content |-> c, fresh |-> b]]
      /\ UNCHANGED <<file, snapshot, mutex, seen, origin, task, scope, cache, requests>>
      /\ scope[q] # None
  BY DEF Find, storeVars
<1>3. found' \in [Searches -> Result \cup {None}]
  BY <1>1, <1>2 DEF TypeOK
<1> QED BY <1>2, <1>3 DEF TypeOK

\* What a search finds is what its scope names.
LEMMA FindsItsOwn ==
  ASSUME TypeOK, SearchesAreUniform, NEW q \in Searches, Hit(q) \/ SearchWithSnapshot(q)
  PROVE \E c \in Limited, b \in BOOLEAN :
          scope[q] \in Scope /\ c = scope[q].snapshot.config /\ Find(q, c, b)
<1>1. scope[q] \in Scope
  BY DEF Hit, SearchWithSnapshot, TypeOK
<1>2. scope[q].snapshot.config \in Limited
  BY <1>1 DEF Scope, Snapshot
<1>3. CASE Hit(q)
  <2>1. PICK e \in cache : e.key = scope[q].snapshot.config /\ Find(q, e.content, FALSE)
    BY <1>3 DEF Hit
  <2>2. e.content = e.key
    BY DEF SearchesAreUniform
  <2> QED BY <1>1, <1>2, <2>1, <2>2
<1>4. CASE SearchWithSnapshot(q)
  BY <1>1, <1>2, <1>4 DEF SearchWithSnapshot
<1> QED BY <1>3, <1>4

LEMMA SearchEffect ==
  ASSUME TypeOK, SearchInv, NEW q \in Searches, SearchStep(q)
  PROVE UNCHANGED <<file, snapshot, mutex, seen, origin, task, requests>> /\ TypeOK' /\ SearchInv'
<1> DEFINE Good == UNCHANGED <<file, snapshot, mutex, seen, origin, task, requests>>
                   /\ TypeOK' /\ SearchInv'
<1>1. ASSUME NEW r \in Replicas, Capture(q, r) PROVE Good
  <2>1. /\ scope' = [scope EXCEPT ![q] = [home |-> r, snapshot |-> snapshot[r]]]
        /\ scope[q] = None /\ snapshot[r] # None
        /\ UNCHANGED <<file, snapshot, mutex, seen, origin, task, found, cache, requests>>
    BY <1>1 DEF Capture, Up, storeVars
  <2>2. [home |-> r, snapshot |-> snapshot[r]] \in Scope
    BY <2>1, SnapshotType DEF Scope
  <2>3. scope' \in [Searches -> Scope \cup {None}]
    BY <2>1, <2>2 DEF TypeOK
  <2>4. TypeOK'
    BY <2>1, <2>3 DEF TypeOK
  <2>5. found[q] = None /\ scope \in [Searches -> Scope \cup {None}]
    BY <2>1 DEF SearchInv, TypeOK
  <2>6. \A p \in Searches \ {q} : scope'[p] = scope[p]
    BY <2>1, <2>5
  <2>7. SearchInv'
    BY <2>1, <2>5, <2>6 DEF SearchInv, SearchesAreUniform
  <2> QED BY <2>1, <2>4, <2>7
<1>2. ASSUME Hit(q) \/ SearchWithSnapshot(q) PROVE Good
  <2>1. PICK c \in Limited, b \in BOOLEAN :
          scope[q] \in Scope /\ c = scope[q].snapshot.config /\ Find(q, c, b)
    BY <1>2, FindsItsOwn DEF SearchInv
  <2>2. /\ scope[q] # None /\ TypeOK'
        /\ found' = [found EXCEPT ![q] = [content |-> c, fresh |-> b]]
        /\ UNCHANGED <<file, snapshot, mutex, seen, origin, task, scope, cache, requests>>
    BY <2>1, FindEffect
  <2>3. found \in [Searches -> Result \cup {None}]
    BY DEF TypeOK
  <2>4. found'[q].content = c /\ \A p \in Searches \ {q} : found'[p] = found[p]
    BY <2>2, <2>3
  <2>5. SearchInv'
    BY <2>1, <2>2, <2>4 DEF SearchInv, SearchesAreUniform
  <2> QED BY <2>2, <2>5
<1>3. ASSUME Store(q) PROVE Good
  <2> DEFINE e == [key |-> scope[q].snapshot.config, content |-> found[q].content]
  <2>1. /\ found[q] # None /\ cache' = cache \cup {e}
        /\ UNCHANGED <<file, snapshot, mutex, seen, origin, task, scope, found, requests>>
    BY <1>3 DEF Store, storeVars
  <2>2. scope[q] # None /\ found[q].content = scope[q].snapshot.config
    BY <2>1 DEF SearchInv, SearchesAreUniform
  <2>3. scope[q] \in Scope
    BY <2>2 DEF TypeOK
  <2>4. e \in Entry /\ e.content = e.key
    BY <2>2, <2>3 DEF Scope, Snapshot, Entry
  <2> HIDE DEF e
  <2>5. cache' \subseteq Entry
    BY <2>1, <2>4 DEF TypeOK
  <2>6. TypeOK'
    BY <2>1, <2>5 DEF TypeOK
  <2>7. SearchInv'
    BY <2>1, <2>4 DEF SearchInv, SearchesAreUniform
  <2> QED BY <2>1, <2>6, <2>7
<1>4. ASSUME EndSearch(q) PROVE Good
  <2>1. /\ scope' = [scope EXCEPT ![q] = None] /\ found' = [found EXCEPT ![q] = None]
        /\ UNCHANGED <<file, snapshot, mutex, seen, origin, task, cache, requests>>
    BY <1>4 DEF EndSearch, storeVars
  <2>2. scope \in [Searches -> Scope \cup {None}] /\ found \in [Searches -> Result \cup {None}]
    BY DEF TypeOK
  <2>3. scope' \in [Searches -> Scope \cup {None}] /\ found' \in [Searches -> Result \cup {None}]
    BY <2>1, <2>2
  <2>4. TypeOK'
    BY <2>1, <2>3 DEF TypeOK
  <2>5. found'[q] = None /\ \A p \in Searches \ {q} : found'[p] = found[p] /\ scope'[p] = scope[p]
    BY <2>1, <2>2
  <2>6. SearchInv'
    BY <2>1, <2>5 DEF SearchInv, SearchesAreUniform
  <2> QED BY <2>1, <2>4, <2>6
<1> HIDE DEF Good
<1>5. Good
  BY <1>1, <1>2, <1>3, <1>4 DEF SearchStep
<1> QED BY <1>5 DEF Good

-------------------------------------------------------------------------------
(***************************************************************************)
(* The inductive invariant                                                 *)
(***************************************************************************)
LEMMA InitIInv == Init => IInv
<1> SUFFICES ASSUME Init PROVE IInv
  OBVIOUS
<1>1. TypeOK
  BY InitType
<1>2. LockInv
  BY DEF Init, LockInv
<1>3. OriginInv
  <2>1. PICK c \in [Replicas -> Loaded(file)] :
          snapshot = [r \in Replicas |-> [config |-> c[r], version |-> 1]]
    BY DEF Init
  <2>2. \A r \in Replicas : snapshot[r].config \in Loaded(file) /\ origin[r] = file
    BY <2>1 DEF Init
  <2>3. \A a \in Admins : task[a] \notin ReloadTask
    BY NoneAssumption DEF Init
  <2> QED BY <2>2, <2>3 DEF OriginInv
<1>4. SearchInv
  BY DEF Init, SearchInv, SearchesAreUniform
<1> QED BY <1>1, <1>2, <1>3, <1>4 DEF IInv

\* Publishing under the lock leaves everybody else's snapshot as it was read.
LEMMA PublishStep ==
  ASSUME IInv, NEW a \in Admins, task[a] # None, seen[a] # None, NEW c \in Config,
         NEW from \in Files \cup {None}, Publish(a, c, seen[a].version + 1, from),
         from # None => Normalized(c) \in Loaded(from)
  PROVE IInv'
<1> DEFINE r == task[a].home
           n == [config |-> Normalized(c), version |-> seen[a].version + 1]
<1>1. /\ snapshot' = [snapshot EXCEPT ![r] = n] /\ n \in Snapshot
      /\ origin' = [origin EXCEPT ![r] = from]
      /\ mutex' = [mutex EXCEPT ![r] = None]
      /\ seen' = [seen EXCEPT ![a] = None]
      /\ task' = [task EXCEPT ![a] = None]
      /\ UNCHANGED <<scope, found, cache>>
      /\ TypeOK'
  BY PublishEffect DEF IInv
<1>2. r \in Replicas
  BY TaskType DEF IInv
<1>types. /\ snapshot \in [Replicas -> Snapshot \cup {None}]
          /\ origin \in [Replicas -> Files \cup {None}]
          /\ mutex \in [Replicas -> Admins \cup {None}]
          /\ task \in [Admins -> PatchTask \cup ReloadTask \cup {None}]
          /\ seen \in [Admins -> Snapshot \cup {None}]
  BY DEF IInv, TypeOK
<1>3. n # None /\ n.config = Normalized(c)
  BY <1>1, NoneAssumption
<1> HIDE DEF n
<1>4. /\ \A q \in Replicas : snapshot'[q] = (IF q = r THEN n ELSE snapshot[q])
      /\ \A q \in Replicas : origin'[q] = (IF q = r THEN from ELSE origin[q])
      /\ \A q \in Replicas : mutex'[q] = (IF q = r THEN None ELSE mutex[q])
      /\ \A b \in Admins : task'[b] = (IF b = a THEN None ELSE task[b])
      /\ \A b \in Admins : seen'[b] = (IF b = a THEN None ELSE seen[b])
  BY <1>1, <1>2, <1>types
<1> HIDE DEF r
<1>5. mutex[r] = a
  BY DEF r, IInv, LockInv
<1>6. LockInv'
  <2>1. ASSUME NEW b \in Admins, task'[b] # None PROVE snapshot'[task'[b].home] # None
    <3>1. task'[b] = task[b] /\ task[b] # None
      BY <1>4, <2>1
    <3>2. Up(task[b].home) /\ task[b].home \in Replicas
      BY <3>1, TaskType DEF IInv, LockInv
    <3> QED BY <1>3, <1>4, <3>1, <3>2 DEF Up
  <2>2. ASSUME NEW b \in Admins, seen'[b] # None
        PROVE /\ task'[b] # None
              /\ mutex'[task'[b].home] = b
              /\ seen'[b] = snapshot'[task'[b].home]
    <3>1. b # a /\ task'[b] = task[b] /\ seen'[b] = seen[b] /\ seen[b] # None
      BY <1>4, <2>2
    <3>2. task[b] # None /\ mutex[task[b].home] = b /\ seen[b] = snapshot[task[b].home]
      BY <3>1 DEF IInv, LockInv
    <3>3. task[b].home # r /\ task[b].home \in Replicas
      BY <1>5, <3>1, <3>2, TaskType DEF IInv
    <3> QED BY <1>4, <3>1, <3>2, <3>3
  <2> QED BY <2>1, <2>2 DEF LockInv, Up
<1>7. OriginInv'
  <2>1. ASSUME NEW b \in Admins, task'[b] \in ReloadTask
        PROVE task'[b].config \in Loaded(task'[b].from)
    BY <1>4, <2>1, NoneAssumption DEF IInv, OriginInv
  <2>2. ASSUME NEW q \in Replicas, snapshot'[q] # None, origin'[q] # None
        PROVE snapshot'[q].config \in Loaded(origin'[q])
    <3>1. CASE q = r
      BY <1>3, <1>4, <2>2, <3>1
    <3>2. CASE q # r
      <4>1. snapshot'[q] = snapshot[q] /\ origin'[q] = origin[q]
        BY <1>4, <3>2
      <4> QED BY <2>2, <4>1 DEF IInv, OriginInv, Up
    <3> QED BY <3>1, <3>2
  <2> QED BY <2>1, <2>2 DEF OriginInv, Up, Loaded, FromFile
<1>8. SearchInv'
  BY <1>1 DEF IInv, SearchInv, SearchesAreUniform
<1> QED BY <1>1, <1>6, <1>7, <1>8 DEF IInv

LEMMA CrashStep == ASSUME IInv, NEW r \in Replicas, Crash(r) PROVE IInv'
<1>1. /\ snapshot' = [snapshot EXCEPT ![r] = None]
      /\ origin' = [origin EXCEPT ![r] = None]
      /\ mutex' = [mutex EXCEPT ![r] = None]
      /\ cache' = cache /\ TypeOK'
  BY CrashEffect DEF IInv
<1>2. \A a \in Admins : IF task[a] # None /\ task[a].home = r
                        THEN task'[a] = None /\ seen'[a] = None
                        ELSE task'[a] = task[a] /\ seen'[a] = seen[a]
  BY CrashEffect DEF IInv
<1>3. \A q \in Searches : IF scope[q] # None /\ scope[q].home = r
                          THEN scope'[q] = None /\ found'[q] = None
                          ELSE scope'[q] = scope[q] /\ found'[q] = found[q]
  BY CrashEffect DEF IInv
<1>types. /\ snapshot \in [Replicas -> Snapshot \cup {None}]
          /\ origin \in [Replicas -> Files \cup {None}]
          /\ mutex \in [Replicas -> Admins \cup {None}]
  BY DEF IInv, TypeOK
<1>4. /\ snapshot'[r] = None
      /\ \A s \in Replicas \ {r} :
           snapshot'[s] = snapshot[s] /\ origin'[s] = origin[s] /\ mutex'[s] = mutex[s]
  BY <1>1, <1>types
<1>5. ASSUME NEW a \in Admins, task'[a] # None
      PROVE /\ task[a] # None /\ task[a].home \in Replicas \ {r}
            /\ task'[a] = task[a] /\ seen'[a] = seen[a]
  <2>1. task[a] # None /\ task[a].home # r
    BY <1>2, <1>5
  <2>2. task'[a] = task[a] /\ seen'[a] = seen[a]
    BY <1>2, <2>1
  <2>3. task[a].home \in Replicas
    BY <2>1, TaskType DEF IInv
  <2> QED BY <2>1, <2>2, <2>3
<1>6. LockInv'
  <2>1. ASSUME NEW a \in Admins, task'[a] # None PROVE snapshot'[task'[a].home] # None
    BY <1>4, <1>5, <2>1 DEF IInv, LockInv, Up
  <2>2. ASSUME NEW a \in Admins, seen'[a] # None
        PROVE /\ task'[a] # None
              /\ mutex'[task'[a].home] = a
              /\ seen'[a] = snapshot'[task'[a].home]
    <3>1. seen'[a] = seen[a] /\ task'[a] = task[a]
      BY <1>2, <2>2
    <3>2. task[a] # None /\ mutex[task[a].home] = a /\ seen[a] = snapshot[task[a].home]
      BY <2>2, <3>1 DEF IInv, LockInv
    <3>3. task[a].home \in Replicas \ {r}
      BY <1>5, <3>1, <3>2
    <3> QED BY <1>4, <3>1, <3>2, <3>3
  <2> QED BY <2>1, <2>2 DEF LockInv, Up
<1>7. OriginInv'
  <2>1. ASSUME NEW a \in Admins, task'[a] \in ReloadTask
        PROVE task'[a].config \in Loaded(task'[a].from)
    <3>1. task'[a] = task[a]
      BY <1>5, <2>1, NoneAssumption
    <3> QED BY <2>1, <3>1 DEF IInv, OriginInv
  <2>2. ASSUME NEW q \in Replicas, snapshot'[q] # None, origin'[q] # None
        PROVE snapshot'[q].config \in Loaded(origin'[q])
    <3>1. snapshot'[q] = snapshot[q] /\ origin'[q] = origin[q]
      BY <1>4, <2>2
    <3> QED BY <2>2, <3>1 DEF IInv, OriginInv, Up
  <2> QED BY <2>1, <2>2 DEF OriginInv, Up, Loaded, FromFile
<1>8. SearchInv'
  <2>1. \A q \in Searches : found'[q] # None =>
          found'[q] = found[q] /\ scope'[q] = scope[q] /\ found[q] # None
    BY <1>3
  <2> QED BY <1>1, <2>1 DEF IInv, SearchInv, SearchesAreUniform
<1> QED BY <1>1, <1>6, <1>7, <1>8 DEF IInv

LEMMA StartStep == ASSUME IInv, NEW r \in Replicas, Start(r) PROVE IInv'
<1>1. PICK c \in Loaded(file) :
        snapshot' = [snapshot EXCEPT ![r] = [config |-> c, version |-> 1]]
  BY StartEffect DEF IInv
<1>2. /\ snapshot[r] = None /\ file \in Files
      /\ origin' = [origin EXCEPT ![r] = file]
      /\ UNCHANGED <<file, mutex, task, seen, scope, found, cache, requests>>
      /\ TypeOK'
  BY StartEffect DEF IInv
<1>types. /\ snapshot \in [Replicas -> Snapshot \cup {None}]
          /\ origin \in [Replicas -> Files \cup {None}]
  BY DEF IInv, TypeOK
<1>3. /\ snapshot'[r].config = c /\ origin'[r] = file
      /\ \A s \in Replicas \ {r} : snapshot'[s] = snapshot[s] /\ origin'[s] = origin[s]
  BY <1>1, <1>2, <1>types
<1>4. \A a \in Admins : task[a] # None => task[a].home \in Replicas \ {r}
  BY <1>2, TaskType DEF IInv, LockInv, Up
<1>5. LockInv'
  <2>1. \A a \in Admins : task[a] # None => snapshot'[task[a].home] = snapshot[task[a].home]
    BY <1>3, <1>4
  <2> QED BY <1>2, <2>1 DEF IInv, LockInv, Up
<1>6. OriginInv'
  <2>1. ASSUME NEW q \in Replicas, snapshot'[q] # None, origin'[q] # None
        PROVE snapshot'[q].config \in Loaded(origin'[q])
    <3>1. CASE q = r
      BY <1>3, <3>1
    <3>2. CASE q # r
      <4>1. snapshot'[q] = snapshot[q] /\ origin'[q] = origin[q]
        BY <1>3, <3>2
      <4> QED BY <2>1, <4>1 DEF IInv, OriginInv, Up
    <3> QED BY <3>1, <3>2
  <2> QED BY <1>2, <2>1 DEF IInv, OriginInv, Up, Loaded, FromFile
<1>7. SearchInv'
  BY <1>2 DEF IInv, SearchInv, SearchesAreUniform
<1> QED BY <1>2, <1>5, <1>6, <1>7 DEF IInv

LEMMA LockStep == ASSUME IInv, NEW a \in Admins, Lock(a) PROVE IInv'
<1>1. /\ task[a] # None /\ task[a].home \in Replicas /\ mutex[task[a].home] = None
      /\ mutex' = [mutex EXCEPT ![task[a].home] = a]
      /\ seen' = [seen EXCEPT ![a] = snapshot[task[a].home]]
      /\ UNCHANGED <<file, snapshot, task, scope, found, cache, requests, origin>>
      /\ TypeOK'
  BY LockEffect DEF IInv
<1>types. mutex \in [Replicas -> Admins \cup {None}] /\ seen \in [Admins -> Snapshot \cup {None}]
  BY DEF IInv, TypeOK
<1>2. ASSUME NEW b \in Admins, seen'[b] # None
      PROVE /\ task[b] # None
            /\ mutex'[task[b].home] = b
            /\ seen'[b] = snapshot[task[b].home]
  <2>1. CASE b = a
    BY <1>1, <1>types, <2>1
  <2>2. CASE b # a
    <3>1. seen'[b] = seen[b]
      BY <1>1, <1>types, <2>2
    <3>2. task[b] # None /\ mutex[task[b].home] = b /\ seen[b] = snapshot[task[b].home]
      BY <1>2, <3>1 DEF IInv, LockInv
    <3>3. task[b].home # task[a].home
      BY <1>1, <3>2, NoneAssumption
    <3>4. mutex'[task[b].home] = mutex[task[b].home]
      BY <1>1, <1>types, <3>2, <3>3, TaskType DEF IInv
    <3> QED BY <3>1, <3>2, <3>4
  <2> QED BY <2>1, <2>2
<1>3. LockInv'
  BY <1>1, <1>2 DEF IInv, LockInv, Up
<1>4. OriginInv'
  BY <1>1 DEF IInv, OriginInv, Up, Loaded, FromFile
<1>5. SearchInv'
  BY <1>1 DEF IInv, SearchInv, SearchesAreUniform
<1> QED BY <1>1, <1>3, <1>4, <1>5 DEF IInv

\* Beginning a request, and ending one that the fence refuses.
LEMMA TaskStep ==
  ASSUME IInv, TypeOK', NEW a \in Admins, seen[a] = None,
         NEW t \in PatchTask \cup ReloadTask \cup {None}, task' = [task EXCEPT ![a] = t],
         t # None => Up(t.home), t \in ReloadTask => t.config \in Loaded(t.from),
         UNCHANGED <<file, snapshot, mutex, seen, origin, scope, found, cache>>
  PROVE IInv'
<1>1. task'[a] = t /\ \A b \in Admins \ {a} : task'[b] = task[b]
  BY DEF IInv, TypeOK
<1>2. LockInv'
  BY <1>1 DEF IInv, LockInv, Up
<1>3. OriginInv'
  <2>1. \A b \in Admins : task'[b] \in ReloadTask => task'[b].config \in Loaded(task'[b].from)
    BY <1>1 DEF IInv, OriginInv
  <2> QED BY <2>1 DEF IInv, OriginInv, Up, Loaded, FromFile
<1>4. SearchInv'
  BY DEF IInv, SearchInv, SearchesAreUniform
<1> QED BY <1>2, <1>3, <1>4 DEF IInv

LEMMA IInvStep == IInv /\ [Next]_vars => IInv'
<1> SUFFICES ASSUME IInv, [Next]_vars PROVE IInv'
  OBVIOUS
<1>1. ASSUME NEW f \in Files \cup {None}, WriteFile(f) PROVE IInv'
  <2>1. file' = f /\ UNCHANGED <<snapshot, mutex, seen, origin, task, scope, found, cache, requests>>
    BY <1>1 DEF WriteFile, storeVars, searchVars
  <2>2. TypeOK'
    BY <2>1 DEF IInv, TypeOK
  <2>3. LockInv' /\ OriginInv' /\ SearchInv'
    BY <2>1 DEF IInv, LockInv, OriginInv, SearchInv, SearchesAreUniform, Up, Loaded, FromFile
  <2> QED BY <2>2, <2>3 DEF IInv
<1>2. ASSUME NEW a \in Admins, NEW r \in Replicas,
             BeginReload(a, r) \/ \E o \in Patches : BeginPatch(a, r, o)
      PROVE IInv'
  <2>1. PICK t \in PatchTask \cup ReloadTask :
          BeginRequest(a, t) /\ (t \in ReloadTask => t.config \in Loaded(t.from))
    BY <1>2, BeginsTask DEF IInv
  <2>2. /\ task' = [task EXCEPT ![a] = t] /\ Up(t.home) /\ task[a] = None
        /\ UNCHANGED <<file, snapshot, mutex, seen, origin, scope, found, cache>>
        /\ TypeOK'
    BY <2>1, BeginEffect DEF IInv
  <2>3. seen[a] = None
    BY <2>2 DEF IInv, LockInv
  <2> QED BY <2>1, <2>2, <2>3, TaskStep
<1>3. ASSUME NEW a \in Admins, Refuse(a) PROVE IInv'
  <2>1. /\ seen[a] = None /\ task' = [task EXCEPT ![a] = None]
        /\ UNCHANGED <<file, snapshot, mutex, seen, origin, scope, found, cache, requests>>
    BY <1>3 DEF Refuse, storeVars, searchVars
  <2>2. task' \in [Admins -> PatchTask \cup ReloadTask \cup {None}]
    BY <2>1 DEF IInv, TypeOK
  <2>3. TypeOK'
    BY <2>1, <2>2 DEF IInv, TypeOK
  <2>4. None \notin ReloadTask
    BY NoneAssumption
  <2> QED BY <2>1, <2>3, <2>4, TaskStep
<1>4. ASSUME NEW a \in Admins, Update(a) PROVE IInv'
  <2>1. /\ task[a] # None /\ seen[a] # None
        /\ task[a].config \in Limited /\ task[a].from \in Files
        /\ Normalized(task[a].config) = task[a].config
        /\ task[a].config \in Loaded(task[a].from)
        /\ Publish(a, task[a].config, seen[a].version + 1, task[a].from)
    BY <1>4, UpdateEffect DEF IInv
  <2> QED BY <2>1, LimitedIsConfig, PublishStep
<1>5. ASSUME NEW a \in Admins, Patch(a) PROVE IInv'
  <2>1. /\ task[a] # None /\ seen[a] # None
        /\ \E c \in Config : Publish(a, c, seen[a].version + 1, None)
    BY <1>5, PatchEffect DEF IInv
  <2> QED BY <2>1, PublishStep
<1>6. ASSUME NEW q \in Searches, SearchStep(q) PROVE IInv'
  <2>1. UNCHANGED <<file, snapshot, mutex, seen, origin, task, requests>> /\ TypeOK' /\ SearchInv'
    BY <1>6, SearchEffect DEF IInv
  <2>2. LockInv' /\ OriginInv'
    BY <2>1 DEF IInv, LockInv, OriginInv, Up, Loaded, FromFile
  <2> QED BY <2>1, <2>2 DEF IInv
<1>7. CASE UNCHANGED vars
  <2>1. UNCHANGED <<file, snapshot, mutex, seen, origin, task, scope, found, cache, requests>>
    BY <1>7 DEF vars
  <2>2. TypeOK'
    BY <2>1 DEF IInv, TypeOK
  <2>3. LockInv' /\ OriginInv' /\ SearchInv'
    BY <2>1 DEF IInv, LockInv, OriginInv, SearchInv, SearchesAreUniform, Up, Loaded, FromFile
  <2> QED BY <2>2, <2>3 DEF IInv
<1> QED
  BY <1>1, <1>2, <1>3, <1>4, <1>5, <1>6, <1>7, LockStep, CrashStep, StartStep
     DEF Next, SearchStep

\* The types, with every setting within its limits, and the rest hold in every execution.
THEOREM ConfigurationCorrect == Spec => []IInv
<1>1. Init => IInv
  BY InitIInv
<1>2. IInv /\ [Next]_vars => IInv'
  BY IInvStep
<1> QED BY <1>1, <1>2, PTL DEF Spec

\* Replicas that took the same file serve the same configuration.
THEOREM ReplicasAgree == Spec => []SameFileSameConfig
<1>1. IInv => SameFileSameConfig
  <2> SUFFICES ASSUME IInv, NEW r \in Replicas, NEW s \in Replicas, Up(r), Up(s),
                      origin[r] # None, origin[r] = origin[s], OneSpelling(origin[r])
               PROVE snapshot[r].config = snapshot[s].config
    BY DEF SameFileSameConfig
  <2>1. origin[r] \in Files
    BY DEF IInv, TypeOK
  <2>2. snapshot[r].config \in Loaded(origin[r]) /\ snapshot[s].config \in Loaded(origin[r])
    BY DEF IInv, OriginInv
  <2> QED BY <2>1, <2>2, LoadedAlike
<1> QED BY <1>1, ConfigurationCorrect, PTL

\* No search mixes two configurations.
THEOREM SearchesUniform == Spec => []SearchesAreUniform
<1>1. IInv => SearchesAreUniform
  BY DEF IInv, SearchInv
<1> QED BY <1>1, ConfigurationCorrect, PTL

-------------------------------------------------------------------------------
(***************************************************************************)
(* What a step may do to a configuration                                   *)
(***************************************************************************)
\* A living replica's snapshot is replaced by a request that ends, and by nothing else.
LEMMA OnlyRequestsPublish ==
  ASSUME IInv, [Next]_vars, NEW r \in Replicas, Up(r), Up(r)', snapshot'[r] # snapshot[r]
  PROVE \E a \in Admins : Update(a) \/ Patch(a)
<1>1. ASSUME NEW f, WriteFile(f) PROVE snapshot' = snapshot
  BY <1>1 DEF WriteFile, storeVars
<1>2. ASSUME NEW a \in Admins, NEW q \in Replicas,
             BeginReload(a, q) \/ \E o \in Patches : BeginPatch(a, q, o)
      PROVE snapshot' = snapshot
  BY <1>2 DEF BeginReload, BeginPatch, BeginRequest, storeVars
<1>3. ASSUME NEW a \in Admins, Refuse(a) \/ Lock(a) PROVE snapshot' = snapshot
  BY <1>3 DEF Refuse, Lock, LockAndRead, storeVars
<1>4. ASSUME NEW q \in Searches, SearchStep(q) PROVE snapshot' = snapshot
  BY <1>4, SearchEffect DEF IInv
<1>5. ASSUME NEW q \in Replicas, Crash(q) PROVE FALSE
  <2>1. snapshot' = [snapshot EXCEPT ![q] = None] /\ snapshot \in [Replicas -> Snapshot \cup {None}]
    BY <1>5 DEF Crash, IInv, TypeOK
  <2> QED BY <2>1 DEF Up
<1>6. ASSUME NEW q \in Replicas, Start(q) PROVE FALSE
  <2>1. snapshot[q] = None /\ \E n : snapshot' = [snapshot EXCEPT ![q] = n]
    BY <1>6 DEF Start, Up
  <2>2. snapshot \in [Replicas -> Snapshot \cup {None}]
    BY DEF IInv, TypeOK
  <2> QED BY <2>1, <2>2 DEF Up
<1>7. CASE UNCHANGED vars
  BY <1>7 DEF vars
<1> QED
  BY <1>1, <1>2, <1>3, <1>4, <1>5, <1>6, <1>7 DEF Next, SearchStep

\* What such a request does to the replica it changes.
LEMMA Published ==
  ASSUME IInv, NEW r \in Replicas, snapshot'[r] # snapshot[r],
         NEW a \in Admins, task[a] # None, seen[a] # None, NEW c \in Config,
         NEW from \in Files \cup {None}, Publish(a, c, seen[a].version + 1, from)
  PROVE /\ task[a].home = r /\ task'[a] = None /\ seen[a] = snapshot[r]
        /\ snapshot'[r] = [config |-> Normalized(c), version |-> snapshot[r].version + 1]
<1> DEFINE n == [config |-> Normalized(c), version |-> seen[a].version + 1]
<1>1. snapshot' = [snapshot EXCEPT ![task[a].home] = n] /\ task' = [task EXCEPT ![a] = None]
  BY PublishEffect DEF IInv
<1>2. /\ snapshot \in [Replicas -> Snapshot \cup {None}]
      /\ task \in [Admins -> PatchTask \cup ReloadTask \cup {None}]
  BY DEF IInv, TypeOK
<1>3. seen[a] = snapshot[task[a].home]
  BY DEF IInv, LockInv
<1> HIDE DEF n
<1>4. task[a].home = r /\ task'[a] = None /\ snapshot'[r] = n
  BY <1>1, <1>2
<1> QED BY <1>3, <1>4 DEF n

\* A patch leaves alone what it does not name.
LEMMA PatchChanges ==
  ASSUME NEW b \in Limited, NEW o \in Override, NEW c \in Merge(b, o)
  PROVE /\ \A s \in Settings : Normalized(c).values[s] # b.values[s] => o.values[s] # None
        /\ \A t \in Terms : Normalized(c).synonyms[t] # b.synonyms[t] => Named(o.synonyms, t) # {}
<1>1. /\ c \in Config /\ c.values = MergedValues(b.values, o.values)
      /\ c.synonyms \in MergedSynonyms(b.synonyms, o.synonyms)
  BY MergeType, LimitedIsConfig
<1>2. /\ Normalized(c).values = [s \in Settings |-> Clamp(s, c.values[s])]
      /\ Normalized(c).synonyms = c.synonyms
  BY <1>1 DEF Normalized, Config
<1>3. Normalized(b).values = [s \in Settings |-> Clamp(s, b.values[s])] /\ Normalized(b) = b
  BY NormalizedTwice DEF Normalized, Limited, Config
<1>4. \A s \in Settings : o.values[s] = None => c.values[s] = b.values[s]
  BY <1>1 DEF MergedValues
<1>5. \A s \in Settings : o.values[s] = None => Normalized(c).values[s] = b.values[s]
  BY <1>2, <1>3, <1>4
<1>6. \A t \in Terms : Named(o.synonyms, t) = {} => c.synonyms[t] = b.synonyms[t]
  BY <1>1 DEF MergedSynonyms
<1> QED BY <1>2, <1>5, <1>6

LEMMA NamedStep ==
  ASSUME IInv, [Next]_vars, NEW r \in Replicas, Up(r), Up(r)', snapshot'[r] # snapshot[r]
  PROVE /\ snapshot'[r].version = snapshot[r].version + 1
        /\ \E a \in Admins : /\ task[a] # None /\ task'[a] = None /\ task[a].home = r
                             /\ MayBecome(task[a], snapshot[r].config, snapshot'[r].config)
<1>1. ASSUME NEW a \in Admins, Update(a)
      PROVE /\ snapshot'[r].version = snapshot[r].version + 1
            /\ task[a] # None /\ task'[a] = None /\ task[a].home = r
            /\ MayBecome(task[a], snapshot[r].config, snapshot'[r].config)
  <2>1. /\ task[a] \in ReloadTask /\ task[a] # None /\ seen[a] # None
        /\ task[a].config \in Limited /\ task[a].from \in Files
        /\ Normalized(task[a].config) = task[a].config
        /\ Publish(a, task[a].config, seen[a].version + 1, task[a].from)
    BY <1>1, UpdateEffect DEF IInv
  <2>2. /\ task[a].home = r /\ task'[a] = None
        /\ snapshot'[r] = [config |-> task[a].config, version |-> snapshot[r].version + 1]
    BY <2>1, LimitedIsConfig, Published
  <2> QED BY <2>1, <2>2 DEF MayBecome
<1>2. ASSUME NEW a \in Admins, Patch(a)
      PROVE /\ snapshot'[r].version = snapshot[r].version + 1
            /\ task[a] # None /\ task'[a] = None /\ task[a].home = r
            /\ MayBecome(task[a], snapshot[r].config, snapshot'[r].config)
  <2>1. /\ task[a] \in PatchTask /\ task[a] # None /\ seen[a] \in Snapshot /\ seen[a] # None
    BY <1>2, PatchEffect DEF IInv
  <2>2. PICK c \in Merge(seen[a].config, task[a].override) :
          c \in Config /\ Publish(a, c, seen[a].version + 1, None)
    BY <1>2, PatchEffect DEF IInv
  <2>3. /\ task[a].home = r /\ task'[a] = None /\ seen[a] = snapshot[r]
        /\ snapshot'[r] = [config |-> Normalized(c), version |-> snapshot[r].version + 1]
    BY <2>1, <2>2, Published
  <2>4. seen[a].config \in Limited /\ task[a].override \in Override
    BY <2>1, ConfigAssumption DEF Snapshot, PatchTask
  <2>5. task[a] \notin ReloadTask
    BY <2>1 DEF PatchTask, ReloadTask
  <2> QED BY <2>1, <2>2, <2>3, <2>4, <2>5, PatchChanges DEF MayBecome
<1> QED BY <1>1, <1>2, OnlyRequestsPublish

\* Two patches at the same time both take effect, and a reload replaces everything.
THEOREM NothingElseChanges == Spec => OnlyNamedSettingsChange
<1>1. IInv /\ [Next]_vars =>
        [\A r \in Replicas :
           Up(r) /\ Up(r)' /\ snapshot'[r].config # snapshot[r].config
             => \E a \in Admins :
                  /\ task[a] # None /\ task'[a] = None
                  /\ task[a].home = r
                  /\ MayBecome(task[a], snapshot[r].config, snapshot'[r].config)]_vars
  BY NamedStep
<1> QED BY <1>1, ConfigurationCorrect, PTL DEF Spec, OnlyNamedSettingsChange

\* A version is never given to another snapshot of the same process.
THEOREM VersionsIncrease == Spec => VersionsNeverRepeat
<1>1. IInv /\ [Next]_vars =>
        [\A r \in Replicas :
           Up(r) /\ Up(r)' /\ snapshot'[r] # snapshot[r]
             => snapshot'[r].version = snapshot[r].version + 1]_vars
  BY NamedStep
<1> QED BY <1>1, ConfigurationCorrect, PTL DEF Spec, VersionsNeverRepeat
===============================================================================
