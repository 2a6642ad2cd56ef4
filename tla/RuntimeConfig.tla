----------------------------- MODULE RuntimeConfig -----------------------------
(***************************************************************************)
(* The runtime configuration of each replica: a store that holds one        *)
(* immutable snapshot, patched and replaced by requests under a mutex and   *)
(* captured by searches without it; the file and the environment it is      *)
(* loaded from; and the cache the replicas share, whose keys name the       *)
(* configuration of what they hold.                                         *)
(*                                                                         *)
(* A snapshot's hash is a function of its configuration that differs when   *)
(* configurations differ, so the configuration stands for its hash.         *)
(* The other parts of a cache key, the query and the counters of             *)
(* MutationFence, only keep more entries from being found and are left out.   *)
(***************************************************************************)
EXTENDS Integers

CONSTANTS
  Replicas,     \* processes of the service
  Admins,       \* threads that serve POST /api/config and /api/config/reload
  Searches,     \* threads that serve a search
  Settings,     \* the scoring weights and candidate_limit
  Low, High,    \* the limits of each setting
  Default,      \* the values and the synonyms of DefaultRuntimeConfig
  Spellings,    \* keys of query.synonyms as they are written
  Terms,        \* keys of query.synonyms as normalizeQueryText returns them
  TermOf,       \* TermOf[k]: normalizeQueryText(k)
  Words,        \* lists of synonyms as normalizeStrings returns them
  Files,        \* what an operator writes into the file
  Environment,  \* the settings the environment of the replicas fixes, the same at each start
  Patches,      \* bodies of POST /api/config
  NaN,          \* a number that is not finite
  None,         \* not set, no process, no request
  MaxRequests   \* bound: requests that change a configuration

Raw == Int \cup {NaN}
Dictionary == [Terms -> Words \cup {None}]
Config == [values : [Settings -> Raw], synonyms : Dictionary]

\* What the JSON of a file or of a request names; a number there is finite, while the
\* environment may also say "NaN".
Override == [values : [Settings -> Int \cup {None}],
             synonyms : [Spellings -> Words \cup {None}]]

\* What Normalized returns.
Limited == {c \in Config : \A s \in Settings : c.values[s] \in Low[s]..High[s]}

Snapshot == [config : Limited, version : Nat]
PatchTask == [home : Replicas, override : Patches]
ReloadTask == [home : Replicas, from : Files, config : Limited]
Scope == [home : Replicas, snapshot : Snapshot]
Result == [content : Limited, fresh : BOOLEAN]
Entry == [key : Limited, content : Limited]

ASSUME ConfigAssumption ==
  /\ Low \in [Settings -> Int] /\ High \in [Settings -> Int]
  /\ Default \in [values : [Settings -> Int], synonyms : Dictionary]
  /\ \A s \in Settings : Default.values[s] \in Low[s]..High[s]
  /\ TermOf \in [Spellings -> Terms]
  /\ Files \subseteq Override
  /\ Environment \in [Settings -> Raw \cup {None}]
  /\ Patches \subseteq Override
  /\ MaxRequests \in Nat

ASSUME NoneAssumption ==
  /\ NaN \notin Int
  /\ None \notin Raw \cup Words \cup Admins
  /\ None \notin Snapshot \cup PatchTask \cup ReloadTask \cup Scope \cup Result

-------------------------------------------------------------------------------
(***************************************************************************)
(* How a configuration is made.                                            *)
(***************************************************************************)
Clamp(s, v) ==
  IF v = NaN THEN Default.values[s]
  ELSE IF v < Low[s] THEN Low[s]
  ELSE IF v > High[s] THEN High[s]
  ELSE v

NotLimited(c) == c    \* mutant: what is set is taken as it is

Normalized(c) == [c EXCEPT !.values = [s \in Settings |-> Clamp(s, c.values[s])]]

\* A field the JSON does not name is not set, which is not the same as zero.
MergedValues(old, new) ==
  [s \in Settings |-> IF new[s] = None THEN old[s] ELSE new[s]]

\* The spellings of term t that an override names.
Named(new, t) == {k \in Spellings : TermOf[k] = t /\ new[k] # None}

\* Merge ranges over a map: of several spellings of one term any may be the last.
MergedSynonyms(old, new) ==
  {m \in Dictionary : \A t \in Terms :
     IF Named(new, t) = {} THEN m[t] = old[t]
                           ELSE \E k \in Named(new, t) : m[t] = new[k]}

Merge(c, o) ==
  {[values |-> MergedValues(c.values, o.values), synonyms |-> m] :
     m \in MergedSynonyms(c.synonyms, o.synonyms)}

\* LoadRuntimeConfigFile
FromFile(f) == {Normalized(c) : c \in Merge(Default, f)}

\* runtimeConfigFromAppConfig: the environment goes over the file.
Loaded(f) ==
  {Normalized([c EXCEPT !.values = MergedValues(c.values, Environment)]) : c \in FromFile(f)}

\* f writes no term in two ways that mean different lists.
OneSpelling(f) ==
  \A k, l \in Spellings :
    TermOf[k] = TermOf[l] /\ f.synonyms[k] # None /\ f.synonyms[l] # None
      => f.synonyms[k] = f.synonyms[l]

-------------------------------------------------------------------------------
VARIABLES
  file,      \* the content of NEXUSINDEX_RUNTIME_CONFIG_FILE, None if it cannot be read
  snapshot,  \* snapshot[r]: the stored RuntimeSnapshot, None while r is down
  mutex,     \* mutex[r]: the request that holds the store's lock, or None
  task,      \* task[a]: the request a serves, or None
  seen,      \* seen[a]: the snapshot it read under the lock, or None
  scope,     \* scope[q]: what a search captured, or None
  found,     \* found[q]: what it is going to answer, or None
  cache,     \* what was ever stored in the shared cache
  requests,  \* bound: how many changes were requested
  origin     \* ghost: origin[r] is the file content that all of r's snapshot comes
             \* from, None once it was patched

vars == <<file, snapshot, mutex, task, seen, scope, found, cache, requests, origin>>
searchVars == <<scope, found, cache>>
storeVars == <<snapshot, mutex, seen, origin>>

Up(r) == snapshot[r] # None

Init ==
  /\ file \in Files
  /\ \E c \in [Replicas -> Loaded(file)] :
       snapshot = [r \in Replicas |-> [config |-> c[r], version |-> 1]]
  /\ origin = [r \in Replicas |-> file]
  /\ mutex = [r \in Replicas |-> None]
  /\ task = [a \in Admins |-> None] /\ seen = [a \in Admins |-> None]
  /\ scope = [q \in Searches |-> None] /\ found = [q \in Searches |-> None]
  /\ cache = {}
  /\ requests = 0

-------------------------------------------------------------------------------
(***************************************************************************)
(* Requests that change the configuration of one replica.                  *)
(***************************************************************************)
\* An operator writes the file, or makes it unreadable.
WriteFile(f) ==
  /\ file' = f
  /\ UNCHANGED <<storeVars, task, searchVars, requests>>

BeginRequest(a, t) ==
  /\ task[a] = None
  /\ Up(t.home)
  /\ requests < MaxRequests
  /\ requests' = requests + 1
  /\ task' = [task EXCEPT ![a] = t]
  /\ UNCHANGED <<file, storeVars, searchVars>>

\* handleRuntimeConfig decodes the body before it enters the mutation fence.
BeginPatch(a, r, o) == BeginRequest(a, [home |-> r, override |-> o])

\* handleRuntimeConfigReload reads the file before it enters the mutation fence.  With a
\* file it cannot read it ends at once.
BeginReload(a, r) ==
  /\ file # None
  /\ \E c \in Loaded(file) : BeginRequest(a, [home |-> r, from |-> file, config |-> c])

\* The fence refuses the mutation: the request ends without effect.
Refuse(a) ==
  /\ task[a] # None
  /\ seen[a] = None
  /\ task' = [task EXCEPT ![a] = None]
  /\ UNCHANGED <<file, storeVars, searchVars, requests>>

\* s.mu.Lock(), and the read of the current snapshot under it.
LockAndRead(a, free) ==
  /\ task[a] # None
  /\ seen[a] = None
  /\ free
  /\ mutex' = [mutex EXCEPT ![task[a].home] = a]
  /\ seen' = [seen EXCEPT ![a] = snapshot[task[a].home]]
  /\ UNCHANGED <<file, snapshot, task, searchVars, requests, origin>>

LockShared(a) == LockAndRead(a, TRUE)  \* mutant: the read is not under the lock

Lock(a) == LockAndRead(a, task[a] # None /\ mutex[task[a].home] = None)

\* runtimeSnapshot and s.value.Store, s.mu.Unlock(), and the end of the request.  The
\* fence may fail to close; the request then answers with an error, but has its effect.
Publish(a, c, version, from) ==
  LET r == task[a].home IN
  /\ snapshot' = [snapshot EXCEPT ![r] = [config |-> Normalized(c), version |-> version]]
  /\ origin' = [origin EXCEPT ![r] = from]
  /\ mutex' = [mutex EXCEPT ![r] = None]
  /\ seen' = [seen EXCEPT ![a] = None]
  /\ task' = [task EXCEPT ![a] = None]
  /\ UNCHANGED <<file, searchVars, requests>>

\* Update of runtimeConfigStore
UpdateInPlace(a) ==    \* mutant: the loaded file is merged into what is served
  /\ seen[a] # None
  /\ task[a] \in ReloadTask
  /\ Publish(a, [task[a].config EXCEPT !.synonyms = seen[a].config.synonyms],
             seen[a].version + 1, task[a].from)

UpdateFromOne(a) ==    \* mutant: a new store's version
  /\ seen[a] # None
  /\ task[a] \in ReloadTask
  /\ Publish(a, task[a].config, 1, task[a].from)

Update(a) ==
  /\ seen[a] # None
  /\ task[a] \in ReloadTask
  /\ Publish(a, task[a].config, seen[a].version + 1, task[a].from)

\* Patch of runtimeConfigStore
Patch(a) ==
  /\ seen[a] # None
  /\ task[a] \in PatchTask
  /\ \E c \in Merge(seen[a].config, task[a].override) :
       Publish(a, c, seen[a].version + 1, None)

-------------------------------------------------------------------------------
(***************************************************************************)
(* The process.  A crash loses every patch; the shared cache survives it.  *)
(***************************************************************************)
Crash(r) ==
  /\ Up(r)
  /\ snapshot' = [snapshot EXCEPT ![r] = None]
  /\ origin' = [origin EXCEPT ![r] = None]
  /\ mutex' = [mutex EXCEPT ![r] = None]
  /\ LET ended(t) == t # None /\ t.home = r IN
     /\ task' = [a \in Admins |-> IF ended(task[a]) THEN None ELSE task[a]]
     /\ seen' = [a \in Admins |-> IF ended(task[a]) THEN None ELSE seen[a]]
     /\ scope' = [q \in Searches |-> IF ended(scope[q]) THEN None ELSE scope[q]]
     /\ found' = [q \in Searches |-> IF ended(scope[q]) THEN None ELSE found[q]]
  /\ UNCHANGED <<file, cache, requests>>

\* A file that cannot be read ends the process before it serves.
Start(r) ==
  /\ ~Up(r)
  /\ file # None
  /\ \E c \in Loaded(file) : snapshot' = [snapshot EXCEPT ![r] = [config |-> c, version |-> 1]]
  /\ origin' = [origin EXCEPT ![r] = file]
  /\ UNCHANGED <<file, mutex, task, seen, searchVars, requests>>

-------------------------------------------------------------------------------
(***************************************************************************)
(* A search captures the snapshot once.  The key of what it looks up and    *)
(* stores and the settings it searches with are those it captured.         *)
(***************************************************************************)
Capture(q, r) ==
  /\ scope[q] = None
  /\ Up(r)
  /\ scope' = [scope EXCEPT ![q] = [home |-> r, snapshot |-> snapshot[r]]]
  /\ UNCHANGED <<file, storeVars, task, found, cache, requests>>

Find(q, content, fresh) ==
  /\ scope[q] # None
  /\ found[q] = None
  /\ found' = [found EXCEPT ![q] = [content |-> content, fresh |-> fresh]]
  /\ UNCHANGED <<file, storeVars, task, scope, cache, requests>>

\* getCached: an entry some search stored under the same key, on any replica.
Hit(q) == \E e \in cache :
  scope[q] # None /\ e.key = scope[q].snapshot.config /\ Find(q, e.content, FALSE)

\* SearchWithSnapshot, with or without a cache.
SearchAsServed(q) ==    \* mutant: the settings the store has by now
  scope[q] # None /\ Find(q, snapshot[scope[q].home].config, TRUE)

SearchWithSnapshot(q) ==
  scope[q] # None /\ Find(q, scope[q].snapshot.config, TRUE)

\* setCached
Store(q) ==
  /\ found[q] # None
  /\ found[q].fresh
  /\ cache' = cache \cup {[key |-> scope[q].snapshot.config, content |-> found[q].content]}
  /\ UNCHANGED <<file, storeVars, task, scope, found, requests>>

EndSearch(q) ==
  /\ scope[q] # None
  /\ scope' = [scope EXCEPT ![q] = None]
  /\ found' = [found EXCEPT ![q] = None]
  /\ UNCHANGED <<file, storeVars, task, cache, requests>>

-------------------------------------------------------------------------------
Next ==
  \/ \E f \in Files \cup {None} : WriteFile(f)
  \/ \E a \in Admins, r \in Replicas :
       BeginReload(a, r) \/ \E o \in Patches : BeginPatch(a, r, o)
  \/ \E a \in Admins : Refuse(a) \/ Lock(a) \/ Update(a) \/ Patch(a)
  \/ \E r \in Replicas : Crash(r) \/ Start(r)
  \/ \E q \in Searches, r \in Replicas : Capture(q, r)
  \/ \E q \in Searches : Hit(q) \/ SearchWithSnapshot(q) \/ Store(q) \/ EndSearch(q)

Spec == Init /\ [][Next]_vars

-------------------------------------------------------------------------------
(***************************************************************************)
(* Properties                                                              *)
(***************************************************************************)
\* Types.  What is served, loaded or cached is within its limits, whatever the file, the
\* environment and the patches set (Normalized).
TypeOK ==
  /\ file \in Files \cup {None}
  /\ snapshot \in [Replicas -> Snapshot \cup {None}]
  /\ origin \in [Replicas -> Files \cup {None}]
  /\ mutex \in [Replicas -> Admins \cup {None}]
  /\ task \in [Admins -> PatchTask \cup ReloadTask \cup {None}]
  /\ seen \in [Admins -> Snapshot \cup {None}]
  /\ scope \in [Searches -> Scope \cup {None}]
  /\ found \in [Searches -> Result \cup {None}]
  /\ cache \subseteq Entry
  /\ requests \in 0..MaxRequests

\* Replicas whose configuration comes from one content of the file, by a start or a reload
\* and whatever was patched before, serve the same configuration and so accept each other's
\* cursors and cache entries - unless the file writes one term in two ways: Merge ranges
\* over a map (runtime.go:173), and each replica may end with another of the two lists.
SameFileSameConfig ==
  \A r, s \in Replicas :
    Up(r) /\ Up(s) /\ origin[r] # None /\ origin[r] = origin[s] /\ OneSpelling(origin[r])
      => snapshot[r].config = snapshot[s].config

\* A search is computed entirely under the configuration it captured, also if it is answered
\* from the shared cache and its replica's or another's configuration changed meanwhile:
\* what a key names is what the entry holds.
SearchesAreUniform ==
  /\ \A q \in Searches : found[q] # None => found[q].content = scope[q].snapshot.config
  /\ \A e \in cache : e.content = e.key

\* What the request t may change of the configuration c.
MayBecome(t, c, d) ==
  IF t \in ReloadTask THEN d = t.config
  ELSE /\ \A s \in Settings : d.values[s] # c.values[s] => t.override.values[s] # None
       /\ \A k \in Terms : d.synonyms[k] # c.synonyms[k] => Named(t.override.synonyms, k) # {}

\* While a process lives its configuration changes only by a request that ends: a patch
\* changes what it names and nothing that another patch set at the same time, a reload
\* puts what it loaded in place of everything.
OnlyNamedSettingsChange ==
  [][\A r \in Replicas :
       Up(r) /\ Up(r)' /\ snapshot'[r].config # snapshot[r].config
         => \E a \in Admins : /\ task[a] # None /\ task'[a] = None
                              /\ task[a].home = r
                              /\ MayBecome(task[a], snapshot[r].config, snapshot'[r].config)]_vars

\* While a process lives no version names two snapshots.
VersionsNeverRepeat ==
  [][\A r \in Replicas :
       Up(r) /\ Up(r)' /\ snapshot'[r] # snapshot[r]
         => snapshot'[r].version = snapshot[r].version + 1]_vars
===============================================================================
