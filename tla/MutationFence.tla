----------------------------- MODULE MutationFence -----------------------------
(***************************************************************************)
(* The fence that keeps search results out of the cache while the index    *)
(* changes.  Every mutation - a worker batch, an HTTP write, a switch of   *)
(* generations, on any replica - bumps a shared counter before and another *)
(* one after it.  A request uses the cache only when it finds the counters *)
(* equal, and their value is part of its cache key.                        *)
(*                                                                         *)
(* Each call of the shared version store is one step.  The store itself    *)
(* (EdgeCache, backed by Redis) is external: GET makes a missing key 1,    *)
(* INCR too makes a missing key 1.  A bump whose answer is lost may or may *)
(* not have been applied.                                                  *)
(***************************************************************************)
EXTENDS Integers, FiniteSets

CONSTANTS
  Mutators,      \* threads that run mutations, over all replicas
  Requests,      \* threads that serve searches, over all replicas
  MaxMutations,  \* bound: mutations begun
  MaxFaults      \* bound: failed or abandoned calls, crashes

ASSUME FenceAssumption ==
  /\ IsFiniteSet(Mutators)
  /\ MaxMutations \in Nat
  /\ MaxFaults \in Nat

VARIABLES
  started, completed,  \* the shared counters, 0 while the key is missing
  index,               \* what the index shows: the number of commits so far
  mpc,                 \* where a mutator is in runMutation
  late,                \* whether a commit a mutator gave up on is on its way
  rpc,                 \* where a request is
  seen,                \* the two counters as the request read them
  floor,               \* what the index showed when the request began
  answer,              \* what the request has read, from the cache or not
  cache,               \* entries stored so far: version in the key, content
  mutations, faults

fenceVars == <<started, completed>>
requestVars == <<rpc, seen, floor, answer, cache>>
vars == <<fenceVars, index, mpc, late, requestVars, mutations, faults>>

Stages == {"idle", "prepared", "initialized", "open", "closing"}
LateStages == {"none", "pending", "landed"}
RequestStages == {"idle", "started", "compared", "enabled", "queried", "hit"}
Entry == [version : Nat, data : Nat]

\* The version store: GET and INCR of a key.
GetVersion(k) == IF k = 0 THEN 1 ELSE k
BumpVersion(k) == k + 1

Fault == faults < MaxFaults /\ faults' = faults + 1

At(p, m, from, to) == p[m] = from /\ p' = [p EXCEPT ![m] = to]

Init ==
  /\ started = 0 /\ completed = 0
  /\ index = 0
  /\ mpc = [m \in Mutators |-> "idle"]
  /\ late = [m \in Mutators |-> "none"]
  /\ rpc = [r \in Requests |-> "idle"]
  /\ seen = [r \in Requests |-> [started |-> 0, completed |-> 0]]
  /\ floor = [r \in Requests |-> 0]
  /\ answer = [r \in Requests |-> 0]
  /\ cache = {}
  /\ mutations = 0 /\ faults = 0

-------------------------------------------------------------------------------
(***************************************************************************)
(* runMutation.                                                            *)
(***************************************************************************)
\* Both keys are initialised before the first bump.
SkipInit(m) ==  \* mutant: the bump is the first access to the keys
  /\ At(mpc, m, "idle", "initialized")
  /\ mutations < MaxMutations
  /\ mutations' = mutations + 1
  /\ UNCHANGED <<fenceVars, index, late, requestVars, faults>>

PrepareStarted(m) ==
  /\ At(mpc, m, "idle", "prepared")
  /\ mutations < MaxMutations
  /\ mutations' = mutations + 1
  /\ started' = GetVersion(started)
  /\ UNCHANGED <<completed, index, late, requestVars, faults>>

PrepareCompleted(m) ==
  /\ At(mpc, m, "prepared", "initialized")
  /\ completed' = GetVersion(completed)
  /\ UNCHANGED <<started, index, late, requestVars, mutations, faults>>

OpenFence(m) ==
  /\ At(mpc, m, "initialized", "open")
  /\ started' = BumpVersion(started)
  /\ UNCHANGED <<completed, index, late, requestVars, mutations, faults>>

\* The precommit phase fails, the bump applied or not: nothing is executed.
RefuseMutation(m, applied) ==
  /\ mpc[m] \in {"prepared", "initialized"}
  /\ applied => mpc[m] = "initialized"
  /\ Fault
  /\ mpc' = [mpc EXCEPT ![m] = "idle"]
  /\ started' = IF applied THEN BumpVersion(started) ELSE started
  /\ UNCHANGED <<completed, index, late, requestVars, mutations>>

\* operation() commits ...
Operate(m) ==
  /\ At(mpc, m, "open", "closing")
  /\ index' = index + 1
  /\ UNCHANGED <<fenceVars, late, requestVars, mutations, faults>>

\* ... or returns an error, which does not keep the fence from closing.
AbandonFence(m) ==  \* mutant: an error of operation() returns at once
  /\ At(mpc, m, "open", "idle")
  /\ UNCHANGED <<fenceVars, index, late, requestVars, mutations, faults>>

FailOperation(m) ==
  /\ At(mpc, m, "open", "closing")
  /\ UNCHANGED <<fenceVars, index, late, requestVars, mutations, faults>>

\* operation() gave up on a COMMIT that the database still carries out.
LoseOperation(m) ==
  /\ At(late, m, "none", "pending")
  /\ At(mpc, m, "open", "closing")
  /\ Fault
  /\ UNCHANGED <<fenceVars, index, requestVars, mutations>>

CommitLate(m) ==
  /\ At(late, m, "pending", "landed")
  /\ index' = index + 1
  /\ UNCHANGED <<fenceVars, mpc, requestVars, mutations, faults>>

CloseFence(m) ==
  /\ At(mpc, m, "closing", "idle")
  /\ completed' = BumpVersion(completed)
  /\ UNCHANGED <<started, index, late, requestVars, mutations, faults>>

\* The completion bump fails, applied or not, and is never retried.
FailCompletion(m, applied) ==
  /\ At(mpc, m, "closing", "idle")
  /\ Fault
  /\ completed' = IF applied THEN BumpVersion(completed) ELSE completed
  /\ UNCHANGED <<started, index, late, requestVars, mutations>>

CrashMutator(m) ==
  /\ mpc[m] # "idle"
  /\ Fault
  /\ mpc' = [mpc EXCEPT ![m] = "idle"]
  /\ UNCHANGED <<fenceVars, index, late, requestVars, mutations>>

-------------------------------------------------------------------------------
(***************************************************************************)
(* A search: withCacheScope, getCached, the query, setCached.              *)
(***************************************************************************)
BeginRequest(r) ==
  /\ At(rpc, r, "idle", "started")
  /\ started' = GetVersion(started)
  /\ seen' = [seen EXCEPT ![r].started = GetVersion(started)]
  /\ floor' = [floor EXCEPT ![r] = index]
  /\ UNCHANGED <<completed, index, mpc, late, answer, cache, mutations, faults>>

ReadCompleted(r) ==
  /\ At(rpc, r, "started", "compared")
  /\ completed' = GetVersion(completed)
  /\ seen' = [seen EXCEPT ![r].completed = GetVersion(completed)]
  /\ UNCHANGED <<started, index, mpc, late, floor, answer, cache, mutations, faults>>

\* stableMutationVersion: the second read of started confirms the first.
Unconfirmed(r) ==  \* mutant: started is not read again
  seen[r].started = seen[r].completed

Stable(r) ==
  /\ seen[r].started = GetVersion(started)
  /\ seen[r].started = seen[r].completed

EnableCache(r) ==
  /\ Stable(r)
  /\ At(rpc, r, "compared", "enabled")
  /\ UNCHANGED <<fenceVars, index, mpc, late, seen, floor, answer, cache, mutations, faults>>

(***************************************************************************)
(* A lookup may find any entry ever stored under the key, or none: which   *)
(* tier of which replica holds what, expiry, eviction and lost writes are  *)
(* left open.                                                              *)
(***************************************************************************)
Lookup(r, e) ==
  /\ e.version = seen[r].started
  /\ At(rpc, r, "enabled", "hit")
  /\ answer' = [answer EXCEPT ![r] = e.data]
  /\ UNCHANGED <<fenceVars, index, mpc, late, seen, floor, cache, mutations, faults>>

\* A miss: the search reads one snapshot of the index.
Query(r) ==
  /\ At(rpc, r, "enabled", "queried")
  /\ answer' = [answer EXCEPT ![r] = index]
  /\ UNCHANGED <<fenceVars, index, mpc, late, seen, floor, cache, mutations, faults>>

Store(r) ==
  /\ At(rpc, r, "queried", "idle")
  /\ cache' = cache \cup {[version |-> seen[r].started, data |-> answer[r]]}
  /\ UNCHANGED <<fenceVars, index, mpc, late, seen, floor, answer, mutations, faults>>

\* The request ends: served, failed, or answered past the cache (BYPASS).
EndRequest(r) ==
  /\ rpc[r] # "idle"
  /\ rpc' = [rpc EXCEPT ![r] = "idle"]
  /\ UNCHANGED <<fenceVars, index, mpc, late, seen, floor, answer, cache, mutations, faults>>

-------------------------------------------------------------------------------
MutatorStep(m) ==
  \/ PrepareStarted(m) \/ PrepareCompleted(m)
  \/ OpenFence(m)
  \/ Operate(m) \/ FailOperation(m)
  \/ CloseFence(m)

MutatorFault(m) ==
  \/ \E applied \in BOOLEAN : RefuseMutation(m, applied) \/ FailCompletion(m, applied)
  \/ LoseOperation(m) \/ CrashMutator(m)

RequestStep(r) ==
  \/ BeginRequest(r) \/ ReadCompleted(r) \/ EnableCache(r)
  \/ Query(r) \/ Store(r) \/ EndRequest(r)
  \/ \E e \in cache : Lookup(r, e)

Next ==
  \/ \E m \in Mutators : MutatorStep(m) \/ MutatorFault(m) \/ CommitLate(m)
  \/ \E r \in Requests : RequestStep(r)

\* A mutation that has begun goes on: every call it makes has a timeout.
Fairness == \A m \in Mutators : WF_vars(mpc[m] # "idle" /\ MutatorStep(m))

Spec == Init /\ [][Next]_vars

FairSpec == Spec /\ Fairness
-------------------------------------------------------------------------------
TypeOK ==
  /\ started \in Nat /\ completed \in Nat
  /\ index \in Nat
  /\ mpc \in [Mutators -> Stages]
  /\ late \in [Mutators -> LateStages]
  /\ rpc \in [Requests -> RequestStages]
  /\ seen \in [Requests -> [started : Nat, completed : Nat]]
  /\ floor \in [Requests -> Nat]
  /\ answer \in [Requests -> Nat]
  /\ cache \subseteq Entry
  /\ mutations \in 0..MaxMutations
  /\ faults \in 0..MaxFaults

(***************************************************************************)
(* A cache hit shows everything that was in the index when the request     *)
(* began, on whatever replica it was stored, however calls to the shared   *)
(* counters fail - as long as no operation gave up on a commit that the    *)
(* database carried out later (runMutation, stableMutationVersion,         *)
(* scopedCacheKey).                                                        *)
(***************************************************************************)
InTime == \A m \in Mutators : late[m] = "none"

NoStaleHit ==
  InTime => \A r \in Requests : rpc[r] = "hit" => floor[r] <= answer[r]

(***************************************************************************)
(* No request enables the cache while a mutation, on any replica, is       *)
(* between its two bumps (runMutation: "keep every instance out of cache   *)
(* during writes").                                                        *)
(***************************************************************************)
InFlight == {m \in Mutators : mpc[m] \in {"open", "closing"}}

ClosedDuringWrites ==
  [][\A r \in Requests :
        rpc[r] = "compared" /\ rpc'[r] = "enabled" => InFlight = {}]_vars

(***************************************************************************)
(* When mutations stop, the counters are equal again and the cache is in   *)
(* use again, however many operations returned an error, unless a call of  *)
(* the version store failed or a replica died.                             *)
(***************************************************************************)
CacheReturns ==
  [](faults = 0) => <>[](GetVersion(started) = GetVersion(completed))
===============================================================================
