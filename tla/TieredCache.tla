------------------------------ MODULE TieredCache ------------------------------
(***************************************************************************)
(* The two cache tiers of each replica: a bounded map in its memory (L1)   *)
(* over a store all replicas share (L2, EdgeCache).  An entry found in L2   *)
(* is promoted to L1 with what is left of its lifetime; entries are stored  *)
(* in both tiers, in L2 by a bounded number of concurrent writes.          *)
(*                                                                         *)
(* The clock counts fractions of a second, since L2 reports lifetimes in   *)
(* whole seconds.  Only durations are compared across machines, so one     *)
(* clock stands for all of them.                                           *)
(***************************************************************************)
EXTENDS Integers, FiniteSets

CONSTANTS
  Replicas,
  Keys,
  Stores,       \* bound: the values that are stored, each once
  Getters,      \* requests that read
  Writers,      \* requests that store
  Home,         \* Home[p]: the replica of a request
  TTL,          \* TTL[r][k]: the lifetime replica r is configured with
  Second,       \* clock ticks per second
  MaxEntries,   \* l1MaxEntries
  Concurrency,  \* cacheWriteConcurrency
  None,         \* no entry
  MaxTime       \* bound: clock

ASSUME HomeAssumption == Home \in [Getters \cup Writers -> Replicas]

ASSUME TTLAssumption == \A r \in Replicas, k \in Keys : TTL[r][k] \in Nat \ {0}

ASSUME LimitAssumption ==
  /\ Second \in Nat \ {0}
  /\ MaxEntries \in Nat \ {0}
  /\ Concurrency \in Nat \ {0}
  /\ MaxTime \in Nat

ASSUME FiniteAssumption == IsFiniteSet(Keys) /\ IsFiniteSet(Stores)

Entry == [val : Stores, exp : Nat]
Answer == [val : Stores, ttl : Nat]
StoreStates == {"new", "warm", "queued", "waiting", "flying", "applied", "done"}

ASSUME NoneAssumption == None \notin Entry /\ None \notin Answer
                         /\ None \notin Keys \cup Stores /\ None \notin Writers

VARIABLES
  now,
  l1,       \* l1[r][k]: the memory of a replica
  l2,       \* the shared store
  get,      \* get[g]: a lookup under way
  store,    \* store[s]: what is stored, where it is in SetBatch, when its lifetimes end
  by,       \* the writer inside Set or SetBatch with each store
  slots     \* l2Writes: slots taken

vars == <<now, l1, l2, get, store, by, slots>>

Idle == [stage |-> "idle", key |-> None, at |-> 0, answer |-> None]
Unused == [state |-> "new", key |-> None, dies |-> 0]

Init ==
  /\ now = 0
  /\ l1 = [r \in Replicas |-> [k \in Keys |-> None]]
  /\ l2 = [k \in Keys |-> None]
  /\ get = [g \in Getters |-> Idle]
  /\ store = [s \in Stores |-> Unused]
  /\ by = [s \in Stores |-> None]
  /\ slots = [r \in Replicas |-> 0]

Tick ==
  /\ now < MaxTime
  /\ now' = now + 1
  /\ UNCHANGED <<l1, l2, get, store, by, slots>>

Cached(r) == {k \in Keys : l1[r][k] # None}
Alive(e, t) == e # None /\ e.exp > t

-------------------------------------------------------------------------------
(* L1.                                                                     *)

(* The map that results from setting key k in map m: a new key at the limit *)
(* costs the entry that expires first.  Entries that expire together are    *)
(* chosen between by the iteration order of the map.                       *)
FirstToExpire(m) ==
  {k \in Keys : /\ m[k] # None
                /\ \A j \in Keys : m[j] # None => m[k].exp <= m[j].exp}

Full(m) == Cardinality({k \in Keys : m[k] # None}) >= MaxEntries

\* Mutant: an update of a key costs another one its place.
SetAndEvict(m, k, e) ==
  IF Full(m)
  THEN {[m EXCEPT ![v] = None, ![k] = e] : v \in FirstToExpire(m)}
  ELSE {[m EXCEPT ![k] = e]}

SetL1Until(m, k, e) ==
  IF m[k] = None /\ Full(m)
  THEN {[m EXCEPT ![v] = None, ![k] = e] : v \in FirstToExpire(m)}
  ELSE {[m EXCEPT ![k] = e]}

-------------------------------------------------------------------------------
(* Get.  A hit in L1 changes nothing.  Otherwise an expired entry is dropped *)
(* and the round trip to L2 starts; a miss of both tiers ends the lookup. *)

MissL1(g, k) ==
  /\ get[g].stage = "idle"
  /\ ~Alive(l1[Home[g]][k], now)
  /\ l1' = [l1 EXCEPT ![Home[g]][k] = None]
  /\ get' = [get EXCEPT ![g] = [stage |-> "asking", key |-> k, at |-> now, answer |-> None]]
  /\ UNCHANGED <<now, l2, store, by, slots>>

\* Mutant: lifetimes are rounded up.
RoundUpSeconds(t) == ((t + Second - 1) \div Second) * Second

WholeSeconds(t) == (t \div Second) * Second

AnswerL2(g) ==
  /\ get[g].stage = "asking"
  /\ LET e == l2[get[g].key]
     IN /\ Alive(e, now)
        /\ get' = [get EXCEPT ![g].stage = "answered",
                              ![g].answer = [val |-> e.val, ttl |-> WholeSeconds(e.exp - now)]]
  /\ UNCHANGED <<now, l1, l2, store, by, slots>>

(* L2 has no such entry, or the call fails.                                *)
MissL2(g) ==
  /\ get[g].stage = "asking"
  /\ get' = [get EXCEPT ![g] = Idle]
  /\ UNCHANGED <<now, l1, l2, store, by, slots>>

\* Mutant: the lifetime is counted from the end of the round trip.
KeepFromAnswer(r, k, a, t) == now + IF a.ttl > TTL[r][k] THEN TTL[r][k] ELSE a.ttl

\* Mutant: the replica's own limit is not applied.
KeepUnlimited(r, k, a, t) == t + a.ttl

(* Until when an answer to a round trip that started at t may be kept.     *)
KeepUntil(r, k, a, t) == t + IF a.ttl > TTL[r][k] THEN TTL[r][k] ELSE a.ttl

FinishGet(g) ==
  /\ get[g].stage = "answered"
  /\ LET r == Home[g]
         k == get[g].key
         a == get[g].answer
         until == KeepUntil(r, k, a, get[g].at)
     IN IF a.ttl > 0 /\ until > now
        THEN \E m \in SetL1Until(l1[r], k, [val |-> a.val, exp |-> until]) :
               l1' = [l1 EXCEPT ![r] = m]
        ELSE l1' = l1
  /\ get' = [get EXCEPT ![g] = Idle]
  /\ UNCHANGED <<now, l2, store, by, slots>>

-------------------------------------------------------------------------------
(* SetBatch; Set is a batch of one entry.                                  *)

InState(w, states) == {s \in Stores : by[s] = w /\ store[s].state \in states}

(* The batch is done with these entries.                                   *)
Forget(S) ==
  /\ store' = [s \in Stores |-> IF s \in S
                                THEN [store[s] EXCEPT !.state = "done", !.key = None]
                                ELSE store[s]]
  /\ by' = [s \in Stores |-> IF s \in S THEN None ELSE by[s]]

Active == {"warm", "queued", "waiting", "flying", "applied"}

StartBatch(w, S, keyOf) ==
  /\ InState(w, Active) = {}
  /\ store' = [s \in Stores |-> IF s \in S
                                THEN [Unused EXCEPT !.state = "warm", !.key = keyOf[s]]
                                ELSE store[s]]
  /\ by' = [s \in Stores |-> IF s \in S THEN w ELSE by[s]]
  /\ UNCHANGED <<now, l1, l2, get, slots>>

(* setL1Locked: first of all, each entry is put into L1.                   *)
WarmL1(w, s) ==
  /\ s \in InState(w, {"warm"})
  /\ LET r == Home[w]
         until == now + TTL[r][store[s].key]
     IN /\ \E m \in SetL1Until(l1[r], store[s].key, [val |-> s, exp |-> until]) :
             l1' = [l1 EXCEPT ![r] = m]
        /\ store' = [store EXCEPT ![s].state = "queued", ![s].dies = until]
  /\ UNCHANGED <<now, l2, get, by, slots>>

(* The deadline of the batch passes, or its request is cancelled: what no   *)
(* goroutine has taken, or has no slot yet, is not written.                *)
EndContext(w) ==
  /\ InState(w, {"warm"}) = {}
  /\ InState(w, {"queued", "waiting"}) # {}
  /\ Forget(InState(w, {"queued", "waiting"}))
  /\ UNCHANGED <<now, l1, l2, get, slots>>

(* One of the goroutines of the batch takes the next entry.                *)
ClaimEntry(w, s) ==
  /\ s \in InState(w, {"queued"})
  /\ InState(w, {"warm"}) = {}
  /\ Cardinality(InState(w, {"waiting", "flying", "applied"})) < Concurrency
  /\ store' = [store EXCEPT ![s].state = "waiting"]
  /\ UNCHANGED <<now, l1, l2, get, by, slots>>

TakeSlot(w, s) ==
  /\ s \in InState(w, {"waiting"})
  /\ slots[Home[w]] < Concurrency
  /\ slots' = [slots EXCEPT ![Home[w]] = @ + 1]
  /\ store' = [store EXCEPT ![s].state = "flying"]
  /\ UNCHANGED <<now, l1, l2, get, by>>

(* L2 stores the entry for its whole lifetime, counted from now.           *)
ApplyL2(w, s) ==
  /\ s \in InState(w, {"flying"})
  /\ LET k == store[s].key
         until == now + TTL[Home[w]][k]
     IN /\ l2' = [l2 EXCEPT ![k] = [val |-> s, exp |-> until]]
        /\ store' = [store EXCEPT ![s].state = "applied", ![s].dies = until]
  /\ UNCHANGED <<now, l1, get, by, slots>>

\* Mutant: a write that fails keeps its slot.
EndWriteLeaking(w, s) ==
  /\ s \in InState(w, {"flying", "applied"})
  /\ Forget({s})
  /\ slots' = IF store[s].state = "applied" THEN [slots EXCEPT ![Home[w]] = @ - 1] ELSE slots
  /\ UNCHANGED <<now, l1, l2, get>>

(* The call returns: applied or not, its error is ignored.                 *)
EndWrite(w, s) ==
  /\ s \in InState(w, {"flying", "applied"})
  /\ Forget({s})
  /\ slots' = [slots EXCEPT ![Home[w]] = @ - 1]
  /\ UNCHANGED <<now, l1, l2, get>>

-------------------------------------------------------------------------------
GetStep(g) ==
  \/ \E k \in Keys : MissL1(g, k)
  \/ AnswerL2(g) \/ MissL2(g) \/ FinishGet(g)

Batches == {S \in SUBSET {s \in Stores : store[s].state = "new"} : S # {}}

Distinct(S) == {f \in [S -> Keys] : \A s, t \in S : f[s] = f[t] => s = t}

WriteStep(w) ==
  \/ \E s \in Stores : \/ WarmL1(w, s) \/ ClaimEntry(w, s) \/ TakeSlot(w, s)
                       \/ ApplyL2(w, s) \/ EndWrite(w, s)
  \/ EndContext(w)

Next ==
  \/ Tick
  \/ \E g \in Getters : GetStep(g)
  \/ \E w \in Writers : \/ \E S \in Batches : \E f \in Distinct(S) : StartBatch(w, S, f)
                        \/ WriteStep(w)

Spec == Init /\ [][Next]_vars

-------------------------------------------------------------------------------
(* Properties.                                                             *)

Get == [stage : {"idle", "asking", "answered"}, key : Keys \cup {None},
        at : Nat, answer : Answer \cup {None}]
Store == [state : StoreStates, key : Keys \cup {None}, dies : Nat]

TypeOK ==
  /\ now \in Nat
  /\ l1 \in [Replicas -> [Keys -> Entry \cup {None}]]
  /\ l2 \in [Keys -> Entry \cup {None}]
  /\ get \in [Getters -> Get]
  /\ store \in [Stores -> Store]
  /\ by \in [Stores -> Writers \cup {None}]
  /\ slots \in [Replicas -> Int]

(* No promotion extends a lifetime: what any replica holds in memory       *)
(* expires no later than the last lifetime given to it when it was stored,  *)
(* however slow the round trip was and however often it is promoted.       *)
LifetimeHolds ==
  \A r \in Replicas, k \in Keys :
    l1[r][k] # None => l1[r][k].exp <= store[l1[r][k].val].dies

(* A replica keeps an entry no longer than its own configuration says,     *)
(* also one that a replica with a longer lifetime stored.                  *)
OwnLimitHolds ==
  \A r \in Replicas, k \in Keys :
    l1[r][k] # None => l1[r][k].exp <= now + TTL[r][k]

(* L1 stays within its limit, and no replica has more than the permitted    *)
(* number of L2 writes under way, counted over all its batches; a slot is   *)
(* taken exactly by a write under way.                                     *)
Writing(r) == {s \in Stores : /\ store[s].state \in {"flying", "applied"}
                              /\ by[s] # None /\ Home[by[s]] = r}

WithinLimits ==
  \A r \in Replicas : /\ Cardinality(Cached(r)) <= MaxEntries
                      /\ slots[r] = Cardinality(Writing(r))
                      /\ slots[r] <= Concurrency

(* An entry that has not expired leaves L1 only for another key, only at    *)
(* the limit, alone, and only if none of the others expires earlier.       *)
Dropped(r) == {k \in Cached(r) : l1[r][k].exp > now /\ l1'[r][k] = None}

EvictsTheNextToExpire ==
  [][\A r \in Replicas : \A k \in Dropped(r) :
       /\ Dropped(r) = {k}
       /\ Full(l1[r])
       /\ \E j \in Keys : l1[r][j] = None /\ l1'[r][j] # None
       /\ \A j \in Cached(r) : l1[r][k].exp <= l1[r][j].exp]_vars

-------------------------------------------------------------------------------
(* All tiers, lookups and writes under way, seen as one cache.             *)

Storing == {s \in Stores : store[s].state \in Active}

Held ==
  {<<store[s].key, s>> : s \in Storing}
    \cup {<<k, l2[k].val>> : k \in {j \in Keys : l2[j] # None}}
    \cup (UNION {{<<k, l1[r][k].val>> : k \in Cached(r)} : r \in Replicas})
    \cup {<<get[g].key, get[g].answer.val>> : g \in {h \in Getters : get[h].stage = "answered"}}

Found ==
  (UNION {{<<k, l1[r][k].val>> : k \in {j \in Keys : Alive(l1[r][j], now)}} : r \in Replicas})
    \cup {<<k, l2[k].val>> : k \in {j \in Keys : Alive(l2[j], now)}}

CC == INSTANCE CacheContract
        WITH Values <- Stores,
             clock <- now, fresh <- {s \in Stores : store[s].state = "new"},
             storing <- Storing, held <- Held,
             ends <- [s \in Stores |-> store[s].dies], found <- Found

(* A value is found only under the key it was stored under and within the   *)
(* lifetime it was stored with, and never again when no tier, lookup or     *)
(* write holds it any more, though L1 is filled from late answers of L2 and *)
(* L2 by writes that come late themselves (Get, SetBatch).                 *)
KeepsTheContract == CC!Spec
===============================================================================
