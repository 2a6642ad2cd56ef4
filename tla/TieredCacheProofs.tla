--------------------------- MODULE TieredCacheProofs ---------------------------
(***************************************************************************)
(* Proofs about TieredCache for any replicas, configured lifetimes, limits, *)
(* keys and requests.                                                      *)
(***************************************************************************)
EXTENDS TieredCache, FiniteSetTheorems, TLAPS

(* What an entry of a batch knows while it is under way, and that its      *)
(* lifetime so far is one its replica would give it now or earlier.        *)
StoreInv ==
  \A s \in Stores :
    /\ store[s].state \in Active => by[s] \in Writers /\ store[s].key \in Keys
    /\ store[s].state \notin Active => by[s] = None
    /\ store[s].state \in {"new", "warm"} => store[s].dies = 0
    /\ store[s].state \in Active =>
         store[s].dies <= now + TTL[Home[by[s]]][store[s].key]

L2LifetimeHolds ==
  \A k \in Keys : l2[k] # None => l2[k].exp <= store[l2[k].val].dies

(* An answer reports a lifetime that ends in time even if it is counted     *)
(* from the start of the round trip.                                       *)
GetInv ==
  \A g \in Getters :
    /\ get[g].stage # "idle" => get[g].key \in Keys /\ get[g].at <= now
    /\ get[g].stage = "answered" =>
         /\ get[g].answer \in Answer
         /\ get[g].at + get[g].answer.ttl <= store[get[g].answer.val].dies

IInv == /\ TypeOK /\ StoreInv /\ L2LifetimeHolds /\ GetInv
        /\ LifetimeHolds /\ OwnLimitHolds /\ WithinLimits

-------------------------------------------------------------------------------
(* L1.                                                                     *)

Map == [Keys -> Entry \cup {None}]

\* Setting a key gives a map with this entry, and others that were there before.
LEMMA SetEffect ==
  ASSUME NEW m \in Map, NEW k \in Keys, NEW e \in Entry, NEW n \in SetL1Until(m, k, e)
  PROVE  /\ n \in Map
         /\ n[k] = e
         /\ \A j \in Keys : n[j] # None => j = k \/ n[j] = m[j]
<1> USE NoneAssumption DEF Map
<1>1. CASE m[k] = None /\ Full(m)
  <2>1. PICK v \in FirstToExpire(m) : n = [m EXCEPT ![v] = None, ![k] = e]
    BY <1>1 DEF SetL1Until
  <2> QED
    BY <2>1 DEF FirstToExpire
<1>2. CASE ~(m[k] = None /\ Full(m))
  BY <1>2 DEF SetL1Until
<1> QED
  BY <1>1, <1>2

\* The limit holds after any sequence of sets.
LEMMA SetKeepsLimit ==
  ASSUME NEW m \in Map, NEW k \in Keys, NEW e \in Entry, NEW n \in SetL1Until(m, k, e),
         Cardinality({j \in Keys : m[j] # None}) <= MaxEntries
  PROVE  Cardinality({j \in Keys : n[j] # None}) <= MaxEntries
<1> DEFINE M == {j \in Keys : m[j] # None}
           N == {j \in Keys : n[j] # None}
<1> USE NoneAssumption DEF Map
<1>1. IsFiniteSet(M) /\ Cardinality(M) \in Nat
  BY FiniteAssumption, FS_Subset, FS_CardinalityType
<1>2. CASE m[k] = None /\ Full(m)
  <2>1. PICK v \in FirstToExpire(m) : n = [m EXCEPT ![v] = None, ![k] = e]
    BY <1>2 DEF SetL1Until
  <2>2. v \in M /\ k \notin M
    BY <1>2 DEF FirstToExpire
  <2>3. N = (M \ {v}) \cup {k}
    BY <2>1, <2>2
  <2>4. IsFiniteSet(M \ {v}) /\ Cardinality(M \ {v}) = Cardinality(M) - 1
    BY <1>1, <2>2, FS_RemoveElement
  <2>5. Cardinality(N) = Cardinality(M)
    <3> HIDE DEF M, N
    <3>1. k \notin M \ {v}
      BY <2>2
    <3>2. Cardinality((M \ {v}) \cup {k}) = Cardinality(M \ {v}) + 1
      BY <2>4, <3>1, FS_AddElement
    <3> QED
      BY <1>1, <2>3, <2>4, <3>2
  <2> QED
    BY <2>5
<1>3. CASE m[k] # None
  <2>1. n = [m EXCEPT ![k] = e]
    BY <1>3 DEF SetL1Until
  <2>2. N = M
    BY <1>3, <2>1
  <2> QED
    BY <2>2
<1>4. CASE m[k] = None /\ ~Full(m)
  <2>1. n = [m EXCEPT ![k] = e]
    BY <1>4 DEF SetL1Until
  <2>2. N = M \cup {k} /\ k \notin M
    BY <1>4, <2>1
  <2>3. Cardinality(M) < MaxEntries
    BY <1>1, <1>4, LimitAssumption DEF Full
  <2>4. Cardinality(N) = Cardinality(M) + 1
    <3> HIDE DEF M, N
    <3> QED
      BY <1>1, <2>2, FS_AddElement
  <2> QED
    BY <1>1, <2>3, <2>4, LimitAssumption
<1> QED
  BY <1>2, <1>3, <1>4

\* Only the next entry to expire leaves the map, and only for a new key at the limit.
LEMMA SetEvicts ==
  ASSUME NEW m \in Map, NEW k \in Keys, NEW e \in Entry, NEW n \in SetL1Until(m, k, e),
         NEW v \in Keys, m[v] # None, n[v] = None
  PROVE  /\ Full(m) /\ m[k] = None /\ n[k] # None
         /\ v \in FirstToExpire(m)
         /\ \A j \in Keys : m[j] # None /\ n[j] = None => j = v
<1> USE NoneAssumption DEF Map
<1>1. CASE m[k] = None /\ Full(m)
  <2>1. PICK w \in FirstToExpire(m) : n = [m EXCEPT ![w] = None, ![k] = e]
    BY <1>1 DEF SetL1Until
  <2> QED
    BY <1>1, <2>1 DEF FirstToExpire
<1>2. CASE ~(m[k] = None /\ Full(m))
  BY <1>2 DEF SetL1Until
<1> QED
  BY <1>1, <1>2

LEMMA WholeSecondsBound ==
  ASSUME NEW t \in Nat
  PROVE  WholeSeconds(t) \in Nat /\ WholeSeconds(t) <= t
<1>1. t = Second * (t \div Second) + (t % Second) /\ t \div Second \in Nat /\ t % Second \in Nat
  BY LimitAssumption
<1> DEFINE q == t \div Second
<1>2. Second * q \in Nat
  BY <1>1, LimitAssumption
<1>3. q * Second = Second * q
  BY <1>1, LimitAssumption
<1> QED
  BY <1>1, <1>2, <1>3 DEF WholeSeconds

-------------------------------------------------------------------------------
(* What L1 may do in a step.                                               *)

\* Key k of replica r is set to e, whose lifetime ends in time.
SetsL1(r, k, e) ==
  /\ r \in Replicas /\ k \in Keys /\ e \in Entry
  /\ \E m \in SetL1Until(l1[r], k, e) : l1' = [l1 EXCEPT ![r] = m]
  /\ e.exp <= store'[e.val].dies
  /\ e.exp <= now' + TTL[r][k]

LEMMA IdleType == Idle \in Get
BY DEF Idle, Get

\* An entry that is under way has a key, a replica and a lifetime.
LEMMA UnderWay ==
  ASSUME now \in Nat, store \in [Stores -> Store], StoreInv,
         NEW w \in Writers, NEW s \in Stores, by[s] = w, store[s].state \in Active
  PROVE  /\ Home[w] \in Replicas /\ store[s].key \in Keys /\ store[s].dies \in Nat
         /\ now + TTL[Home[w]][store[s].key] \in Nat
         /\ store[s].dies <= now + TTL[Home[w]][store[s].key]
<1>1. Home[w] \in Replicas
  BY HomeAssumption
<1>2. store[s].key \in Keys /\ store[s].dies <= now + TTL[Home[w]][store[s].key]
  BY DEF StoreInv
<1>3. TTL[Home[w]][store[s].key] \in Nat
  BY <1>1, <1>2, TTLAssumption
<1>4. store[s].dies \in Nat
  BY DEF Store
<1> QED
  BY <1>1, <1>2, <1>3, <1>4

\* The value returned by L2 has a lifetime that ends before it would in L2.
LEMMA AnswerEffect ==
  ASSUME TypeOK, GetInv, L2LifetimeHolds, NEW g \in Getters, AnswerL2(g)
  PROVE  \E a \in Answer :
           /\ get' = [get EXCEPT ![g] = [[get[g] EXCEPT !.stage = "answered"] EXCEPT !.answer = a]]
           /\ get[g].at + a.ttl <= store[a.val].dies
<1> DEFINE e == l2[get[g].key]
           ttl == WholeSeconds(e.exp - now)
           a == [val |-> e.val, ttl |-> ttl]
<1>1. now \in Nat /\ get \in [Getters -> Get] /\ l2 \in [Keys -> Entry \cup {None}]
  BY DEF TypeOK
<1>2. get[g].stage = "asking" /\ e # None /\ e.exp > now
      /\ get' = [get EXCEPT ![g].stage = "answered", ![g].answer = a]
  BY DEF AnswerL2, Alive
<1>3. get[g].key \in Keys /\ get[g].at <= now /\ get[g].at \in Nat
  BY <1>1, <1>2 DEF GetInv, Get
<1>4. e \in Entry
  BY <1>1, <1>2, <1>3
<1>5. e.val \in Stores /\ e.exp \in Nat /\ e.exp - now \in Nat
  BY <1>1, <1>2, <1>4 DEF Entry
<1>6. ttl \in Nat /\ ttl <= e.exp - now
  BY <1>5, WholeSecondsBound
<1>7. a \in Answer /\ a.val = e.val /\ a.ttl = ttl
  BY <1>5, <1>6 DEF Answer
<1>8. e.exp <= store[e.val].dies
  BY <1>2, <1>3 DEF L2LifetimeHolds
<1>9. store[e.val].dies \in Nat
  BY <1>5 DEF TypeOK, Store
<1>10. get[g].at + ttl <= store[e.val].dies
  <2> HIDE DEF e, ttl
  <2> QED
    BY <1>1, <1>3, <1>5, <1>6, <1>8, <1>9
<1>11. get' = [get EXCEPT ![g] = [[get[g] EXCEPT !.stage = "answered"] EXCEPT !.answer = a]]
  <2> HIDE DEF a
  <2> QED
    BY <1>1, <1>2
<1> HIDE DEF a, ttl, e
<1> QED
  BY <1>7, <1>10, <1>11

\* What a lookup promotes.
LEMMA FinishGetSets ==
  ASSUME TypeOK, GetInv, NEW g \in Getters, FinishGet(g), l1' # l1
  PROVE  \E e \in Entry : SetsL1(Home[g], get[g].key, e)
<1> DEFINE r == Home[g]
           k == get[g].key
           a == get[g].answer
           until == KeepUntil(r, k, a, get[g].at)
           e == [val |-> a.val, exp |-> until]
<1>1. /\ get[g].stage = "answered" /\ store' = store /\ now' = now
      /\ \E m \in SetL1Until(l1[r], k, e) : l1' = [l1 EXCEPT ![r] = m]
  BY DEF FinishGet
<1>2. now \in Nat /\ get[g] \in Get /\ store \in [Stores -> Store]
  BY DEF TypeOK
<1>3. r \in Replicas
  BY HomeAssumption
<1>4. /\ k \in Keys /\ get[g].at <= now /\ a \in Answer
      /\ get[g].at + a.ttl <= store[a.val].dies
  BY <1>1 DEF GetInv
<1>5. get[g].at \in Nat
  BY <1>2 DEF Get
<1>6. a.val \in Stores /\ a.ttl \in Nat
  BY <1>4 DEF Answer
<1>7. store[a.val].dies \in Nat
  BY <1>2, <1>6 DEF Store
<1>8. TTL[r][k] \in Nat
  BY <1>3, <1>4, TTLAssumption
<1>9. until \in Nat /\ until <= get[g].at + a.ttl /\ until <= get[g].at + TTL[r][k]
  BY <1>5, <1>6, <1>8 DEF KeepUntil
<1>10. until <= store'[a.val].dies /\ until <= now' + TTL[r][k]
  <2> HIDE DEF r, k, until
  <2> QED
    BY <1>1, <1>2, <1>4, <1>5, <1>6, <1>7, <1>8, <1>9
<1>11. e \in Entry /\ e.val = a.val /\ e.exp = until
  BY <1>6, <1>9 DEF Entry
<1> HIDE DEF r, k, a, until, e
<1>12. SetsL1(r, k, e)
  BY <1>1, <1>3, <1>4, <1>10, <1>11 DEF SetsL1
<1> QED
  BY <1>11, <1>12 DEF r, k

\* What is stored is put into L1 for its whole lifetime.
LEMMA WarmL1Sets ==
  ASSUME TypeOK, StoreInv, NEW w \in Writers, NEW s \in Stores, WarmL1(w, s)
  PROVE  \E e \in Entry : SetsL1(Home[w], store[s].key, e)
<1> DEFINE r == Home[w]
           k == store[s].key
           until == now + TTL[r][k]
           e == [val |-> s, exp |-> until]
<1>1. now \in Nat /\ store \in [Stores -> Store]
  BY DEF TypeOK
<1>2. r \in Replicas /\ k \in Keys /\ until \in Nat
  BY <1>1, UnderWay DEF WarmL1, InState, Active
<1>3. /\ now' = now
      /\ store' = [store EXCEPT ![s].state = "queued", ![s].dies = until]
      /\ \E m \in SetL1Until(l1[r], k, e) : l1' = [l1 EXCEPT ![r] = m]
  BY DEF WarmL1
<1>4. e \in Entry /\ e.val = s /\ e.exp = until
  BY <1>2 DEF Entry
<1>5. store'[s].dies = until
  BY <1>1, <1>3 DEF Store
<1>6. until <= store'[s].dies /\ until <= now' + TTL[r][k]
  BY <1>2, <1>3, <1>5
<1> HIDE DEF e, until, r, k
<1>7. SetsL1(r, k, e)
  BY <1>2, <1>3, <1>4, <1>6 DEF SetsL1
<1> QED
  BY <1>4, <1>7 DEF r, k

\* L1 changes in no other way than by these, and by dropping what has expired.
LEMMA L1Changes ==
  ASSUME TypeOK, StoreInv, GetInv, [Next]_vars, l1' # l1
  PROVE  \/ \E g \in Getters, k \in Keys : MissL1(g, k)
         \/ \E r \in Replicas, k \in Keys, e \in Entry : SetsL1(r, k, e)
<1>1. ASSUME NEW g \in Getters, FinishGet(g)
      PROVE  \E r \in Replicas, k \in Keys, e \in Entry : SetsL1(r, k, e)
  <2>1. PICK e \in Entry : SetsL1(Home[g], get[g].key, e)
    BY <1>1, FinishGetSets
  <2> QED
    BY <2>1 DEF SetsL1
<1>2. ASSUME NEW w \in Writers, NEW s \in Stores, WarmL1(w, s)
      PROVE  \E r \in Replicas, k \in Keys, e \in Entry : SetsL1(r, k, e)
  <2>1. PICK e \in Entry : SetsL1(Home[w], store[s].key, e)
    BY <1>2, WarmL1Sets
  <2> QED
    BY <2>1 DEF SetsL1
<1>3. ASSUME NEW g \in Getters, AnswerL2(g) \/ MissL2(g) PROVE l1' = l1
  BY <1>3 DEF AnswerL2, MissL2
<1>4. ASSUME NEW w \in Writers, NEW S, NEW f, StartBatch(w, S, f) PROVE l1' = l1
  BY <1>4 DEF StartBatch
<1>5. ASSUME NEW w \in Writers, NEW s \in Stores,
             ClaimEntry(w, s) \/ TakeSlot(w, s) \/ ApplyL2(w, s) \/ EndWrite(w, s)
      PROVE  l1' = l1
  BY <1>5 DEF ClaimEntry, TakeSlot, ApplyL2, EndWrite
<1>6. ASSUME NEW w \in Writers, EndContext(w) PROVE l1' = l1
  BY <1>6 DEF EndContext
<1>7. ASSUME Tick \/ UNCHANGED vars PROVE l1' = l1
  BY <1>7 DEF Tick, vars
<1> QED
  BY <1>1, <1>2, <1>3, <1>4, <1>5, <1>6, <1>7 DEF Next, GetStep, WriteStep

\* Setting a key keeps the maps, and changes no other replica's.
LEMMA SetsL1Effect ==
  ASSUME l1 \in [Replicas -> Map], NEW r, NEW k, NEW e, SetsL1(r, k, e)
  PROVE  /\ l1' \in [Replicas -> Map]
         /\ l1'[r] \in SetL1Until(l1[r], k, e)
         /\ \A q \in Replicas \ {r} : l1'[q] = l1[q]
<1>1. r \in Replicas /\ k \in Keys /\ e \in Entry
  BY DEF SetsL1
<1>2. PICK m \in SetL1Until(l1[r], k, e) : l1' = [l1 EXCEPT ![r] = m]
  BY DEF SetsL1
<1>3. l1[r] \in Map
  BY <1>1
<1>4. m \in Map
  BY <1>1, <1>3, SetEffect
<1> QED
  BY <1>1, <1>2, <1>4

\* Dropping an expired entry, or one that is not there.
LEMMA MissL1Effect ==
  ASSUME l1 \in [Replicas -> Map], NEW g \in Getters, NEW k \in Keys, MissL1(g, k)
  PROVE  /\ l1' \in [Replicas -> Map]
         /\ \A r \in Replicas, j \in Keys :
              l1'[r][j] = IF r = Home[g] /\ j = k THEN None ELSE l1[r][j]
<1>1. Home[g] \in Replicas
  BY HomeAssumption
<1>2. l1[Home[g]] \in Map
  BY <1>1
<1> DEFINE m == [l1[Home[g]] EXCEPT ![k] = None]
<1>3. m \in Map /\ \A j \in Keys : m[j] = IF j = k THEN None ELSE l1[Home[g]][j]
  BY <1>2 DEF Map
<1>4. l1' = [l1 EXCEPT ![Home[g]] = m]
  BY DEF MissL1
<1> HIDE DEF m
<1> QED
  BY <1>1, <1>3, <1>4

\* The shared store changes only by a write that is applied.
LEMMA L2Changes ==
  ASSUME TypeOK, StoreInv, [Next]_vars
  PROVE  /\ l2' \in [Keys -> Entry \cup {None}]
         /\ \A k \in Keys : \/ l2'[k] = l2[k]
                            \/ l2'[k].exp = store'[l2'[k].val].dies /\ l2'[k].exp \in Nat
<1>1. now \in Nat /\ store \in [Stores -> Store] /\ l2 \in [Keys -> Entry \cup {None}]
  BY DEF TypeOK
<1>2. ASSUME NEW w \in Writers, NEW s \in Stores, ApplyL2(w, s)
      PROVE  /\ l2' \in [Keys -> Entry \cup {None}]
             /\ \A k \in Keys : \/ l2'[k] = l2[k]
                                \/ l2'[k].exp = store'[l2'[k].val].dies /\ l2'[k].exp \in Nat
  <2> DEFINE j == store[s].key
             until == now + TTL[Home[w]][j]
             e == [val |-> s, exp |-> until]
  <2>1. j \in Keys /\ until \in Nat
    BY <1>1, <1>2, UnderWay DEF ApplyL2, InState, Active
  <2>2. e \in Entry /\ e.val = s /\ e.exp = until
    BY <2>1 DEF Entry
  <2>3. l2' = [l2 EXCEPT ![j] = e]
        /\ store' = [store EXCEPT ![s].state = "applied", ![s].dies = until]
    BY <1>2 DEF ApplyL2
  <2>4. store'[s].dies = until
    BY <1>1, <2>3 DEF Store
  <2> HIDE DEF e, until, j
  <2> QED
    BY <1>1, <2>1, <2>2, <2>3, <2>4
<1>3. ASSUME NEW g \in Getters, GetStep(g) PROVE l2' = l2
  BY <1>3 DEF GetStep, MissL1, AnswerL2, MissL2, FinishGet
<1>4. ASSUME NEW w \in Writers, NEW S, NEW f, StartBatch(w, S, f) PROVE l2' = l2
  BY <1>4 DEF StartBatch
<1>5. ASSUME NEW w \in Writers, NEW s \in Stores,
             WarmL1(w, s) \/ ClaimEntry(w, s) \/ TakeSlot(w, s) \/ EndWrite(w, s)
      PROVE  l2' = l2
  BY <1>5 DEF WarmL1, ClaimEntry, TakeSlot, EndWrite
<1>6. ASSUME NEW w \in Writers, EndContext(w) PROVE l2' = l2
  BY <1>6 DEF EndContext
<1>7. ASSUME Tick \/ UNCHANGED vars PROVE l2' = l2
  BY <1>7 DEF Tick, vars
<1>8. \/ l2' = l2 \/ \E w \in Writers, s \in Stores : ApplyL2(w, s)
  BY <1>3, <1>4, <1>5, <1>6, <1>7 DEF Next, WriteStep
<1> QED
  BY <1>1, <1>2, <1>8

-------------------------------------------------------------------------------
LEMMA InitIInv == Init => IInv
<1> SUFFICES ASSUME Init PROVE IInv
  OBVIOUS
<1>1. TypeOK
  <2>1. Unused \in Store
    BY DEF Unused, Store, StoreStates
  <2> QED
    BY <2>1, IdleType DEF Init, TypeOK
<1>2. StoreInv
  BY DEF Init, StoreInv, Unused, Active
<1>3. L2LifetimeHolds /\ LifetimeHolds /\ OwnLimitHolds
  BY DEF Init, L2LifetimeHolds, LifetimeHolds, OwnLimitHolds
<1>4. GetInv
  BY DEF Init, GetInv, Idle
<1>5. WithinLimits
  <2> SUFFICES ASSUME NEW r \in Replicas
               PROVE  /\ Cardinality(Cached(r)) <= MaxEntries
                      /\ slots[r] = Cardinality(Writing(r))
                      /\ slots[r] <= Concurrency
    BY DEF WithinLimits
  <2>1. Cached(r) = {}
    BY DEF Init, Cached
  <2>2. Writing(r) = {}
    BY DEF Init, Writing, Unused
  <2>3. slots[r] = 0
    BY DEF Init
  <2> QED
    BY <2>1, <2>2, <2>3, FS_EmptySet, LimitAssumption
<1> QED
  BY <1>1, <1>2, <1>3, <1>4, <1>5 DEF IInv

LEMMA TypeStep == TypeOK /\ GetInv /\ StoreInv /\ L2LifetimeHolds /\ [Next]_vars => TypeOK'
<1> SUFFICES ASSUME TypeOK, GetInv, StoreInv, L2LifetimeHolds, [Next]_vars PROVE TypeOK'
  OBVIOUS
<1>l1. l1 \in [Replicas -> Map]
  BY DEF TypeOK, Map
<1>get. now \in Nat /\ get \in [Getters -> Get]
  BY DEF TypeOK
<1>store. store \in [Stores -> Store]
  BY DEF TypeOK
<1>by. by \in [Stores -> Writers \cup {None}]
  BY DEF TypeOK
<1>slots. slots \in [Replicas -> Int]
  BY DEF TypeOK
<1>1. now' \in Nat
  <2>1. CASE Tick
    BY <2>1, <1>get DEF Tick
  <2>2. CASE now' = now
    BY <2>2, <1>get
  <2>3. ASSUME NEW g \in Getters, GetStep(g) PROVE now' = now
    BY <2>3 DEF GetStep, MissL1, AnswerL2, MissL2, FinishGet
  <2>4. ASSUME NEW w \in Writers, NEW S, NEW f, StartBatch(w, S, f) PROVE now' = now
    BY <2>4 DEF StartBatch
  <2>5. ASSUME NEW w \in Writers, WriteStep(w) PROVE now' = now
    BY <2>5 DEF WriteStep, WarmL1, ClaimEntry, TakeSlot, ApplyL2, EndWrite, EndContext
  <2> QED
    BY <2>1, <2>2, <2>3, <2>4, <2>5 DEF Next, vars
<1>2. l1' \in [Replicas -> Map]
  <2>1. CASE l1' = l1
    BY <2>1, <1>l1
  <2>2. ASSUME NEW g \in Getters, NEW k \in Keys, MissL1(g, k) PROVE l1' \in [Replicas -> Map]
    BY <2>2, <1>l1, MissL1Effect
  <2>3. ASSUME NEW r \in Replicas, NEW k \in Keys, NEW e \in Entry, SetsL1(r, k, e)
        PROVE  l1' \in [Replicas -> Map]
    BY <2>3, <1>l1, SetsL1Effect
  <2> QED
    BY <2>1, <2>2, <2>3, L1Changes
<1>3. l2' \in [Keys -> Entry \cup {None}]
  BY L2Changes DEF TypeOK
<1>4. get' \in [Getters -> Get]
  <2>1. CASE get' = get
    BY <2>1, <1>get
  <2>2. ASSUME NEW g \in Getters, GetStep(g) PROVE get' \in [Getters -> Get]
    <3>1. ASSUME NEW k \in Keys, MissL1(g, k) PROVE get' \in [Getters -> Get]
      <4>1. [stage |-> "asking", key |-> k, at |-> now, answer |-> None] \in Get
        BY <1>get DEF Get
      <4> QED
        BY <3>1, <4>1, <1>get DEF MissL1
    <3>2. ASSUME AnswerL2(g) PROVE get' \in [Getters -> Get]
      <4>1. PICK a \in Answer : get' = [get EXCEPT ![g] = [[get[g] EXCEPT !.stage = "answered"]
                                                             EXCEPT !.answer = a]]
        BY <3>2, AnswerEffect
      <4>2. [[get[g] EXCEPT !.stage = "answered"] EXCEPT !.answer = a] \in Get
        BY <1>get DEF Get
      <4> QED
        BY <4>1, <4>2, <1>get
    <3>3. ASSUME MissL2(g) \/ FinishGet(g) PROVE get' \in [Getters -> Get]
      BY <3>3, <1>get, IdleType DEF MissL2, FinishGet
    <3> QED
      BY <2>2, <3>1, <3>2, <3>3 DEF GetStep
  <2>3. ASSUME NEW w \in Writers, NEW S, NEW f, StartBatch(w, S, f) PROVE get' = get
    BY <2>3 DEF StartBatch
  <2>4. ASSUME NEW w \in Writers, WriteStep(w) PROVE get' = get
    BY <2>4 DEF WriteStep, WarmL1, ClaimEntry, TakeSlot, ApplyL2, EndWrite, EndContext
  <2>5. ASSUME Tick PROVE get' = get
    BY <2>5 DEF Tick
  <2> QED
    BY <2>1, <2>2, <2>3, <2>4, <2>5 DEF Next, vars
<1>5. /\ store' \in [Stores -> Store]
      /\ by' \in [Stores -> Writers \cup {None}]
      /\ slots' \in [Replicas -> Int]
  <2> DEFINE Good == /\ store' \in [Stores -> Store]
                     /\ by' \in [Stores -> Writers \cup {None}]
                     /\ slots' \in [Replicas -> Int]
  <2>1. CASE UNCHANGED <<store, by, slots>>
    BY <2>1, <1>store, <1>by, <1>slots
  <2>2. ASSUME \E S : Forget(S)
        PROVE  store' \in [Stores -> Store] /\ by' \in [Stores -> Writers \cup {None}]
    <3> PICK S : Forget(S)
      BY <2>2
    <3>1. \A s \in Stores : [store[s] EXCEPT !.state = "done", !.key = None] \in Store
      BY <1>store DEF Store, StoreStates
    <3> QED
      BY <3>1, <1>store, <1>by DEF Forget
  <2>3. ASSUME NEW w \in Writers, NEW S \in Batches, NEW f \in Distinct(S), StartBatch(w, S, f)
        PROVE  Good
    <3>1. \A s \in S : f[s] \in Keys
      BY DEF Distinct
    <3>2. \A s \in S : [Unused EXCEPT !.state = "warm", !.key = f[s]] \in Store
      BY <3>1 DEF Store, StoreStates, Unused
    <3>3. store' \in [Stores -> Store]
      BY <2>3, <3>2, <1>store DEF StartBatch
    <3>4. by' \in [Stores -> Writers \cup {None}]
      BY <2>3, <1>by DEF StartBatch
    <3> QED
      BY <2>3, <3>3, <3>4, <1>slots DEF StartBatch
  <2>4. ASSUME NEW w \in Writers, NEW s \in Stores, WarmL1(w, s) \/ ApplyL2(w, s) PROVE Good
    <3> DEFINE until == now + TTL[Home[w]][store[s].key]
    <3>1. until \in Nat
      BY <2>4, <1>get, <1>store, UnderWay DEF WarmL1, ApplyL2, InState, Active
    <3>2. \E q \in {"queued", "applied"} :
             store' = [store EXCEPT ![s].state = q, ![s].dies = until]
      BY <2>4 DEF WarmL1, ApplyL2
    <3> HIDE DEF until
    <3>3. \A q \in {"queued", "applied"} :
            [[store[s] EXCEPT !.state = q] EXCEPT !.dies = until] \in Store
      BY <1>store, <3>1 DEF Store, StoreStates
    <3>4. store' \in [Stores -> Store]
      BY <1>store, <3>2, <3>3
    <3>5. UNCHANGED <<by, slots>>
      BY <2>4 DEF WarmL1, ApplyL2
    <3> QED
      BY <3>4, <3>5, <1>by, <1>slots
  <2>5. ASSUME NEW w \in Writers, NEW s \in Stores, ClaimEntry(w, s) \/ TakeSlot(w, s) PROVE Good
    <3>1. \E q \in {"waiting", "flying"} : store' = [store EXCEPT ![s].state = q]
      BY <2>5 DEF ClaimEntry, TakeSlot
    <3>2. \A q \in {"waiting", "flying"} : [store[s] EXCEPT !.state = q] \in Store
      BY <1>store DEF Store, StoreStates
    <3>3. store' \in [Stores -> Store]
      BY <1>store, <3>1, <3>2
    <3>4. by' = by /\ slots' \in [Replicas -> Int]
      BY <2>5, <1>slots DEF ClaimEntry, TakeSlot
    <3> QED
      BY <3>3, <3>4, <1>by
  <2>6. ASSUME NEW w \in Writers, NEW s \in Stores, EndWrite(w, s) PROVE Good
    <3>1. slots' \in [Replicas -> Int]
      BY <2>6, <1>slots, HomeAssumption DEF EndWrite
    <3>2. \E S : Forget(S)
      BY <2>6 DEF EndWrite
    <3> QED
      BY <2>2, <3>1, <3>2
  <2>7. ASSUME NEW w \in Writers, EndContext(w) PROVE Good
    <3>1. slots' = slots /\ \E S : Forget(S)
      BY <2>7 DEF EndContext
    <3> QED
      BY <2>2, <3>1, <1>slots
  <2>8. ASSUME NEW g \in Getters, GetStep(g) PROVE Good
    <3>1. UNCHANGED <<store, by, slots>>
      BY <2>8 DEF GetStep, MissL1, AnswerL2, MissL2, FinishGet
    <3> QED
      BY <2>1, <3>1
  <2>9. ASSUME Tick \/ UNCHANGED vars PROVE Good
    <3>1. UNCHANGED <<store, by, slots>>
      BY <2>9 DEF Tick, vars
    <3> QED
      BY <2>1, <3>1
  <2> HIDE DEF Good
  <2>10. Good
    BY <2>3, <2>4, <2>5, <2>6, <2>7, <2>8, <2>9 DEF Next, WriteStep
  <2> QED
    BY <2>10 DEF Good
<1> QED
  BY <1>1, <1>2, <1>3, <1>4, <1>5 DEF TypeOK, Map

(* The lifetimes.                                                          *)

\* The lifetime of what is stored never becomes shorter, and the clock goes on.
LEMMA LivesGrow ==
  ASSUME TypeOK, StoreInv, [Next]_vars
  PROVE  now <= now' /\ \A s \in Stores : store[s].dies <= store'[s].dies
<1>now. now \in Nat
  BY DEF TypeOK
<1>store. store \in [Stores -> Store] /\ \A s \in Stores : store[s].dies \in Nat
  BY DEF TypeOK, Store
<1> DEFINE Good == now <= now' /\ \A s \in Stores : store[s].dies <= store'[s].dies
<1>1. ASSUME now <= now', store' = store PROVE Good
  BY <1>1, <1>store
<1>2. ASSUME NEW g \in Getters, GetStep(g) PROVE Good
  <2>1. UNCHANGED <<now, store>>
    BY <1>2 DEF GetStep, MissL1, AnswerL2, MissL2, FinishGet
  <2> QED
    BY <1>1, <1>now, <2>1
<1>3. ASSUME Tick \/ UNCHANGED vars PROVE Good
  <2>1. now <= now' /\ store' = store
    BY <1>3, <1>now DEF Tick, vars
  <2> QED
    BY <1>1, <2>1
<1>4. ASSUME NEW w \in Writers, NEW S \in Batches, NEW f \in Distinct(S), StartBatch(w, S, f)
      PROVE  Good
  <2>1. \A s \in S : s \in Stores /\ store[s].dies = 0
    BY DEF Batches, StoreInv
  <2>2. \A s \in S : [Unused EXCEPT !.state = "warm", !.key = f[s]].dies = 0
    BY DEF Unused
  <2>3. \A s \in S : store'[s].dies = 0
    BY <1>4, <2>1, <2>2 DEF StartBatch
  <2>4. \A s \in Stores \ S : store'[s] = store[s]
    BY <1>4 DEF StartBatch
  <2>5. \A s \in Stores : store'[s].dies = store[s].dies
    BY <2>1, <2>3, <2>4
  <2>6. now' = now
    BY <1>4 DEF StartBatch
  <2>7. now <= now'
    BY <1>now, <2>6
  <2>8. \A s \in Stores : store[s].dies <= store'[s].dies
    BY <1>store, <2>5
  <2> QED
    BY <2>7, <2>8
<1>5. ASSUME NEW w \in Writers, NEW s \in Stores, WarmL1(w, s) \/ ApplyL2(w, s) PROVE Good
  <2> DEFINE until == now + TTL[Home[w]][store[s].key]
  <2>1. until \in Nat /\ store[s].dies <= until
    BY <1>5, <1>now, <1>store, UnderWay DEF WarmL1, ApplyL2, InState, Active
  <2>2. now' = now /\ \E q : store' = [store EXCEPT ![s].state = q, ![s].dies = until]
    BY <1>5 DEF WarmL1, ApplyL2
  <2> HIDE DEF until
  <2>3. \A t \in Stores : store[t].dies <= store'[t].dies
    BY <1>store, <2>1, <2>2 DEF Store
  <2>4. now <= now'
    BY <1>now, <2>2
  <2> QED
    BY <2>3, <2>4
<1>6. ASSUME now' = now, \E S : Forget(S) PROVE Good
  <2>1. PICK S : Forget(S)
    BY <1>6
  <2>2. \A s \in Stores : store'[s].dies = store[s].dies
    BY <2>1, <1>store DEF Forget, Store
  <2> QED
    BY <1>6, <1>now, <1>store, <2>2
<1>7. ASSUME NEW w \in Writers, EndContext(w) \/ \E s \in Stores : EndWrite(w, s) PROVE Good
  <2>1. now' = now /\ \E S : Forget(S)
    BY <1>7 DEF EndContext, EndWrite
  <2> QED
    BY <1>6, <2>1
<1>8. ASSUME NEW w \in Writers, NEW s \in Stores, ClaimEntry(w, s) \/ TakeSlot(w, s) PROVE Good
  <2>1. now' = now /\ \E q : store' = [store EXCEPT ![s].state = q]
    BY <1>8 DEF ClaimEntry, TakeSlot
  <2>2. \A t \in Stores : store'[t].dies = store[t].dies
    BY <2>1, <1>store DEF Store
  <2> QED
    BY <1>now, <1>store, <2>1, <2>2
<1> HIDE DEF Good
<1>9. Good
  BY <1>2, <1>3, <1>4, <1>5, <1>7, <1>8 DEF Next, WriteStep
<1> QED
  BY <1>9 DEF Good

LEMMA StoreStep == TypeOK /\ StoreInv /\ [Next]_vars => StoreInv'
<1> SUFFICES ASSUME TypeOK, StoreInv, [Next]_vars PROVE StoreInv'
  OBVIOUS
<1>now. now \in Nat
  BY DEF TypeOK
<1>store. store \in [Stores -> Store] /\ by \in [Stores -> Writers \cup {None}]
  BY DEF TypeOK
<1>home. \A w \in Writers : Home[w] \in Replicas
  BY HomeAssumption
<1>life. \A w \in Writers, k \in Keys : TTL[Home[w]][k] \in Nat
  BY <1>home, TTLAssumption
<1>1. CASE Tick
  <2> SUFFICES ASSUME NEW s \in Stores
               PROVE  store[s].state \in Active => store[s].dies <= now' + TTL[Home[by[s]]][store[s].key]
    BY <1>1 DEF Tick, StoreInv
  <2>1. CASE store[s].state \in Active
    <3>1. by[s] \in Writers /\ store[s].key \in Keys
          /\ store[s].dies <= now + TTL[Home[by[s]]][store[s].key]
      BY <2>1 DEF StoreInv
    <3>2. TTL[Home[by[s]]][store[s].key] \in Nat /\ store[s].dies \in Nat /\ now' = now + 1
      BY <1>1, <3>1, <1>life, <1>store DEF Store, Tick
    <3> QED
      BY <3>1, <3>2, <1>now
  <2> QED
    BY <2>1
<1>2. ASSUME NEW g \in Getters, GetStep(g) PROVE UNCHANGED <<now, store, by>>
  BY <1>2 DEF GetStep, MissL1, AnswerL2, MissL2, FinishGet
<1>3. ASSUME NEW w \in Writers, NEW S \in Batches, NEW f \in Distinct(S), StartBatch(w, S, f)
      PROVE  StoreInv'
  <2>1. \A s \in S : s \in Stores /\ f[s] \in Keys
    BY DEF Batches, Distinct
  <2>2. \A k \in Keys : 0 <= now + TTL[Home[w]][k]
    BY <1>now, <1>life
  <2>3. \A s \in Stores : by'[s] = IF s \in S THEN w ELSE by[s]
    BY <1>3 DEF StartBatch
  <2>4. \A s \in S : store'[s].state = "warm" /\ store'[s].key = f[s] /\ store'[s].dies = 0
    BY <1>3, <2>1 DEF StartBatch, Unused
  <2>5. \A s \in Stores \ S : store'[s] = store[s]
    BY <1>3 DEF StartBatch
  <2>6. now' = now
    BY <1>3 DEF StartBatch
  <2>7. \A s \in Stores \ S : by'[s] = by[s]
    BY <2>3
  <2>8. \A s \in S : by'[s] = w
    BY <2>1, <2>3
  <2> SUFFICES ASSUME NEW s \in Stores
               PROVE  /\ store'[s].state \in Active => by'[s] \in Writers /\ store'[s].key \in Keys
                      /\ store'[s].state \notin Active => by'[s] = None
                      /\ store'[s].state \in {"new", "warm"} => store'[s].dies = 0
                      /\ store'[s].state \in Active =>
                           store'[s].dies <= now' + TTL[Home[by'[s]]][store'[s].key]
    BY DEF StoreInv
  <2>9. CASE s \in S
    BY <2>1, <2>2, <2>4, <2>6, <2>8, <2>9 DEF Active
  <2>10. CASE s \notin S
    <3>1. store'[s] = store[s] /\ by'[s] = by[s]
      BY <2>5, <2>7, <2>10
    <3> QED
      BY <3>1, <2>6 DEF StoreInv
  <2> QED
    BY <2>9, <2>10
<1>4. ASSUME NEW w \in Writers, NEW s \in Stores, WarmL1(w, s) \/ ApplyL2(w, s) PROVE StoreInv'
  <2> DEFINE until == now + TTL[Home[w]][store[s].key]
  <2>1. by[s] = w /\ store[s].key \in Keys /\ until \in Nat
    BY <1>4, <1>now, <1>store, UnderWay DEF WarmL1, ApplyL2, InState, Active
  <2>2. /\ now' = now /\ by' = by
        /\ \E q \in {"queued", "applied"} : store' = [store EXCEPT ![s].state = q, ![s].dies = until]
    BY <1>4 DEF WarmL1, ApplyL2
  <2>3. /\ store'[s].state \in {"queued", "applied"} /\ store'[s].key = store[s].key
        /\ store'[s].dies = until
        /\ \A t \in Stores \ {s} : store'[t] = store[t]
    <3> HIDE DEF until
    <3> QED
      BY <2>2, <1>store DEF Store
  <2>4. store'[s].dies <= now' + TTL[Home[by'[s]]][store'[s].key]
    BY <2>1, <2>2, <2>3
  <2> HIDE DEF until
  <2> QED
    BY <2>1, <2>2, <2>3, <2>4 DEF StoreInv, Active
<1>5. ASSUME now' = now, \E S : Forget(S) PROVE StoreInv'
  <2>1. PICK S : Forget(S)
    BY <1>5
  <2>2. \A s \in Stores \ S : store'[s] = store[s] /\ by'[s] = by[s]
    BY <2>1 DEF Forget
  <2>3. \A s \in Stores : s \in S => store'[s].state = "done" /\ by'[s] = None
    BY <2>1, <1>store DEF Forget, Store
  <2> QED
    BY <1>5, <2>2, <2>3 DEF StoreInv, Active
<1>6. ASSUME NEW w \in Writers, EndContext(w) \/ \E s \in Stores : EndWrite(w, s) PROVE StoreInv'
  <2>1. now' = now /\ \E S : Forget(S)
    BY <1>6 DEF EndContext, EndWrite
  <2> QED
    BY <1>5, <2>1
<1>7. ASSUME NEW w \in Writers, NEW s \in Stores, ClaimEntry(w, s) \/ TakeSlot(w, s) PROVE StoreInv'
  <2>1. store[s].state \in Active \ {"warm"}
        /\ \E q \in {"waiting", "flying"} : store' = [store EXCEPT ![s].state = q]
    BY <1>7 DEF ClaimEntry, TakeSlot, InState, Active
  <2>2. /\ store'[s].state \in {"waiting", "flying"} /\ store'[s].key = store[s].key
        /\ store'[s].dies = store[s].dies
        /\ \A t \in Stores \ {s} : store'[t] = store[t]
    BY <2>1, <1>store DEF Store
  <2>3. now' = now /\ by' = by
    BY <1>7 DEF ClaimEntry, TakeSlot
  <2> QED
    BY <2>1, <2>2, <2>3 DEF StoreInv, Active
<1>8. CASE UNCHANGED vars
  BY <1>8 DEF vars, StoreInv
<1>9. ASSUME UNCHANGED <<now, store, by>> PROVE StoreInv'
  BY <1>9 DEF StoreInv
<1> QED
  BY <1>1, <1>2, <1>3, <1>4, <1>6, <1>7, <1>8, <1>9 DEF Next, WriteStep

LEMMA L1LifetimeStep ==
  TypeOK /\ StoreInv /\ GetInv /\ L2LifetimeHolds /\ LifetimeHolds /\ OwnLimitHolds /\ [Next]_vars
    => LifetimeHolds' /\ OwnLimitHolds'
<1> SUFFICES ASSUME TypeOK, StoreInv, GetInv, L2LifetimeHolds, LifetimeHolds, OwnLimitHolds,
                    [Next]_vars, NEW r \in Replicas, NEW k \in Keys, l1'[r][k] # None
             PROVE  /\ l1'[r][k].exp <= store'[l1'[r][k].val].dies
                    /\ l1'[r][k].exp <= now' + TTL[r][k]
  BY DEF LifetimeHolds, OwnLimitHolds
<1>1. now <= now' /\ \A s \in Stores : store[s].dies <= store'[s].dies
  BY LivesGrow
<1>2. TypeOK'
  BY TypeStep
<1>3. l1 \in [Replicas -> Map]
  BY DEF TypeOK, Map
<1>4. CASE l1'[r][k] = l1[r][k]
  <2> DEFINE e == l1[r][k]
  <2>1. e \in Entry
    BY <1>3, <1>4 DEF Map
  <2>2. e.exp \in Nat /\ e.val \in Stores
    BY <2>1 DEF Entry
  <2>3. e.exp <= store[e.val].dies /\ e.exp <= now + TTL[r][k]
    BY <1>4 DEF LifetimeHolds, OwnLimitHolds
  <2>4. store[e.val].dies \in Nat /\ store'[e.val].dies \in Nat
    BY <1>2, <2>2 DEF TypeOK, Store
  <2>5. now \in Nat /\ now' \in Nat /\ TTL[r][k] \in Nat
    BY <1>2, TTLAssumption DEF TypeOK
  <2>6. store[e.val].dies <= store'[e.val].dies
    BY <1>1, <2>2
  <2> HIDE DEF e
  <2>7. e.exp <= store'[e.val].dies
    BY <2>2, <2>3, <2>4, <2>6
  <2>8. e.exp <= now' + TTL[r][k]
    BY <1>1, <2>2, <2>3, <2>5
  <2> QED
    BY <1>4, <2>7, <2>8 DEF e
<1>5. ASSUME NEW g \in Getters, NEW j \in Keys, MissL1(g, j) PROVE l1'[r][k] = l1[r][k]
  BY <1>3, <1>5, MissL1Effect
<1>6. ASSUME NEW q \in Replicas, NEW j \in Keys, NEW e \in Entry, SetsL1(q, j, e),
             l1'[r][k] # l1[r][k]
      PROVE  /\ l1'[r][k].exp <= store'[l1'[r][k].val].dies
             /\ l1'[r][k].exp <= now' + TTL[r][k]
  <2>1. r = q /\ l1'[r] \in SetL1Until(l1[r], j, e)
    BY <1>3, <1>6, SetsL1Effect
  <2>2. l1[r] \in Map
    BY <1>3
  <2>3. k = j /\ l1'[r][k] = e
    BY <1>6, <2>1, <2>2, SetEffect
  <2> QED
    BY <1>6, <2>1, <2>3 DEF SetsL1
<1> QED
  BY <1>4, <1>5, <1>6, L1Changes

LEMMA L2LifetimeStep ==
  TypeOK /\ StoreInv /\ GetInv /\ L2LifetimeHolds /\ [Next]_vars => L2LifetimeHolds'
<1> SUFFICES ASSUME TypeOK, StoreInv, GetInv, L2LifetimeHolds, [Next]_vars,
                    NEW k \in Keys, l2'[k] # None
             PROVE  l2'[k].exp <= store'[l2'[k].val].dies
  BY DEF L2LifetimeHolds
<1>1. \A s \in Stores : store[s].dies <= store'[s].dies
  BY LivesGrow
<1>2. TypeOK'
  BY TypeStep
<1>3. CASE l2'[k] = l2[k]
  <2> DEFINE e == l2[k]
  <2>1. e \in Entry
    BY <1>3 DEF TypeOK
  <2>2. e.exp \in Nat /\ e.val \in Stores /\ e.exp <= store[e.val].dies
    BY <1>3, <2>1 DEF Entry, L2LifetimeHolds
  <2>3. store[e.val].dies \in Nat /\ store'[e.val].dies \in Nat
    BY <1>2, <2>2 DEF TypeOK, Store
  <2>4. store[e.val].dies <= store'[e.val].dies
    BY <1>1, <2>2
  <2> HIDE DEF e
  <2> QED
    BY <1>3, <2>2, <2>3, <2>4 DEF e
<1>4. CASE l2'[k].exp = store'[l2'[k].val].dies /\ l2'[k].exp \in Nat
  BY <1>4
<1> QED
  BY <1>3, <1>4, L2Changes

LEMMA GetInvStep ==
  TypeOK /\ StoreInv /\ GetInv /\ L2LifetimeHolds /\ [Next]_vars => GetInv'
<1> SUFFICES ASSUME TypeOK, StoreInv, GetInv, L2LifetimeHolds, [Next]_vars, NEW g \in Getters
             PROVE  /\ get'[g].stage # "idle" => get'[g].key \in Keys /\ get'[g].at <= now'
                    /\ get'[g].stage = "answered" =>
                         /\ get'[g].answer \in Answer
                         /\ get'[g].at + get'[g].answer.ttl <= store'[get'[g].answer.val].dies
  BY DEF GetInv
<1> DEFINE Good == /\ get'[g].stage # "idle" => get'[g].key \in Keys /\ get'[g].at <= now'
                   /\ get'[g].stage = "answered" =>
                        /\ get'[g].answer \in Answer
                        /\ get'[g].at + get'[g].answer.ttl <= store'[get'[g].answer.val].dies
<1>1. now <= now' /\ \A s \in Stores : store[s].dies <= store'[s].dies
  BY LivesGrow
<1>2. TypeOK'
  BY TypeStep
<1>3. now \in Nat /\ now' \in Nat /\ get \in [Getters -> Get] /\ get[g] \in Get
  BY <1>2 DEF TypeOK
<1>4. CASE get'[g] = get[g]
  <2>1. get[g].stage # "idle" => get[g].key \in Keys /\ get[g].at <= now'
    BY <1>1, <1>3 DEF GetInv, Get
  <2>2. ASSUME get[g].stage = "answered"
        PROVE  /\ get[g].answer \in Answer
               /\ get[g].at + get[g].answer.ttl <= store'[get[g].answer.val].dies
    <3> DEFINE a == get[g].answer
    <3>1. a \in Answer /\ get[g].at + a.ttl <= store[a.val].dies
      BY <2>2 DEF GetInv
    <3>2. a.val \in Stores /\ a.ttl \in Nat /\ get[g].at \in Nat
      BY <1>3, <3>1 DEF Answer, Get
    <3>3. store[a.val].dies \in Nat /\ store'[a.val].dies \in Nat
      BY <1>2, <3>2 DEF TypeOK, Store
    <3>4. store[a.val].dies <= store'[a.val].dies
      BY <1>1, <3>2
    <3> HIDE DEF a
    <3>5. get[g].at + a.ttl <= store'[a.val].dies
      BY <3>1, <3>2, <3>3, <3>4
    <3> QED
      BY <3>1, <3>5 DEF a
  <2> QED
    BY <1>4, <2>1, <2>2
<1>5. ASSUME NEW k \in Keys, MissL1(g, k) PROVE Good
  <2>1. get'[g] = [stage |-> "asking", key |-> k, at |-> now, answer |-> None] /\ now' = now
    BY <1>3, <1>5 DEF MissL1
  <2> QED
    BY <1>3, <2>1
<1>6. ASSUME AnswerL2(g) PROVE Good
  <2>1. get[g].stage = "asking" /\ store' = store /\ now' = now
    BY <1>6 DEF AnswerL2
  <2>2. get[g].key \in Keys /\ get[g].at <= now
    BY <2>1 DEF GetInv
  <2>3. PICK a \in Answer :
          /\ get' = [get EXCEPT ![g] = [[get[g] EXCEPT !.stage = "answered"] EXCEPT !.answer = a]]
          /\ get[g].at + a.ttl <= store[a.val].dies
    BY <1>6, AnswerEffect
  <2>4. get'[g] = [[get[g] EXCEPT !.stage = "answered"] EXCEPT !.answer = a]
    BY <1>3, <2>3
  <2>5. get'[g].key = get[g].key /\ get'[g].at = get[g].at /\ get'[g].answer = a
    BY <1>3, <2>4 DEF Get
  <2> QED
    BY <2>1, <2>2, <2>3, <2>5
<1>7. ASSUME MissL2(g) \/ FinishGet(g) PROVE Good
  <2>1. get'[g] = Idle
    BY <1>3, <1>7 DEF MissL2, FinishGet
  <2> QED
    BY <2>1 DEF Idle
<1>8. ASSUME NEW h \in Getters, h # g, GetStep(h) PROVE get'[g] = get[g]
  BY <1>3, <1>8 DEF GetStep, MissL1, AnswerL2, MissL2, FinishGet
<1>9. ASSUME NEW w \in Writers, NEW S, NEW f, StartBatch(w, S, f) PROVE get' = get
  BY <1>9 DEF StartBatch
<1>10. ASSUME NEW w \in Writers, WriteStep(w) PROVE get' = get
  BY <1>10 DEF WriteStep, WarmL1, ClaimEntry, TakeSlot, ApplyL2, EndWrite, EndContext
<1>11. ASSUME Tick \/ UNCHANGED vars PROVE get' = get
  BY <1>11 DEF Tick, vars
<1> HIDE DEF Good
<1>12. Good
  <2>1. CASE get'[g] = get[g]
    BY <1>4, <2>1 DEF Good
  <2> QED
    BY <1>5, <1>6, <1>7, <1>8, <1>9, <1>10, <1>11, <2>1 DEF Next, GetStep
<1> QED
  BY <1>12 DEF Good

(* The limits.                                                             *)

LEMMA CachedStep ==
  TypeOK /\ StoreInv /\ GetInv /\ WithinLimits /\ [Next]_vars
    => \A r \in Replicas : Cardinality(Cached(r)') <= MaxEntries
<1> SUFFICES ASSUME TypeOK, StoreInv, GetInv, WithinLimits, [Next]_vars, NEW r \in Replicas
             PROVE  Cardinality(Cached(r)') <= MaxEntries
  OBVIOUS
<1>1. l1 \in [Replicas -> Map]
  BY DEF TypeOK, Map
<1>2. Cardinality(Cached(r)) <= MaxEntries /\ MaxEntries \in Nat
  BY LimitAssumption DEF WithinLimits
<1>3. IsFiniteSet(Cached(r)) /\ Cardinality(Cached(r)) \in Nat
  BY FiniteAssumption, FS_Subset, FS_CardinalityType DEF Cached
<1>4. CASE Cached(r)' \subseteq Cached(r)
  <2>1. Cardinality(Cached(r)') <= Cardinality(Cached(r)) /\ IsFiniteSet(Cached(r)')
    BY <1>3, <1>4, FS_Subset
  <2>2. Cardinality(Cached(r)') \in Nat
    BY <2>1, FS_CardinalityType
  <2> QED
    BY <1>2, <1>3, <2>1, <2>2
<1>5. ASSUME l1'[r] = l1[r] PROVE Cached(r)' \subseteq Cached(r)
  BY <1>5 DEF Cached
<1>6. ASSUME NEW g \in Getters, NEW k \in Keys, MissL1(g, k)
      PROVE  Cached(r)' \subseteq Cached(r)
  BY <1>1, <1>6, MissL1Effect DEF Cached
<1>7. ASSUME NEW q \in Replicas, NEW k \in Keys, NEW e \in Entry, SetsL1(q, k, e), q = r
      PROVE  Cardinality(Cached(r)') <= MaxEntries
  <2>1. l1'[r] \in SetL1Until(l1[r], k, e) /\ l1[r] \in Map
    BY <1>1, <1>7, SetsL1Effect
  <2> QED
    BY <1>2, <2>1, SetKeepsLimit DEF Cached
<1>8. ASSUME NEW q \in Replicas, NEW k \in Keys, NEW e \in Entry, SetsL1(q, k, e), q # r
      PROVE  l1'[r] = l1[r]
  BY <1>1, <1>8, SetsL1Effect
<1> QED
  BY <1>4, <1>5, <1>6, <1>7, <1>8, L1Changes

LEMMA SlotsStep ==
  TypeOK /\ StoreInv /\ WithinLimits /\ [Next]_vars
    => \A r \in Replicas : slots'[r] = Cardinality(Writing(r)') /\ slots'[r] <= Concurrency
<1> SUFFICES ASSUME TypeOK, StoreInv, WithinLimits, [Next]_vars, NEW r \in Replicas
             PROVE  slots'[r] = Cardinality(Writing(r)') /\ slots'[r] <= Concurrency
  OBVIOUS
<1>store. store \in [Stores -> Store]
  BY DEF TypeOK
<1>slots. slots \in [Replicas -> Int] /\ Concurrency \in Nat
  BY LimitAssumption DEF TypeOK
<1>by. \A s \in Stores : store[s].state \in {"flying", "applied"} => by[s] # None
  BY NoneAssumption DEF StoreInv, Active
<1>1. /\ slots[r] = Cardinality(Writing(r)) /\ slots[r] <= Concurrency
      /\ IsFiniteSet(Writing(r)) /\ Cardinality(Writing(r)) \in Nat
  BY FiniteAssumption, FS_Subset, FS_CardinalityType DEF Writing, WithinLimits
<1>2. CASE slots'[r] = slots[r] /\ Writing(r)' = Writing(r)
  BY <1>1, <1>2
<1>3. ASSUME NEW g \in Getters, GetStep(g) PROVE slots' = slots /\ Writing(r)' = Writing(r)
  BY <1>3 DEF GetStep, MissL1, AnswerL2, MissL2, FinishGet, Writing
<1>4. ASSUME NEW w \in Writers, NEW S \in Batches, NEW f, StartBatch(w, S, f)
      PROVE  slots' = slots /\ Writing(r)' = Writing(r)
  <2>1. \A s \in S : s \in Stores /\ store[s].state = "new" /\ store'[s].state = "warm"
    BY <1>4 DEF StartBatch, Batches, Unused
  <2>2. \A s \in Stores \ S : store'[s] = store[s] /\ by'[s] = by[s]
    BY <1>4 DEF StartBatch
  <2>3. slots' = slots
    BY <1>4 DEF StartBatch
  <2>4. Writing(r)' = Writing(r)
    BY <2>1, <2>2 DEF Writing
  <2> QED
    BY <2>3, <2>4
<1>5. ASSUME NEW w \in Writers, NEW s \in Stores,
             WarmL1(w, s) \/ ClaimEntry(w, s) \/ ApplyL2(w, s)
      PROVE  slots' = slots /\ Writing(r)' = Writing(r)
  <2>1. /\ slots' = slots /\ by' = by
        /\ store'[s].state \in {"flying", "applied"} <=> store[s].state \in {"flying", "applied"}
    BY <1>5, <1>store DEF WarmL1, ClaimEntry, ApplyL2, InState, Store
  <2>2. \A t \in Stores \ {s} : store'[t] = store[t]
    BY <1>5, <1>store DEF WarmL1, ClaimEntry, ApplyL2
  <2> QED
    BY <2>1, <2>2 DEF Writing
<1>6. ASSUME NEW w \in Writers, EndContext(w) PROVE slots' = slots /\ Writing(r)' = Writing(r)
  <2> DEFINE S == InState(w, {"queued", "waiting"})
  <2>1. Forget(S) /\ slots' = slots
    BY <1>6 DEF EndContext
  <2>2. \A s \in S : s \in Stores /\ store[s].state \in {"queued", "waiting"}
    BY DEF InState
  <2> HIDE DEF S
  <2>3. \A s \in Stores : s \in S => store'[s].state = "done"
    BY <2>1, <1>store DEF Forget, Store
  <2>4. \A s \in Stores \ S : store'[s] = store[s] /\ by'[s] = by[s]
    BY <2>1 DEF Forget
  <2>5. Writing(r)' = Writing(r)
    BY <2>2, <2>3, <2>4 DEF Writing
  <2> QED
    BY <2>1, <2>5
<1>7. ASSUME NEW w \in Writers, NEW s \in Stores, TakeSlot(w, s)
      PROVE  slots'[r] = Cardinality(Writing(r)') /\ slots'[r] <= Concurrency
  <2>1. by[s] = w /\ store[s].state = "waiting" /\ Home[w] \in Replicas /\ w # None
    BY <1>7, HomeAssumption, NoneAssumption DEF TakeSlot, InState
  <2>2. /\ by' = by /\ slots' = [slots EXCEPT ![Home[w]] = @ + 1] /\ slots[Home[w]] < Concurrency
        /\ store' = [store EXCEPT ![s].state = "flying"]
    BY <1>7 DEF TakeSlot
  <2>3. store'[s].state = "flying" /\ \A t \in Stores \ {s} : store'[t] = store[t]
    BY <1>store, <2>2 DEF Store
  <2>4. CASE r = Home[w]
    <3>1. s \notin Writing(r)
      BY <2>1 DEF Writing
    <3>2. Writing(r)' = Writing(r) \cup {s}
      BY <2>1, <2>2, <2>3, <2>4 DEF Writing
    <3>3. Cardinality(Writing(r) \cup {s}) = Cardinality(Writing(r)) + 1
      BY <1>1, <3>1, FS_AddElement
    <3>4. slots'[r] = slots[r] + 1 /\ slots[r] < Concurrency
      BY <1>slots, <2>2, <2>4
    <3> QED
      BY <1>1, <1>slots, <3>2, <3>3, <3>4
  <2>5. CASE r # Home[w]
    <3>1. Writing(r)' = Writing(r)
      BY <2>1, <2>2, <2>3, <2>5 DEF Writing
    <3>2. slots'[r] = slots[r]
      BY <1>slots, <2>2, <2>5
    <3> QED
      BY <1>2, <3>1, <3>2
  <2> QED
    BY <2>4, <2>5
<1>8. ASSUME NEW w \in Writers, NEW s \in Stores, EndWrite(w, s)
      PROVE  slots'[r] = Cardinality(Writing(r)') /\ slots'[r] <= Concurrency
  <2>1. by[s] = w /\ store[s].state \in {"flying", "applied"} /\ Home[w] \in Replicas /\ w # None
    BY <1>8, HomeAssumption, NoneAssumption DEF EndWrite, InState
  <2>2. slots' = [slots EXCEPT ![Home[w]] = @ - 1] /\ Forget({s})
    BY <1>8 DEF EndWrite
  <2>3. store'[s].state = "done"
    BY <1>store, <2>2 DEF Forget, Store
  <2>4. \A t \in Stores \ {s} : store'[t] = store[t] /\ by'[t] = by[t]
    BY <2>2 DEF Forget
  <2>5. CASE r = Home[w]
    <3>1. s \in Writing(r)
      BY <2>1, <2>5 DEF Writing
    <3>2. Writing(r)' = Writing(r) \ {s}
      BY <2>3, <2>4 DEF Writing
    <3>3. Cardinality(Writing(r) \ {s}) = Cardinality(Writing(r)) - 1
      BY <1>1, <3>1, FS_RemoveElement
    <3>4. slots'[r] = slots[r] - 1
      BY <1>slots, <2>2, <2>5
    <3> QED
      BY <1>1, <1>slots, <3>2, <3>3, <3>4
  <2>6. CASE r # Home[w]
    <3>1. Writing(r)' = Writing(r)
      BY <2>1, <2>3, <2>4, <2>6 DEF Writing
    <3>2. slots'[r] = slots[r]
      BY <1>slots, <2>2, <2>6
    <3> QED
      BY <1>2, <3>1, <3>2
  <2> QED
    BY <2>5, <2>6
<1>9. ASSUME Tick \/ UNCHANGED vars PROVE slots' = slots /\ Writing(r)' = Writing(r)
  BY <1>9 DEF Tick, vars, Writing
<1> QED
  BY <1>2, <1>3, <1>4, <1>5, <1>6, <1>7, <1>8, <1>9 DEF Next, WriteStep

LEMMA IInvStep == IInv /\ [Next]_vars => IInv'
<1> SUFFICES ASSUME IInv, [Next]_vars PROVE IInv'
  OBVIOUS
<1>1. TypeOK' /\ StoreInv'
  BY TypeStep, StoreStep DEF IInv
<1>2. GetInv' /\ L2LifetimeHolds' /\ LifetimeHolds' /\ OwnLimitHolds'
  BY GetInvStep, L2LifetimeStep, L1LifetimeStep DEF IInv
<1>3. WithinLimits'
  BY CachedStep, SlotsStep DEF IInv, WithinLimits
<1> QED
  BY <1>1, <1>2, <1>3 DEF IInv

(* What leaves L1.                                                         *)

LEMMA EvictsStep ==
  ASSUME TypeOK, StoreInv, GetInv, [Next]_vars,
         NEW r \in Replicas, NEW v \in Dropped(r)
  PROVE  /\ Dropped(r) = {v}
         /\ Full(l1[r])
         /\ \E j \in Keys : l1[r][j] = None /\ l1'[r][j] # None
         /\ \A j \in Cached(r) : l1[r][v].exp <= l1[r][j].exp
<1>1. l1 \in [Replicas -> Map]
  BY DEF TypeOK, Map
<1>2. v \in Keys /\ l1[r][v] # None /\ l1'[r][v] = None /\ l1[r][v].exp > now
  BY DEF Dropped, Cached
<1>3. ASSUME NEW q \in Replicas, NEW k \in Keys, NEW e \in Entry, SetsL1(q, k, e)
      PROVE  \E j \in Keys, f \in Entry : l1'[r] \in SetL1Until(l1[r], j, f)
  <2>1. q = r
    BY <1>1, <1>2, <1>3, SetsL1Effect
  <2> QED
    BY <1>1, <1>3, <2>1, SetsL1Effect
<1>4. ASSUME NEW g \in Getters, NEW k \in Keys, MissL1(g, k) PROVE FALSE
  <2>1. r = Home[g] /\ v = k
    BY <1>1, <1>2, <1>4, MissL1Effect
  <2> QED
    BY <1>2, <1>4, <2>1 DEF MissL1, Alive
<1>5. l1' # l1
  BY <1>2
<1>6. PICK k \in Keys, e \in Entry : l1'[r] \in SetL1Until(l1[r], k, e)
  BY <1>3, <1>4, <1>5, L1Changes
<1>7. /\ Full(l1[r]) /\ l1[r][k] = None /\ l1'[r][k] # None
      /\ v \in FirstToExpire(l1[r])
      /\ \A j \in Keys : l1[r][j] # None /\ l1'[r][j] = None => j = v
  BY <1>1, <1>2, <1>6, SetEvicts
<1>8. Dropped(r) = {v}
  BY <1>2, <1>7 DEF Dropped, Cached
<1>9. \A j \in Cached(r) : l1[r][v].exp <= l1[r][j].exp
  BY <1>7 DEF FirstToExpire, Cached
<1> QED
  BY <1>7, <1>8, <1>9

-------------------------------------------------------------------------------
\* The inductive invariant holds in every execution.
THEOREM TiersCorrect == Spec => []IInv
<1>1. Init => IInv
  BY InitIInv
<1>2. IInv /\ [Next]_vars => IInv'
  BY IInvStep
<1> QED
  BY <1>1, <1>2, PTL DEF Spec

(* What Get promotes from the shared store expires no later than the       *)
(* lifetime it was stored with.                                            *)
THEOREM LifetimesHold == Spec => []LifetimeHolds
<1>1. IInv => LifetimeHolds
  BY DEF IInv
<1> QED
  BY <1>1, TiersCorrect, PTL

(* Nothing stays in a replica's L1 for longer than its own configuration   *)
(* allows, whoever stored the entry in L2 (Get).                           *)
THEOREM OwnLimitsHold == Spec => []OwnLimitHolds
<1>1. IInv => OwnLimitHolds
  BY DEF IInv
<1> QED
  BY <1>1, TiersCorrect, PTL

(* L1 never exceeds its limit, and the slots of l2Writes count exactly the *)
(* writes under way, never more than permitted.                            *)
THEOREM LimitsHold == Spec => []WithinLimits
<1>1. IInv => WithinLimits
  BY DEF IInv
<1> QED
  BY <1>1, TiersCorrect, PTL

(* Only the next entry to expire is evicted, for a new key at the limit.   *)
THEOREM EvictionIsFair == Spec => EvictsTheNextToExpire
<1>1. IInv /\ [Next]_vars =>
        [\A r \in Replicas : \A k \in Dropped(r) :
           /\ Dropped(r) = {k}
           /\ Full(l1[r])
           /\ \E j \in Keys : l1[r][j] = None /\ l1'[r][j] # None
           /\ \A j \in Cached(r) : l1[r][k].exp <= l1[r][j].exp]_vars
  BY EvictsStep DEF IInv
<1> QED
  BY <1>1, TiersCorrect, PTL DEF Spec, EvictsTheNextToExpire

-------------------------------------------------------------------------------
(* The contract.                                                           *)

\* A copy of s is held under k: it is being stored, in a tier, or in an answer.
HeldUnder(k, s) ==
  \/ s \in Storing /\ store[s].key = k
  \/ l2[k] # None /\ l2[k].val = s
  \/ \E r \in Replicas : l1[r][k] # None /\ l1[r][k].val = s
  \/ \E g \in Getters : get[g].stage = "answered" /\ get[g].key = k /\ get[g].answer.val = s

HeldMeaning ==
  /\ Held \subseteq Keys \X Stores
  /\ \A k \in Keys, s \in Stores : <<k, s>> \in Held <=> HeldUnder(k, s)

LEMMA HeldMeans == TypeOK /\ StoreInv /\ GetInv => HeldMeaning
<1> SUFFICES ASSUME TypeOK, StoreInv, GetInv PROVE HeldMeaning
  OBVIOUS
<1>1. /\ l1 \in [Replicas -> [Keys -> Entry \cup {None}]] /\ l2 \in [Keys -> Entry \cup {None}]
      /\ \A e \in Entry : e.val \in Stores
      /\ \A a \in Answer : a.val \in Stores
  BY DEF TypeOK, Entry, Answer
<1>2. ASSUME NEW p \in Held PROVE p \in Keys \X Stores
  <2>1. CASE p \in {<<store[s].key, s>> : s \in Storing}
    BY <2>1 DEF Storing, StoreInv
  <2>2. CASE p \in {<<k, l2[k].val>> : k \in {j \in Keys : l2[j] # None}}
    BY <1>1, <2>2
  <2>3. CASE p \in UNION {{<<k, l1[r][k].val>> : k \in Cached(r)} : r \in Replicas}
    <3>1. PICK r \in Replicas : \E k \in Cached(r) : p = <<k, l1[r][k].val>>
      BY <2>3
    <3>2. PICK k \in Cached(r) : p = <<k, l1[r][k].val>>
      BY <3>1
    <3>3. k \in Keys /\ l1[r][k] \in Entry
      BY <1>1, <3>2 DEF Cached
    <3> QED
      BY <1>1, <3>2, <3>3
  <2>4. CASE p \in {<<get[g].key, get[g].answer.val>> :
                      g \in {h \in Getters : get[h].stage = "answered"}}
    <3>1. PICK g \in Getters : get[g].stage = "answered" /\ p = <<get[g].key, get[g].answer.val>>
      BY <2>4
    <3>2. get[g].key \in Keys /\ get[g].answer \in Answer
      BY <3>1 DEF GetInv
    <3> QED
      BY <1>1, <3>1, <3>2
  <2> QED
    BY <1>2, <2>1, <2>2, <2>3, <2>4 DEF Held
<1>3. ASSUME NEW k \in Keys, NEW s \in Stores PROVE <<k, s>> \in Held <=> HeldUnder(k, s)
  <2>1. <<k, s>> \in {<<store[t].key, t>> : t \in Storing} <=> s \in Storing /\ store[s].key = k
    OBVIOUS
  <2>2. <<k, s>> \in {<<j, l2[j].val>> : j \in {i \in Keys : l2[i] # None}}
          <=> l2[k] # None /\ l2[k].val = s
    OBVIOUS
  <2>3. <<k, s>> \in UNION {{<<j, l1[r][j].val>> : j \in Cached(r)} : r \in Replicas}
          <=> \E r \in Replicas : l1[r][k] # None /\ l1[r][k].val = s
    BY DEF Cached
  <2>4. <<k, s>> \in {<<get[g].key, get[g].answer.val>> :
                        g \in {h \in Getters : get[h].stage = "answered"}}
          <=> \E g \in Getters : /\ get[g].stage = "answered" /\ get[g].key = k
                                 /\ get[g].answer.val = s
    <3>1. \A x, y : <<k, s>> = <<x, y>> <=> k = x /\ s = y
      OBVIOUS
    <3> QED
      BY <3>1, Zenon
  <2> QED
    BY <2>1, <2>2, <2>3, <2>4 DEF Held, HeldUnder
<1> QED
  BY <1>2, <1>3 DEF HeldMeaning

\* What a lookup may find is held under its key and alive.
LEMMA HonestHolds ==
  ASSUME IInv
  PROVE  CC!Honest
<1>1. now \in Nat /\ l1 \in [Replicas -> [Keys -> Entry \cup {None}]]
      /\ l2 \in [Keys -> Entry \cup {None}]
      /\ \A s \in Stores : store[s].dies \in Nat
      /\ \A e \in Entry : e.val \in Stores /\ e.exp \in Nat
  BY DEF IInv, TypeOK, Entry, Store
<1>e. \A e \in Entry : e.val \in Stores /\ e.exp \in Nat
  BY DEF Entry
<1> DEFINE ends == [s \in Stores |-> store[s].dies]
<1>2. ASSUME NEW r \in Replicas, NEW k \in Keys, Alive(l1[r][k], now)
      PROVE  <<k, l1[r][k].val>> \in {p \in Held : now < ends[p[2]]}
  <2>1. l1[r][k] # None /\ l1[r][k] \in Entry /\ l1[r][k].exp > now
    BY <1>1, <1>2 DEF Alive
  <2>2. l1[r][k].val \in Stores /\ l1[r][k].exp \in Nat
    BY <1>e, <2>1
  <2>3. l1[r][k].exp <= store[l1[r][k].val].dies
    BY <2>1 DEF IInv, LifetimeHolds
  <2>4. now < store[l1[r][k].val].dies
    BY <1>1, <2>1, <2>2, <2>3
  <2>5. <<k, l1[r][k].val>> \in Held
    BY <2>1, <2>2, HeldMeans DEF IInv, HeldMeaning, HeldUnder
  <2> QED
    BY <2>2, <2>4, <2>5
<1>3. ASSUME NEW k \in Keys, Alive(l2[k], now)
      PROVE  <<k, l2[k].val>> \in {p \in Held : now < ends[p[2]]}
  <2>1. l2[k] # None /\ l2[k] \in Entry /\ l2[k].exp > now
    BY <1>1, <1>3 DEF Alive
  <2>2. l2[k].val \in Stores /\ l2[k].exp \in Nat
    BY <1>e, <2>1
  <2>3. l2[k].exp <= store[l2[k].val].dies
    BY <2>1 DEF IInv, L2LifetimeHolds
  <2>4. now < store[l2[k].val].dies
    BY <1>1, <2>1, <2>2, <2>3
  <2>5. <<k, l2[k].val>> \in Held
    BY <2>1, <2>2, HeldMeans DEF IInv, HeldMeaning, HeldUnder
  <2> QED
    BY <2>2, <2>4, <2>5
<1>4. ASSUME NEW p \in Found PROVE p \in {q \in Held : now < ends[q[2]]}
  <2> HIDE DEF ends
  <2>1. CASE \E k \in Keys : Alive(l2[k], now) /\ p = <<k, l2[k].val>>
    BY <1>3, <2>1
  <2>2. CASE \E r \in Replicas, k \in Keys : Alive(l1[r][k], now) /\ p = <<k, l1[r][k].val>>
    BY <1>2, <2>2
  <2> QED
    BY <1>4, <2>1, <2>2 DEF Found
<1> QED
  BY <1>4 DEF CC!Honest

\* Copies are made of copies only.
LEMMA HeldShrinks ==
  ASSUME TypeOK, StoreInv, GetInv, TypeOK', StoreInv', GetInv',
         \A k \in Keys, s \in Stores : HeldUnder(k, s)' => HeldUnder(k, s)
  PROVE  Held' \subseteq Held
<1>1. (TypeOK /\ StoreInv /\ GetInv => HeldMeaning)'
  BY HeldMeans, PTL
<1>2. HeldMeaning /\ HeldMeaning'
  BY <1>1, HeldMeans
<1> QED
  BY <1>2 DEF HeldMeaning

\* Filling L1 with a copy of a value that is held under the key.
LEMMA SetL1Held ==
  ASSUME TypeOK, NEW r \in Replicas, NEW j \in Keys, NEW e \in Entry,
         \E m \in SetL1Until(l1[r], j, e) : l1' = [l1 EXCEPT ![r] = m]
  PROVE  \A q \in Replicas, k \in Keys :
           l1'[q][k] # None => l1'[q][k] = l1[q][k] \/ (k = j /\ l1'[q][k] = e)
<1>0. PICK m \in SetL1Until(l1[r], j, e) : l1' = [l1 EXCEPT ![r] = m]
  OBVIOUS
<1>1. l1[r] \in Map
  BY DEF TypeOK, Map
<1>2. m[j] = e /\ \A i \in Keys : m[i] # None => i = j \/ m[i] = l1[r][i]
  BY <1>1, SetEffect
<1>3. \A q \in Replicas : l1'[q] = IF q = r THEN m ELSE l1[q]
  BY <1>0 DEF TypeOK
<1> QED
  BY <1>2, <1>3

LEMMA GetStepHeld ==
  ASSUME IInv, NEW g \in Getters, GetStep(g), NEW k \in Keys, NEW s \in Stores, HeldUnder(k, s)'
  PROVE  HeldUnder(k, s)
<1>0. /\ l1 \in [Replicas -> [Keys -> Entry \cup {None}]] /\ get \in [Getters -> Get]
      /\ Home[g] \in Replicas
  BY HomeAssumption DEF IInv, TypeOK
<1>1. UNCHANGED <<l2, store>>
  BY DEF GetStep, MissL1, AnswerL2, MissL2, FinishGet
<1>2. CASE s \in Storing' /\ store'[s].key = k
  BY <1>1, <1>2 DEF HeldUnder, Storing
<1>3. CASE l2'[k] # None /\ l2'[k].val = s
  BY <1>1, <1>3 DEF HeldUnder
<1>4. CASE \E q \in Replicas : l1'[q][k] # None /\ l1'[q][k].val = s
  <2>1. PICK q \in Replicas : l1'[q][k] # None /\ l1'[q][k].val = s
    BY <1>4
  <2>2. CASE l1' = l1
    BY <2>1, <2>2 DEF HeldUnder
  <2>3. CASE \E j \in Keys : MissL1(g, j)
    <3>1. PICK j \in Keys : l1' = [l1 EXCEPT ![Home[g]][j] = None]
      BY <2>3 DEF MissL1
    <3>2. l1'[q][k] = l1[q][k]
      BY <1>0, <2>1, <3>1
    <3> QED
      BY <2>1, <3>2 DEF HeldUnder
  <2>4. CASE FinishGet(g) /\ l1' # l1
    <3> DEFINE r == Home[g]
               j == get[g].key
               a == get[g].answer
               until == KeepUntil(r, j, a, get[g].at)
               e == [val |-> a.val, exp |-> until]
    <3>1. get[g].stage = "answered"
          /\ \E m \in SetL1Until(l1[r], j, e) : l1' = [l1 EXCEPT ![r] = m]
      BY <2>4 DEF FinishGet
    <3>2. j \in Keys /\ a \in Answer
      BY <3>1 DEF IInv, GetInv
    <3>3. e \in Entry /\ e.val = a.val
      <4>1. a.val \in Stores /\ a.ttl \in Nat /\ get[g].at \in Nat /\ TTL[r][j] \in Nat
        BY <1>0, <3>2, TTLAssumption DEF Answer, Get
      <4>2. until \in Nat
        BY <4>1 DEF KeepUntil
      <4> HIDE DEF until
      <4> QED
        BY <4>1, <4>2 DEF Entry
    <3>4. TypeOK /\ r \in Replicas
      BY <1>0 DEF IInv
    <3> HIDE DEF e, r, j, a
    <3>5. l1'[q][k] = l1[q][k] \/ (k = j /\ l1'[q][k] = e)
      <4>1. \A p \in Replicas, i \in Keys :
              l1'[p][i] # None => l1'[p][i] = l1[p][i] \/ (i = j /\ l1'[p][i] = e)
        BY <3>1, <3>2, <3>3, <3>4, SetL1Held
      <4> QED
        BY <2>1, <4>1
    <3>6. CASE l1'[q][k] = l1[q][k]
      BY <2>1, <3>6 DEF HeldUnder
    <3>7. CASE k = j /\ l1'[q][k] = e
      <4>1. get[g].key = k /\ get[g].answer.val = s
        BY <2>1, <3>3, <3>7 DEF a, j
      <4> QED
        BY <3>1, <4>1 DEF HeldUnder
    <3> QED
      BY <3>5, <3>6, <3>7
  <2> QED
    BY <2>2, <2>3, <2>4 DEF GetStep, AnswerL2, MissL2
<1>5. CASE \E h \in Getters : /\ get'[h].stage = "answered" /\ get'[h].key = k
                              /\ get'[h].answer.val = s
  <2>1. PICK h \in Getters : /\ get'[h].stage = "answered" /\ get'[h].key = k
                             /\ get'[h].answer.val = s
    BY <1>5
  <2>2. CASE get'[h] = get[h]
    BY <2>1, <2>2 DEF HeldUnder
  <2>3. CASE get'[h] # get[h]
    <3>1. h = g
      BY <1>0, <2>3 DEF GetStep, MissL1, AnswerL2, MissL2, FinishGet
    <3>2. AnswerL2(g)
      <4>1. ASSUME (\E j \in Keys : MissL1(g, j)) \/ MissL2(g) \/ FinishGet(g) PROVE FALSE
        <5>1. get'[g].stage # "answered"
          <6>1. CASE \E j \in Keys : MissL1(g, j)
            BY <1>0, <6>1 DEF MissL1
          <6>2. CASE MissL2(g) \/ FinishGet(g)
            <7>1. get'[g] = Idle
              BY <1>0, <6>2 DEF MissL2, FinishGet
            <7> QED
              BY <7>1 DEF Idle
          <6> QED
            BY <4>1, <6>1, <6>2
        <5> QED
          BY <2>1, <3>1, <5>1
      <4> QED
        BY <4>1 DEF GetStep
    <3>3. Alive(l2[get[g].key], now) /\ get'[g].key = get[g].key
          /\ get'[g].answer.val = l2[get[g].key].val
      BY <1>0, <3>2 DEF AnswerL2, Get
    <3> QED
      BY <2>1, <3>1, <3>3 DEF HeldUnder, Alive
  <2> QED
    BY <2>2, <2>3
<1> QED
  BY <1>2, <1>3, <1>4, <1>5 DEF HeldUnder

\* What a write under way does to store[s] and the rest, as far as the contract sees it.
LEMMA WriteStepHeld ==
  ASSUME IInv, NEW w \in Writers, WriteStep(w), NEW k \in Keys, NEW s \in Stores, HeldUnder(k, s)'
  PROVE  HeldUnder(k, s)
<1>0. store \in [Stores -> Store] /\ get' = get
  BY DEF IInv, TypeOK, WriteStep, WarmL1, ClaimEntry, TakeSlot, ApplyL2, EndWrite, EndContext
<1>1. \A t \in Storing' : t \in Storing /\ store'[t].key = store[t].key
  <2>1. ASSUME NEW t \in Stores,
               WarmL1(w, t) \/ ClaimEntry(w, t) \/ TakeSlot(w, t) \/ ApplyL2(w, t)
        PROVE  \A u \in Storing' : u \in Storing /\ store'[u].key = store[u].key
    <3>1. t \in Storing
      BY <2>1 DEF WarmL1, ClaimEntry, TakeSlot, ApplyL2, InState, Storing, Active
    <3>2. store'[t].key = store[t].key /\ \A u \in Stores \ {t} : store'[u] = store[u]
      BY <1>0, <2>1 DEF WarmL1, ClaimEntry, TakeSlot, ApplyL2, Store
    <3> QED
      BY <3>1, <3>2 DEF Storing
  <2>2. ASSUME NEW S, Forget(S)
        PROVE  \A u \in Storing' : u \in Storing /\ store'[u].key = store[u].key
    <3>1. \A u \in Stores : \/ store'[u] = store[u]
                            \/ store'[u].state = "done"
      BY <1>0, <2>2 DEF Forget, Store
    <3> QED
      BY <3>1 DEF Storing, Active
  <2>3. \/ \E t \in Stores : WarmL1(w, t) \/ ClaimEntry(w, t) \/ TakeSlot(w, t) \/ ApplyL2(w, t)
        \/ \E S : Forget(S)
    BY DEF WriteStep, EndWrite, EndContext
  <2> QED
    BY <2>1, <2>2, <2>3
<1>2. CASE s \in Storing' /\ store'[s].key = k
  BY <1>1, <1>2 DEF HeldUnder
<1>3. CASE l2'[k] # None /\ l2'[k].val = s
  <2>1. CASE l2' = l2
    BY <1>3, <2>1 DEF HeldUnder
  <2>2. ASSUME NEW t \in Stores, ApplyL2(w, t) PROVE HeldUnder(k, s)
    <3>1. t \in Storing /\ \E until : l2' = [l2 EXCEPT ![store[t].key] = [val |-> t, exp |-> until]]
      BY <2>2 DEF ApplyL2, InState, Storing, Active
    <3>2. l2'[k] = l2[k] \/ (k = store[t].key /\ l2'[k].val = t)
      BY <3>1 DEF IInv, TypeOK
    <3> QED
      BY <1>3, <3>1, <3>2 DEF HeldUnder
  <2> QED
    BY <2>1, <2>2 DEF WriteStep, WarmL1, ClaimEntry, TakeSlot, EndWrite, EndContext
<1>4. CASE \E q \in Replicas : l1'[q][k] # None /\ l1'[q][k].val = s
  <2>1. PICK q \in Replicas : l1'[q][k] # None /\ l1'[q][k].val = s
    BY <1>4
  <2>2. CASE l1' = l1
    BY <2>1, <2>2 DEF HeldUnder
  <2>3. ASSUME NEW t \in Stores, WarmL1(w, t) PROVE HeldUnder(k, s)
    <3> DEFINE r == Home[w]
               j == store[t].key
               until == now + TTL[r][j]
               e == [val |-> t, exp |-> until]
    <3>1. t \in Storing /\ by[t] = w
          /\ \E m \in SetL1Until(l1[r], j, e) : l1' = [l1 EXCEPT ![r] = m]
      BY <2>3 DEF WarmL1, InState, Storing, Active
    <3>2. r \in Replicas /\ j \in Keys
      BY <3>1, HomeAssumption DEF IInv, StoreInv, Storing
    <3>3. e \in Entry /\ e.val = t
      <4>1. until \in Nat
        BY <3>2, TTLAssumption DEF IInv, TypeOK
      <4> QED
        BY <4>1 DEF Entry
    <3>4. TypeOK
      BY DEF IInv
    <3>m. \E m \in SetL1Until(l1[r], j, e) : l1' = [l1 EXCEPT ![r] = m]
      BY <3>1
    <3> HIDE DEF e, r, j, until
    <3>5. l1'[q][k] = l1[q][k] \/ (k = j /\ l1'[q][k] = e)
      <4>1. \A p \in Replicas, i \in Keys :
              l1'[p][i] # None => l1'[p][i] = l1[p][i] \/ (i = j /\ l1'[p][i] = e)
        <5>1. PICK m \in SetL1Until(l1[r], j, e) : l1' = [l1 EXCEPT ![r] = m]
          BY <3>m
        <5>2. l1[r] \in Map
          BY <3>2, <3>4 DEF TypeOK, Map
        <5>3. m[j] = e /\ \A i \in Keys : m[i] # None => i = j \/ m[i] = l1[r][i]
          BY <3>2, <3>3, <5>2, SetEffect
        <5>4. \A p \in Replicas : l1'[p] = IF p = r THEN m ELSE l1[p]
          BY <3>4, <5>1 DEF TypeOK
        <5> QED
          BY <5>3, <5>4
      <4> QED
        BY <2>1, <4>1
    <3>6. CASE l1'[q][k] = l1[q][k]
      BY <2>1, <3>6 DEF HeldUnder
    <3>7. CASE k = j /\ l1'[q][k] = e
      BY <2>1, <3>1, <3>3, <3>7 DEF HeldUnder, j
    <3> QED
      BY <3>5, <3>6, <3>7
  <2> QED
    BY <2>2, <2>3 DEF WriteStep, ClaimEntry, TakeSlot, ApplyL2, EndWrite, EndContext
<1>5. CASE \E h \in Getters : /\ get'[h].stage = "answered" /\ get'[h].key = k
                              /\ get'[h].answer.val = s
  BY <1>0, <1>5 DEF HeldUnder
<1> QED
  BY <1>2, <1>3, <1>4, <1>5 DEF HeldUnder

\* A lookup changes nothing but copies.
LEMMA GetWorks ==
  ASSUME IInv, IInv', NEW g \in Getters, GetStep(g)
  PROVE  CC!Work
<1>1. now' = now /\ store' = store
  BY DEF GetStep, MissL1, AnswerL2, MissL2, FinishGet
<1>2. Held' \subseteq Held
  BY GetStepHeld, HeldShrinks DEF IInv
<1>3. (IInv => CC!Honest)'
  BY HonestHolds, PTL
<1> QED
  BY <1>1, <1>2, <1>3 DEF CC!Work, Storing

\* In a write, no value becomes fresh or stored again, and one at most gets a lifetime.
LEMMA WriteEffect ==
  ASSUME IInv, NEW w \in Writers, WriteStep(w)
  PROVE  /\ now' = now
         /\ \A u \in Stores : store'[u].state = "new" <=> store[u].state = "new"
         /\ Storing' \subseteq Storing
         /\ \/ \A u \in Stores : store'[u].dies = store[u].dies
            \/ /\ Storing' = Storing
               /\ \E s \in Storing : \A u \in Stores \ {s} : store'[u].dies = store[u].dies
<1>0. store \in [Stores -> Store]
  BY DEF IInv, TypeOK
<1>1. now' = now
  BY DEF WriteStep, WarmL1, ClaimEntry, TakeSlot, ApplyL2, EndWrite, EndContext
<1>2. ASSUME NEW t \in Stores,
             WarmL1(w, t) \/ ClaimEntry(w, t) \/ TakeSlot(w, t) \/ ApplyL2(w, t)
      PROVE  /\ \A u \in Stores \ {t} : store'[u] = store[u]
             /\ t \in Storing /\ store[t].state # "new" /\ store'[t].state # "new"
  <2>1. t \in Storing /\ store[t].state # "new"
    BY <1>2 DEF WarmL1, ClaimEntry, TakeSlot, ApplyL2, InState, Storing, Active
  <2>2. store'[t].state # "new" /\ \A u \in Stores \ {t} : store'[u] = store[u]
    BY <1>0, <1>2 DEF WarmL1, ClaimEntry, TakeSlot, ApplyL2, Store
  <2> QED
    BY <2>1, <2>2
<1>3. ASSUME NEW S, Forget(S), \A u \in S : u \in Stores => store[u].state # "new"
      PROVE  \A u \in Stores : /\ store'[u].dies = store[u].dies
                               /\ store'[u].state = store[u].state
                                  \/ (store[u].state # "new" /\ store'[u].state = "done")
  BY <1>0, <1>3 DEF Forget, Store
<1>4. \/ \E t \in Stores : WarmL1(w, t) \/ ClaimEntry(w, t) \/ TakeSlot(w, t) \/ ApplyL2(w, t)
      \/ \E t \in Stores : Forget({t}) /\ store[t].state # "new"
      \/ \E S \in SUBSET Stores : Forget(S) /\ \A u \in S : store[u].state # "new"
  <2>1. ASSUME NEW t \in Stores, EndWrite(w, t)
        PROVE  Forget({t}) /\ store[t].state # "new"
    BY <2>1 DEF EndWrite, InState
  <2>2. ASSUME EndContext(w)
        PROVE  \E S \in SUBSET Stores : Forget(S) /\ \A u \in S : store[u].state # "new"
    <3> DEFINE S == InState(w, {"queued", "waiting"})
    <3>1. Forget(S) /\ S \in SUBSET Stores /\ \A u \in S : store[u].state # "new"
      BY <2>2 DEF EndContext, InState
    <3> HIDE DEF S
    <3> QED
      BY <3>1
  <2> QED
    BY <2>1, <2>2, Zenon DEF WriteStep
<1>5. ASSUME NEW t \in Stores,
             WarmL1(w, t) \/ ClaimEntry(w, t) \/ TakeSlot(w, t) \/ ApplyL2(w, t)
      PROVE  store'[t].state \in Active
  BY <1>0, <1>5 DEF WarmL1, ClaimEntry, TakeSlot, ApplyL2, Store, Active
<1>6. CASE \E t \in Stores : WarmL1(w, t) \/ ClaimEntry(w, t) \/ TakeSlot(w, t) \/ ApplyL2(w, t)
  BY <1>1, <1>2, <1>5, <1>6 DEF Storing
<1>7. ASSUME NEW S \in SUBSET Stores, Forget(S), \A u \in S : store[u].state # "new"
      PROVE  /\ \A u \in Stores : store'[u].state = "new" <=> store[u].state = "new"
             /\ Storing' \subseteq Storing
             /\ \A u \in Stores : store'[u].dies = store[u].dies
  BY <1>3, <1>7 DEF Storing, Active
<1>8. ASSUME NEW t \in Stores, Forget({t}), store[t].state # "new"
      PROVE  \E S \in SUBSET Stores : Forget(S) /\ \A u \in S : store[u].state # "new"
  BY <1>8
<1> QED
  BY <1>1, <1>4, <1>6, <1>7, <1>8

LEMMA WriteWorks ==
  ASSUME IInv, IInv', NEW w \in Writers, WriteStep(w)
  PROVE  CC!Work \/ \E s \in Stores : CC!Prolong(s)
<1>1. Held' \subseteq Held
  BY WriteStepHeld, HeldShrinks DEF IInv
<1>2. (IInv => CC!Honest)'
  BY HonestHolds, PTL
<1>3. [Next]_vars
  BY DEF Next
<1>4. \A u \in Stores : /\ store[u].dies \in Nat /\ store'[u].dies \in Nat
                        /\ store[u].dies <= store'[u].dies
  BY <1>3, LivesGrow DEF IInv, TypeOK, Store
<1> DEFINE fresh == {s \in Stores : store[s].state = "new"}
           ends == [s \in Stores |-> store[s].dies]
<1>5. fresh' = fresh /\ now' = now /\ Storing' \subseteq Storing
  BY WriteEffect
<1>6. CASE \A u \in Stores : store'[u].dies = store[u].dies
  <2>1. ends' = ends
    BY <1>6
  <2> QED
    BY <1>1, <1>2, <1>5, <2>1 DEF CC!Work
<1>7. ASSUME NEW s \in Storing, \A u \in Stores \ {s} : store'[u].dies = store[u].dies,
             Storing' = Storing
      PROVE  CC!Prolong(s)
  <2>1. s \in Stores
    BY DEF Storing
  <2>2. ends[s] <= ends'[s] /\ \A u \in Stores \ {s} : ends'[u] = ends[u]
    BY <1>4, <1>7, <2>1
  <2> HIDE DEF ends, fresh
  <2> QED
    BY <1>1, <1>2, <1>5, <1>7, <2>2 DEF CC!Prolong, ends, fresh
<1> QED
  BY <1>6, <1>7, WriteEffect

\* The entries of a batch are held from its start, each under its key, and not found yet.
LEMMA BatchPuts ==
  ASSUME IInv, IInv', NEW w \in Writers, NEW S \in Batches, NEW f \in Distinct(S),
         StartBatch(w, S, f)
  PROVE  S \in SUBSET Stores /\ CC!Put(S)
<1> DEFINE fresh == {s \in Stores : store[s].state = "new"}
           ends == [s \in Stores |-> store[s].dies]
<1>0. store \in [Stores -> Store]
  BY DEF IInv, TypeOK
<1>1. S \subseteq fresh /\ f \in [S -> Keys]
  BY DEF Batches, Distinct
<1>2. UNCHANGED <<now, l1, l2, get>>
  BY DEF StartBatch
<1>3. \A s \in Stores \ S : store'[s] = store[s]
  BY DEF StartBatch
<1>4. \A s \in S : /\ s \in Stores /\ store[s].state = "new" /\ store[s].dies = 0
                   /\ store'[s].state = "warm" /\ store'[s].dies = 0 /\ store'[s].key = f[s]
  <2>1. \A s \in S : s \in Stores /\ store[s].state = "new" /\ store[s].dies = 0
    BY <1>1 DEF IInv, StoreInv
  <2>2. \A s \in S : store'[s] = [Unused EXCEPT !.state = "warm", !.key = f[s]]
    BY <2>1 DEF StartBatch
  <2> QED
    BY <2>1, <2>2 DEF Unused
<1>5. ends' = ends
  BY <1>3, <1>4
<1>6. fresh' = fresh \ S
  BY <1>3, <1>4
<1>7. Storing' = Storing \cup S
  BY <1>3, <1>4 DEF Storing, Active
<1>8. ASSUME NEW k \in Keys, NEW s \in Stores
      PROVE  HeldUnder(k, s)' <=> HeldUnder(k, s) \/ (s \in S /\ f[s] = k)
  <2>1. s \in Storing' /\ store'[s].key = k
          <=> (s \in Storing /\ store[s].key = k) \/ (s \in S /\ f[s] = k)
    BY <1>3, <1>4 DEF Storing, Active
  <2> QED
    BY <1>2, <2>1 DEF HeldUnder
<1>9. HeldMeaning /\ HeldMeaning'
  <2>1. (TypeOK /\ StoreInv /\ GetInv => HeldMeaning)'
    BY HeldMeans, PTL
  <2> QED
    BY <2>1, HeldMeans DEF IInv
<1>10. Held' = Held \cup {<<f[s], s>> : s \in S}
  <2> DEFINE New == {<<f[s], s>> : s \in S}
  <2>1. New \subseteq Keys \X Stores
    BY <1>1
  <2>2. \A k \in Keys, s \in Stores : <<k, s>> \in New <=> s \in S /\ f[s] = k
    OBVIOUS
  <2> HIDE DEF New
  <2>3. \A k \in Keys, s \in Stores : <<k, s>> \in Held' <=> <<k, s>> \in Held \/ <<k, s>> \in New
    BY <1>8, <1>9, <2>2 DEF HeldMeaning
  <2>4. Held \subseteq Keys \X Stores /\ Held' \subseteq Keys \X Stores
    BY <1>9 DEF HeldMeaning
  <2>5. Held' = Held \cup New
    BY <2>1, <2>3, <2>4
  <2> QED
    BY <2>5 DEF New
<1>11. Found' = Found
  BY <1>2 DEF Found, Cached, Alive
<1> HIDE DEF fresh, ends
<1>12. \E key \in [S -> Keys] : Held' = Held \cup {<<key[s], s>> : s \in S}
  BY <1>1, <1>10
<1> QED
  BY <1>1, <1>2, <1>5, <1>6, <1>7, <1>11, <1>12 DEF CC!Put, fresh, ends

\* Every step is one that the contract allows.
LEMMA ContractStep == IInv /\ IInv' /\ [Next]_vars => [CC!Next]_CC!vars
<1> SUFFICES ASSUME IInv, IInv', [Next]_vars PROVE [CC!Next]_CC!vars
  OBVIOUS
<1>1. CASE Tick
  <2>1. now' = now + 1 /\ UNCHANGED <<l1, l2, get, store>>
    BY <1>1 DEF Tick
  <2>2. Storing' = Storing /\ Held' = Held
    BY <2>1 DEF Storing, Held, Cached
  <2>3. (IInv => CC!Honest)'
    BY HonestHolds, PTL
  <2>4. CC!Pass
    BY <2>1, <2>2, <2>3 DEF CC!Pass
  <2> QED
    BY <2>4 DEF CC!Next
<1>2. CASE \E g \in Getters : GetStep(g)
  BY <1>2, GetWorks DEF CC!Next
<1>3. CASE \E w \in Writers : WriteStep(w)
  BY <1>3, WriteWorks DEF CC!Next
<1>4. CASE \E w \in Writers : \E S \in Batches : \E f \in Distinct(S) : StartBatch(w, S, f)
  BY <1>4, BatchPuts DEF CC!Next
<1>5. CASE UNCHANGED vars
  <2>1. UNCHANGED <<now, l1, l2, get, store>>
    BY <1>5 DEF vars
  <2>2. Storing' = Storing /\ Held' = Held /\ Found' = Found
    BY <2>1 DEF Storing, Held, Found, Cached, Alive
  <2> QED
    BY <2>1, <2>2 DEF CC!vars
<1> QED
  BY <1>1, <1>2, <1>3, <1>4, <1>5 DEF Next

LEMMA ContractInit == Init => CC!Init
<1> SUFFICES ASSUME Init PROVE CC!Init
  OBVIOUS
<1>1. now = 0 /\ {s \in Stores : store[s].state = "new"} = Stores
      /\ [s \in Stores |-> store[s].dies] = [s \in Stores |-> 0]
  BY DEF Init, Unused
<1>2. Storing = {}
  BY DEF Init, Unused, Storing, Active
<1>3. \A g \in Getters : get[g].stage # "answered"
  BY DEF Init, Idle
<1>4. \A r \in Replicas : Cached(r) = {}
  BY DEF Init, Cached
<1>5. l2 = [k \in Keys |-> None]
  BY DEF Init
<1>6. Held = {}
  BY <1>2, <1>3, <1>4, <1>5 DEF Held
<1>7. Found = {}
  BY <1>4, <1>5 DEF Found, Alive, Cached
<1> QED
  BY <1>1, <1>2, <1>6, <1>7 DEF CC!Init

(* The tiers of all replicas, with the lookups and the writes under way,    *)
(* keep the promise of CacheContract: what Get returns is found under the   *)
(* key and within the lifetime it was stored with, and what all of them     *)
(* have lost never comes back (Get, SetBatch).                             *)
THEOREM ContractKept == Spec => KeepsTheContract
<1>1. Init => CC!Init
  BY ContractInit
<1>2. IInv /\ IInv' /\ [Next]_vars => [CC!Next]_CC!vars
  BY ContractStep
<1> QED
  BY <1>1, <1>2, TiersCorrect, PTL DEF Spec, CC!Spec, KeepsTheContract
===============================================================================
