-------------------------- MODULE MutationFenceProofs --------------------------
(***************************************************************************)
(* Proofs about MutationFence for any number of mutations, requests and    *)
(* failed calls of the version store.                                      *)
(***************************************************************************)
EXTENDS MutationFence, FiniteSetTheorems, TLAPS

Version == GetVersion(started)
Closed == GetVersion(completed)
Flights == Cardinality(InFlight)

(***************************************************************************)
(* Every mutation in flight is missing from the completed count; refused   *)
(* and ambiguous bumps only widen the gap.                                 *)
(***************************************************************************)
FenceInv ==
  /\ \A m \in Mutators : mpc[m] # "idle" => started # 0
  /\ \A m \in Mutators : mpc[m] \in {"initialized", "open", "closing"} => completed # 0
  /\ Closed + Flights <= Version

RequestInv ==
  \A r \in Requests :
    /\ floor[r] <= index
    /\ rpc[r] # "idle" => seen[r].started <= Version
    /\ rpc[r] \in {"compared"} => seen[r].completed <= Closed
    /\ rpc[r] \in {"enabled", "queried", "hit"} => seen[r].started <= Closed

\* Content d may be kept under version s: it is current, or nobody who will
\* look there has seen anything newer.
Vouched(s, d) ==
  /\ s <= Closed
  /\ Version = s => index <= d
  /\ \A r \in Requests : rpc[r] # "idle" /\ seen[r].started = s => floor[r] <= d

CacheInv == \A e \in cache : Vouched(e.version, e.data)

AnswerInv == \A r \in Requests : rpc[r] = "queried" => Vouched(seen[r].started, answer[r])

Fresh == \A r \in Requests : rpc[r] = "hit" => floor[r] <= answer[r]

\* A commit that lands after its fence closed breaks what is vouched for, and
\* nothing else.
IInv ==
  /\ TypeOK
  /\ FenceInv
  /\ RequestInv
  /\ InTime => CacheInv /\ AnswerInv /\ Fresh

-------------------------------------------------------------------------------
\* Every action keeps the variables in their types.
LEMMA TypeStep == TypeOK /\ [Next]_vars => TypeOK'
<1> SUFFICES ASSUME TypeOK, [Next]_vars PROVE TypeOK'
  OBVIOUS
<1> USE FenceAssumption DEF TypeOK, At, Stages, LateStages, RequestStages, fenceVars, requestVars
<1>1. ASSUME NEW m \in Mutators, MutatorStep(m) PROVE TypeOK'
  BY <1>1 DEF MutatorStep, PrepareStarted, PrepareCompleted, OpenFence, Operate,
              FailOperation, CloseFence, GetVersion, BumpVersion
<1>2. ASSUME NEW m \in Mutators, MutatorFault(m) PROVE TypeOK'
  BY <1>2 DEF MutatorFault, RefuseMutation, FailCompletion, LoseOperation,
              CrashMutator, Fault, BumpVersion
<1>3. ASSUME NEW m \in Mutators, CommitLate(m) PROVE TypeOK'
  BY <1>3 DEF CommitLate
<1>4. ASSUME NEW r \in Requests, RequestStep(r) PROVE TypeOK'
  <2>1. CASE BeginRequest(r)
    BY <2>1 DEF BeginRequest, GetVersion
  <2>5. CASE ReadCompleted(r)
    BY <2>5 DEF ReadCompleted, GetVersion
  <2>2. CASE EnableCache(r) \/ Query(r) \/ EndRequest(r)
    BY <2>2 DEF EnableCache, Query, EndRequest
  <2>3. CASE Store(r)
    BY <2>3 DEF Store, Entry
  <2>4. ASSUME NEW e \in cache, Lookup(r, e) PROVE TypeOK'
    BY <2>4 DEF Lookup, Entry
  <2> QED
    BY <1>4, <2>1, <2>2, <2>3, <2>4, <2>5 DEF RequestStep
<1>5. CASE UNCHANGED vars
  BY <1>5 DEF vars
<1> QED
  BY <1>1, <1>2, <1>3, <1>4, <1>5 DEF Next

\* How the number of mutations in flight changes when one mutator moves on.
LEMMA FlightStep ==
  ASSUME TypeOK, NEW m \in Mutators, mpc' = [mpc EXCEPT ![m] = mpc'[m]]
  PROVE  /\ mpc[m] \in {"open", "closing"} => Flights # 0
         /\ mpc'[m] \in {"open", "closing"} =>
              Flights' = IF mpc[m] \in {"open", "closing"} THEN Flights ELSE Flights + 1
         /\ mpc'[m] \notin {"open", "closing"} =>
              Flights' = IF mpc[m] \in {"open", "closing"} THEN Flights - 1 ELSE Flights
<1>1. IsFiniteSet(InFlight) /\ Flights \in Nat
  BY FenceAssumption, FS_Subset, FS_CardinalityType DEF InFlight, Flights
<1>2. InFlight' = IF mpc'[m] \in {"open", "closing"} THEN InFlight \cup {m} ELSE InFlight \ {m}
  BY DEF TypeOK, InFlight
<1>3. m \in InFlight <=> mpc[m] \in {"open", "closing"}
  BY DEF InFlight
<1>4. /\ Cardinality(InFlight \cup {m}) = IF m \in InFlight THEN Flights ELSE Flights + 1
      /\ Cardinality(InFlight \ {m}) = IF m \in InFlight THEN Flights - 1 ELSE Flights
  BY <1>1, FS_AddElement, FS_RemoveElement DEF Flights
<1>5. m \in InFlight => Flights # 0
  BY <1>1, FS_EmptySet DEF Flights
<1> QED
  BY <1>2, <1>3, <1>4, <1>5 DEF Flights

\* The counters only grow, the mutations in flight stay accounted for, and
\* the index changes only while the fence is open, unless a commit is late.
Progress ==
  /\ Version <= Version' /\ Closed <= Closed'
  /\ index <= index'
  /\ InTime /\ index' # index => Closed < Version /\ Version' = Version

LEMMA FenceStep ==
  ASSUME TypeOK, FenceInv, [Next]_vars
  PROVE  FenceInv' /\ Progress
<1> USE DEF Version, Closed, GetVersion, BumpVersion, Progress, FenceInv
<1>a. /\ started \in Nat /\ completed \in Nat /\ index \in Nat
      /\ mpc \in [Mutators -> Stages]
  BY DEF TypeOK
<1>b. Flights \in Nat
  BY FenceAssumption, FS_Subset, FS_CardinalityType DEF InFlight, Flights
<1>1. ASSUME NEW m \in Mutators, MutatorStep(m) PROVE FenceInv' /\ Progress
  <2> USE <1>a, <1>b DEF At, fenceVars
  <2>1. CASE PrepareStarted(m)
    <3>1. mpc[m] = "idle" /\ mpc' = [mpc EXCEPT ![m] = "prepared"] /\ mpc'[m] = "prepared"
      BY <2>1 DEF PrepareStarted
    <3>2. Flights' = Flights
      BY <3>1, FlightStep
    <3>3. Progress /\ Version' = Version /\ started' # 0 /\ completed' = completed
      BY <2>1 DEF PrepareStarted
    <3> QED
      BY <3>1, <3>2, <3>3
  <2>2. CASE PrepareCompleted(m)
    <3>1. mpc[m] = "prepared" /\ mpc' = [mpc EXCEPT ![m] = "initialized"] /\ mpc'[m] = "initialized"
      BY <2>2 DEF PrepareCompleted
    <3>2. Flights' = Flights
      BY <3>1, FlightStep
    <3>3. Progress /\ Closed' = Closed /\ completed' # 0 /\ started' = started
      BY <2>2 DEF PrepareCompleted
    <3> QED
      BY <3>1, <3>2, <3>3
  <2>3. CASE OpenFence(m)
    <3>1. mpc[m] = "initialized" /\ mpc' = [mpc EXCEPT ![m] = "open"] /\ mpc'[m] = "open"
      BY <2>3 DEF OpenFence
    <3>2. Flights' = Flights + 1
      BY <3>1, FlightStep
    <3>3. Progress /\ Version' = Version + 1 /\ started' # 0 /\ completed' = completed
      BY <3>1, <2>3 DEF OpenFence
    <3> QED
      BY <3>1, <3>2, <3>3
  <2>4. CASE Operate(m) \/ FailOperation(m)
    <3>1. mpc[m] = "open" /\ mpc' = [mpc EXCEPT ![m] = "closing"] /\ mpc'[m] = "closing"
      BY <2>4 DEF Operate, FailOperation
    <3>2. Flights' = Flights /\ Flights # 0
      BY <3>1, FlightStep
    <3>3. started' = started /\ completed' = completed /\ index' \in {index, index + 1}
      BY <2>4 DEF Operate, FailOperation
    <3>4. Closed < Version
      BY <3>2
    <3> QED
      BY <3>1, <3>2, <3>3, <3>4
  <2>5. CASE CloseFence(m)
    <3>1. mpc[m] = "closing" /\ mpc' = [mpc EXCEPT ![m] = "idle"] /\ mpc'[m] = "idle"
      BY <2>5 DEF CloseFence
    <3>2. Flights' = Flights - 1
      BY <3>1, FlightStep
    <3>3. Progress /\ Closed' = Closed + 1 /\ started' = started /\ completed' # 0
      BY <3>1, <2>5 DEF CloseFence
    <3> QED
      BY <3>1, <3>2, <3>3
  <2> QED
    BY <1>1, <2>1, <2>2, <2>3, <2>4, <2>5 DEF MutatorStep
<1>2. ASSUME NEW m \in Mutators, MutatorFault(m) PROVE FenceInv' /\ Progress
  <2> USE <1>a, <1>b DEF At, fenceVars
  <2>1. ASSUME NEW applied \in BOOLEAN, RefuseMutation(m, applied) PROVE FenceInv' /\ Progress
    <3>1. /\ mpc[m] \in {"prepared", "initialized"}
          /\ mpc' = [mpc EXCEPT ![m] = "idle"] /\ mpc'[m] = "idle"
      BY <2>1 DEF RefuseMutation
    <3>2. Flights' = Flights
      BY <3>1, FlightStep
    <3>3. started # 0 /\ started' \in {started, started + 1} /\ completed' = completed /\ index' = index
      BY <3>1, <2>1 DEF RefuseMutation
    <3>4. Closed' + Flights' <= Version'
      BY <3>2, <3>3
    <3>5. \A n \in Mutators : mpc'[n] # "idle" => mpc'[n] = mpc[n]
      BY <3>1
    <3>6. Progress /\ started' # 0
      BY <3>3
    <3> QED
      BY <3>3, <3>4, <3>5, <3>6
  <2>2. ASSUME NEW applied \in BOOLEAN, FailCompletion(m, applied) PROVE FenceInv' /\ Progress
    <3>1. mpc[m] = "closing" /\ mpc' = [mpc EXCEPT ![m] = "idle"] /\ mpc'[m] = "idle"
      BY <2>2 DEF FailCompletion
    <3>2. Flights' = Flights - 1
      BY <3>1, FlightStep
    <3>3. completed # 0 /\ completed' \in {completed, completed + 1} /\ started' = started /\ index' = index
      BY <3>1, <2>2 DEF FailCompletion
    <3>4. Closed' + Flights' <= Version'
      <4>1. Version' = Version /\ Closed' \in {Closed, Closed + 1}
        BY <3>3
      <4>2. Version \in Nat /\ Closed \in Nat /\ Closed + Flights <= Version
        OBVIOUS
      <4> HIDE <1>a DEF Version, Closed, FenceInv, Progress
      <4>3. Closed' \in Nat /\ Flights' \in Int
        BY <1>b, <3>2, <4>1, <4>2
      <4>4. CASE Closed' = Closed
        BY <1>b, <3>2, <4>1, <4>2, <4>3, <4>4
      <4>5. CASE Closed' = Closed + 1
        BY <1>b, <3>2, <4>1, <4>2, <4>3, <4>5
      <4> QED
        BY <4>1, <4>4, <4>5
    <3>5. \A n \in Mutators : mpc'[n] # "idle" => mpc'[n] = mpc[n]
      BY <3>1
    <3>6. Progress /\ (started # 0 => started' # 0) /\ (completed # 0 => completed' # 0)
      BY <3>3
    <3> QED
      BY <3>4, <3>5, <3>6
  <2>3. CASE CrashMutator(m)
    <3>1. mpc' = [mpc EXCEPT ![m] = "idle"] /\ mpc'[m] = "idle"
      BY <2>3 DEF CrashMutator
    <3>2. Flights' \in {Flights, Flights - 1}
      BY <3>1, FlightStep
    <3>3. completed' = completed /\ started' = started /\ index' = index
      BY <2>3 DEF CrashMutator
    <3>4. Closed' + Flights' <= Version'
      <4>1. Version' = Version /\ Closed' = Closed
        BY <3>3
      <4>2. Version \in Nat /\ Closed \in Nat /\ Closed + Flights <= Version
        OBVIOUS
      <4> HIDE <1>a DEF Version, Closed, FenceInv, Progress
      <4>3. Closed' \in Nat /\ Flights' \in Int
        BY <1>b, <3>2, <4>1, <4>2
      <4>4. CASE Flights' = Flights
        BY <1>b, <4>1, <4>2, <4>4
      <4>5. CASE Flights' = Flights - 1
        BY <1>b, <4>1, <4>2, <4>5
      <4> QED
        BY <3>2, <4>4, <4>5
    <3>5. \A n \in Mutators : mpc'[n] # "idle" => mpc'[n] = mpc[n]
      BY <3>1
    <3>6. Progress /\ (started # 0 => started' # 0) /\ (completed # 0 => completed' # 0)
      BY <3>3
    <3> QED
      BY <3>4, <3>5, <3>6
  <2>4. CASE LoseOperation(m)
    <3>1. mpc[m] = "open" /\ mpc' = [mpc EXCEPT ![m] = "closing"] /\ mpc'[m] = "closing"
      BY <2>4 DEF LoseOperation
    <3>2. Flights' = Flights
      BY <3>1, FlightStep
    <3>3. started' = started /\ completed' = completed /\ index' = index
      BY <2>4 DEF LoseOperation
    <3> QED
      BY <3>1, <3>2, <3>3
  <2> QED
    BY <1>2, <2>1, <2>2, <2>3, <2>4 DEF MutatorFault
<1>3. ASSUME NEW r \in Requests, RequestStep(r) PROVE FenceInv' /\ Progress
  <2>1. /\ mpc' = mpc /\ index' = index
        /\ started' \in {started, GetVersion(started)}
        /\ completed' \in {completed, GetVersion(completed)}
    BY <1>3 DEF RequestStep, BeginRequest, ReadCompleted, EnableCache, Lookup, Query, Store,
                EndRequest, fenceVars
  <2>2. Flights' = Flights
    BY <2>1 DEF InFlight, Flights
  <2>3. Version' = Version /\ Closed' = Closed
    BY <1>a, <2>1
  <2>4. (started # 0 => started' # 0) /\ (completed # 0 => completed' # 0)
    BY <1>a, <2>1
  <2> QED
    BY <1>a, <2>1, <2>2, <2>3, <2>4
<1>4. CASE UNCHANGED vars
  <2>1. Flights' = Flights
    BY <1>4 DEF vars, InFlight, Flights
  <2> QED
    BY <2>1, <1>4, <1>a, <1>b DEF vars, fenceVars
<1>5. ASSUME NEW m \in Mutators, CommitLate(m) PROVE FenceInv' /\ Progress
  <2>1. /\ started' = started /\ completed' = completed /\ mpc' = mpc
        /\ index' = index + 1 /\ ~InTime
    BY <1>5 DEF CommitLate, At, fenceVars, InTime
  <2>2. Flights' = Flights
    BY <2>1 DEF InFlight, Flights
  <2> QED
    BY <1>a, <1>b, <2>1, <2>2
<1> QED
  BY <1>1, <1>2, <1>3, <1>4, <1>5 DEF Next

\* What requests know of the counters and of the index stays true.
LEMMA RequestInvStep ==
  ASSUME TypeOK, TypeOK', RequestInv, Progress, [Next]_vars
  PROVE  RequestInv'
<1>1. /\ Version \in Nat /\ Closed \in Nat /\ Version' \in Nat /\ Closed' \in Nat
      /\ index \in Nat /\ index' \in Nat
      /\ Version <= Version' /\ Closed <= Closed' /\ index <= index'
      /\ \A r \in Requests : /\ seen[r].started \in Nat /\ seen[r].completed \in Nat
                              /\ floor[r] \in Nat
  BY DEF TypeOK, Version, Closed, GetVersion, Progress
<1> DEFINE Knows(r) ==
      /\ floor[r] <= index
      /\ rpc[r] # "idle" => seen[r].started <= Version
      /\ rpc[r] \in {"compared"} => seen[r].completed <= Closed
      /\ rpc[r] \in {"enabled", "queried", "hit"} => seen[r].started <= Closed
<1>2. SUFFICES ASSUME NEW r \in Requests PROVE Knows(r)'
  BY DEF RequestInv
<1>3. Knows(r)
  BY DEF RequestInv
<1> HIDE DEF Version, Closed
<1>4. CASE seen'[r] = seen[r] /\ floor'[r] = floor[r] /\ rpc'[r] = rpc[r]
  BY <1>1, <1>3, <1>4
<1>5. CASE RequestStep(r)
  <2> USE DEF TypeOK, At
  <2>1. CASE BeginRequest(r)
    <3>1. seen'[r].started = Version /\ floor'[r] = index /\ rpc'[r] = "started" /\ index' = index
      BY <2>1 DEF BeginRequest, Version
    <3> QED
      BY <1>1, <3>1
  <2>2. CASE ReadCompleted(r)
    <3>1. /\ seen'[r].started = seen[r].started /\ seen'[r].completed = Closed
          /\ rpc[r] = "started" /\ rpc'[r] = "compared" /\ floor'[r] = floor[r]
      BY <2>2 DEF ReadCompleted, Closed
    <3> QED
      BY <1>1, <1>3, <3>1
  <2>3. CASE EnableCache(r)
    <3>1. /\ seen'[r] = seen[r] /\ floor'[r] = floor[r] /\ rpc'[r] = "enabled"
          /\ rpc[r] = "compared" /\ seen[r].started = seen[r].completed
      BY <2>3 DEF EnableCache, Stable
    <3> QED
      BY <1>1, <1>3, <3>1
  <2>4. CASE Query(r) \/ Store(r) \/ EndRequest(r) \/ \E e \in cache : Lookup(r, e)
    <3>1. /\ seen'[r] = seen[r] /\ floor'[r] = floor[r]
          /\ \/ rpc'[r] = "idle"
             \/ rpc[r] = "enabled" /\ rpc'[r] \in {"queried", "hit"}
      BY <2>4 DEF Query, Store, EndRequest, Lookup
    <3> QED
      BY <1>1, <1>3, <3>1
  <2> QED
    BY <1>5, <2>1, <2>2, <2>3, <2>4 DEF RequestStep
<1>6. ASSUME NEW m \in Mutators, MutatorStep(m) \/ MutatorFault(m) \/ CommitLate(m)
      PROVE  UNCHANGED requestVars
  BY <1>6 DEF requestVars, MutatorStep, PrepareStarted, PrepareCompleted, OpenFence, Operate,
              FailOperation, LoseOperation, CloseFence, MutatorFault, RefuseMutation,
              FailCompletion, CrashMutator, CommitLate
<1>7. ASSUME NEW q \in Requests \ {r}, RequestStep(q)
      PROVE  seen'[r] = seen[r] /\ floor'[r] = floor[r] /\ rpc'[r] = rpc[r]
  BY <1>7 DEF TypeOK, At, RequestStep, BeginRequest, ReadCompleted, EnableCache, Lookup, Query,
              Store, EndRequest
<1> QED
  BY <1>4, <1>5, <1>6, <1>7 DEF Next, vars, requestVars

-------------------------------------------------------------------------------
\* What is vouched for stays so: while the fence is closed the index stands
\* still, and once it has opened nobody new looks under the old version.
LEMMA VouchedLater ==
  ASSUME IInv, InTime, Progress, TypeOK', NEW s \in Nat, NEW d \in Nat, Vouched(s, d),
         \A r \in Requests :
           rpc'[r] # "idle" =>
             \/ rpc[r] # "idle" /\ seen'[r].started = seen[r].started /\ floor'[r] = floor[r]
             \/ seen'[r].started = Version /\ floor'[r] = index
  PROVE  Vouched(s, d)'
<1>1. /\ Version \in Nat /\ Closed \in Nat /\ Version' \in Nat /\ Closed' \in Nat
      /\ index \in Nat /\ index' \in Nat
  BY DEF IInv, TypeOK, Version, Closed, GetVersion
<1>2. Closed <= Version
  <2>1. Flights \in Nat
    BY FenceAssumption, FS_Subset, FS_CardinalityType DEF InFlight, Flights
  <2> QED
    BY <1>1, <2>1 DEF IInv, FenceInv
<1>3. s <= Closed'
  BY <1>1 DEF Vouched, Progress
<1>4. Version' = s => index' <= d
  BY <1>1, <1>2 DEF Vouched, Progress
<1>5. ASSUME NEW r \in Requests, rpc'[r] # "idle", seen'[r].started = s PROVE floor'[r] <= d
  BY <1>5 DEF Vouched
<1> QED
  BY <1>3, <1>4, <1>5 DEF Vouched, Version, Closed

\* The invariant of requests and cache under a step that is not a request's.
LEMMA OthersStep ==
  ASSUME IInv, InTime, TypeOK', Progress, UNCHANGED requestVars
  PROVE  CacheInv' /\ AnswerInv' /\ Fresh'
<1> USE DEF requestVars
<1>1. /\ Version \in Nat /\ Closed \in Nat /\ Version' \in Nat /\ Closed' \in Nat
      /\ index \in Nat /\ index' \in Nat
      /\ \A r \in Requests : /\ seen[r].started \in Nat /\ seen[r].completed \in Nat
                              /\ floor[r] \in Nat /\ answer[r] \in Nat
      /\ \A e \in cache : e.version \in Nat /\ e.data \in Nat
  BY DEF IInv, TypeOK, Entry, Version, Closed, GetVersion
<1>3. CacheInv'
  BY <1>1, VouchedLater DEF IInv, CacheInv
<1>4. AnswerInv'
  BY <1>1, VouchedLater DEF IInv, AnswerInv
<1>5. Fresh'
  BY DEF IInv, Fresh
<1> QED
  BY <1>3, <1>4, <1>5

\* The invariant of requests and cache under the steps of a request.
LEMMA RequestsStep ==
  ASSUME IInv, InTime, TypeOK', Progress, NEW r \in Requests, RequestStep(r)
  PROVE  CacheInv' /\ AnswerInv' /\ Fresh'
<1>a. /\ Version \in Nat /\ Closed \in Nat /\ Version' = Version /\ Closed' = Closed
      /\ index \in Nat /\ index' = index
      /\ \A q \in Requests : /\ seen[q].started \in Nat /\ seen[q].completed \in Nat
                              /\ floor[q] \in Nat /\ answer[q] \in Nat
      /\ \A e \in cache : e.version \in Nat /\ e.data \in Nat
  <2>1. /\ index' = index
        /\ started' \in {started, GetVersion(started)}
        /\ completed' \in {completed, GetVersion(completed)}
    BY DEF RequestStep, BeginRequest, ReadCompleted, EnableCache, Lookup, Query, Store,
           EndRequest, fenceVars
  <2> QED
    BY <2>1 DEF IInv, TypeOK, Entry, Version, Closed, GetVersion
<1>b. /\ rpc \in [Requests -> RequestStages]
      /\ seen \in [Requests -> [started : Nat, completed : Nat]]
      /\ floor \in [Requests -> Nat] /\ answer \in [Requests -> Nat]
      /\ RequestInv /\ CacheInv /\ AnswerInv /\ Fresh
  BY DEF IInv, TypeOK
<1> USE <1>a DEF At
\* When nobody begins, what is vouched for stays so.
<1>c. ASSUME floor' = floor, seen' = seen, \A q \in Requests : rpc'[q] # "idle" => rpc[q] # "idle",
             NEW s \in Nat, NEW d \in Nat, Vouched(s, d)
      PROVE  Vouched(s, d)'
  BY <1>c, VouchedLater
<1>1. CASE BeginRequest(r)
  <2>1. /\ rpc[r] = "idle" /\ rpc' = [rpc EXCEPT ![r] = "started"]
        /\ seen' = [seen EXCEPT ![r].started = Version]
        /\ floor' = [floor EXCEPT ![r] = index]
        /\ answer' = answer /\ cache' = cache
    BY <1>1 DEF BeginRequest, Version
  <2>2. /\ seen'[r].started = Version /\ floor'[r] = index /\ rpc'[r] = "started"
        /\ \A q \in Requests \ {r} : seen'[q] = seen[q] /\ floor'[q] = floor[q] /\ rpc'[q] = rpc[q]
    BY <1>b, <2>1
  <2>3. ASSUME NEW s \in Nat, NEW d \in Nat, Vouched(s, d) PROVE Vouched(s, d)'
    BY <2>2, <2>3, VouchedLater
  <2>5. CacheInv'
    BY <1>b, <2>1, <2>3 DEF CacheInv
  <2>6. AnswerInv'
    BY <1>b, <2>1, <2>2, <2>3 DEF AnswerInv
  <2>7. Fresh'
    BY <1>b, <2>1, <2>2 DEF Fresh
  <2> QED
    BY <2>5, <2>6, <2>7
<1>2. CASE ReadCompleted(r)
  <2>1. /\ rpc[r] = "started" /\ rpc' = [rpc EXCEPT ![r] = "compared"]
        /\ seen' = [seen EXCEPT ![r].completed = Closed]
        /\ floor' = floor /\ answer' = answer /\ cache' = cache
    BY <1>2 DEF ReadCompleted, Closed
  <2>2. /\ seen'[r].started = seen[r].started /\ seen'[r].completed = Closed /\ rpc'[r] = "compared"
        /\ \A q \in Requests \ {r} : seen'[q] = seen[q] /\ rpc'[q] = rpc[q]
    BY <1>b, <2>1
  <2>3. ASSUME NEW s \in Nat, NEW d \in Nat, Vouched(s, d) PROVE Vouched(s, d)'
    BY <2>1, <2>2, <2>3, VouchedLater
  <2>5. CacheInv'
    BY <1>b, <2>1, <2>3 DEF CacheInv
  <2>6. AnswerInv'
    BY <1>b, <2>1, <2>2, <2>3 DEF AnswerInv
  <2>7. Fresh'
    BY <1>b, <2>1, <2>2 DEF Fresh
  <2> QED
    BY <2>5, <2>6, <2>7
<1>3. CASE EnableCache(r)
  <2>1. /\ rpc[r] = "compared" /\ rpc' = [rpc EXCEPT ![r] = "enabled"]
        /\ seen[r].started = seen[r].completed
        /\ seen' = seen /\ floor' = floor /\ answer' = answer /\ cache' = cache
    BY <1>3 DEF EnableCache, Stable
  <2>2. rpc'[r] = "enabled" /\ \A q \in Requests \ {r} : rpc'[q] = rpc[q]
    BY <1>b, <2>1
  <2>4. CacheInv'
    BY <1>b, <1>c, <2>1, <2>2 DEF CacheInv
  <2>5. AnswerInv'
    BY <1>b, <1>c, <2>1, <2>2 DEF AnswerInv
  <2>6. Fresh'
    BY <1>b, <2>1, <2>2 DEF Fresh
  <2> QED
    BY <2>4, <2>5, <2>6
<1>4. ASSUME NEW e \in cache, Lookup(r, e)
      PROVE  CacheInv' /\ AnswerInv' /\ Fresh'
  <2>1. /\ rpc[r] = "enabled" /\ rpc' = [rpc EXCEPT ![r] = "hit"]
        /\ e.version = seen[r].started /\ answer' = [answer EXCEPT ![r] = e.data]
        /\ seen' = seen /\ floor' = floor /\ cache' = cache
    BY <1>4 DEF Lookup
  <2>2. /\ rpc'[r] = "hit" /\ answer'[r] = e.data
        /\ \A q \in Requests \ {r} : rpc'[q] = rpc[q] /\ answer'[q] = answer[q]
    BY <1>b, <2>1
  <2>4. CacheInv'
    BY <1>b, <1>c, <2>1, <2>2 DEF CacheInv
  <2>5. AnswerInv'
    BY <1>b, <1>c, <2>1, <2>2 DEF AnswerInv
  <2>6. floor[r] <= e.data
    BY <1>b, <2>1 DEF CacheInv, Vouched
  <2>7. Fresh'
    BY <1>b, <2>1, <2>2, <2>6 DEF Fresh
  <2> QED
    BY <2>4, <2>5, <2>7
<1>5. CASE Query(r)
  <2>1. /\ rpc[r] = "enabled" /\ rpc' = [rpc EXCEPT ![r] = "queried"]
        /\ answer' = [answer EXCEPT ![r] = index]
        /\ seen' = seen /\ floor' = floor /\ cache' = cache
    BY <1>5 DEF Query
  <2>2. /\ rpc'[r] = "queried" /\ answer'[r] = index
        /\ \A q \in Requests \ {r} : rpc'[q] = rpc[q] /\ answer'[q] = answer[q]
    BY <1>b, <2>1
  <2>4. CacheInv'
    BY <1>b, <1>c, <2>1, <2>2 DEF CacheInv
  <2>5. Vouched(seen[r].started, index)
    BY <1>b, <2>1 DEF RequestInv, Vouched
  <2>6. AnswerInv'
    BY <1>b, <1>c, <2>1, <2>2, <2>5 DEF AnswerInv
  <2>7. Fresh'
    BY <1>b, <2>1, <2>2 DEF Fresh
  <2> QED
    BY <2>4, <2>6, <2>7
<1>6. CASE Store(r)
  <2>1. /\ rpc[r] = "queried" /\ rpc' = [rpc EXCEPT ![r] = "idle"]
        /\ cache' = cache \cup {[version |-> seen[r].started, data |-> answer[r]]}
        /\ seen' = seen /\ floor' = floor /\ answer' = answer
    BY <1>6 DEF Store
  <2>2. rpc'[r] = "idle" /\ \A q \in Requests \ {r} : rpc'[q] = rpc[q]
    BY <1>b, <2>1
  <2>4. Vouched(seen[r].started, answer[r])'
    BY <1>b, <1>c, <2>1, <2>2 DEF AnswerInv
  <2>5. CacheInv'
    BY <1>b, <1>c, <2>1, <2>2, <2>4 DEF CacheInv
  <2>6. AnswerInv'
    BY <1>b, <1>c, <2>1, <2>2 DEF AnswerInv
  <2>7. Fresh'
    BY <1>b, <2>1, <2>2 DEF Fresh
  <2> QED
    BY <2>5, <2>6, <2>7
<1>7. CASE EndRequest(r)
  <2>1. /\ rpc' = [rpc EXCEPT ![r] = "idle"] /\ rpc[r] # "idle"
        /\ seen' = seen /\ floor' = floor /\ answer' = answer /\ cache' = cache
    BY <1>7 DEF EndRequest
  <2>2. rpc'[r] = "idle" /\ \A q \in Requests \ {r} : rpc'[q] = rpc[q]
    BY <1>b, <2>1
  <2>4. CacheInv'
    BY <1>b, <1>c, <2>1, <2>2 DEF CacheInv
  <2>5. AnswerInv'
    BY <1>b, <1>c, <2>1, <2>2 DEF AnswerInv
  <2>6. Fresh'
    BY <1>b, <2>1, <2>2 DEF Fresh
  <2> QED
    BY <2>4, <2>5, <2>6
<1> QED
  BY <1>1, <1>2, <1>3, <1>4, <1>5, <1>6, <1>7 DEF RequestStep
-------------------------------------------------------------------------------
\* The invariant holds initially: no entry, no request, both counters missing.
LEMMA InitIInv == Init => IInv
<1> SUFFICES ASSUME Init PROVE IInv
  OBVIOUS
<1>1. TypeOK
  BY FenceAssumption DEF Init, TypeOK, Stages, LateStages, RequestStages
<1>2. InFlight = {}
  BY DEF Init, InFlight
<1>3. FenceInv
  BY <1>2, FS_EmptySet DEF Init, FenceInv, Flights, Version, Closed, GetVersion
<1>4. RequestInv /\ CacheInv /\ AnswerInv /\ Fresh
  BY DEF Init, RequestInv, CacheInv, AnswerInv, Fresh
<1> QED
  BY <1>1, <1>3, <1>4 DEF IInv

\* Every step keeps the invariant.
LEMMA StepIInv == ASSUME IInv, [Next]_vars PROVE IInv'
<1>1. TypeOK'
  BY TypeStep DEF IInv
<1>2. FenceInv' /\ Progress
  BY FenceStep DEF IInv
<1>3. RequestInv'
  BY <1>1, <1>2, RequestInvStep DEF IInv
<1>4. ASSUME InTime' PROVE CacheInv' /\ AnswerInv' /\ Fresh'
  <2>1. InTime /\ \A m \in Mutators : ~LoseOperation(m) /\ ~CommitLate(m)
    <3>1. late \in [Mutators -> LateStages]
      BY DEF IInv, TypeOK
    <3>2. ASSUME NEW m \in Mutators, MutatorStep(m) \/ MutatorFault(m) \/ CommitLate(m)
          PROVE  late' = late \/ late'[m] # "none"
      BY <3>1, <3>2 DEF At, MutatorStep, PrepareStarted, PrepareCompleted, OpenFence, Operate,
                  FailOperation, LoseOperation, CloseFence, MutatorFault, RefuseMutation,
                  FailCompletion, CrashMutator, CommitLate
    <3>3. ASSUME NEW r \in Requests, RequestStep(r) PROVE late' = late
      BY <3>3 DEF RequestStep, BeginRequest, ReadCompleted, EnableCache, Lookup, Query,
                  Store, EndRequest
    <3>4. late' = late
      BY <1>4, <3>2, <3>3 DEF Next, vars, InTime
    <3> QED
      BY <1>4, <3>1, <3>4 DEF InTime, LoseOperation, CommitLate, At
  <2>2. ASSUME NEW m \in Mutators, MutatorStep(m) \/ MutatorFault(m) PROVE UNCHANGED requestVars
    BY <2>1, <2>2 DEF requestVars, MutatorStep, PrepareStarted, PrepareCompleted, OpenFence,
                Operate, FailOperation, CloseFence, MutatorFault, RefuseMutation,
                FailCompletion, CrashMutator
  <2> QED
    BY <1>1, <1>2, <2>1, <2>2, OthersStep, RequestsStep DEF Next, vars
<1> QED
  BY <1>1, <1>2, <1>3, <1>4 DEF IInv

(***************************************************************************)
(* The strengthening of NoStaleHit is an invariant, for any number of      *)
(* mutations, requests, failed calls and late commits.                     *)
(***************************************************************************)
THEOREM FenceCorrect == Spec => []IInv
<1>1. Init => IInv
  BY InitIInv
<1>2. IInv /\ [Next]_vars => IInv'
  BY StepIInv
<1> QED
  BY <1>1, <1>2, PTL DEF Spec

(***************************************************************************)
(* A cache hit is never older than the moment its request began, unless a  *)
(* commit came late (runMutation, withCacheScope, scopedCacheKey).         *)
(***************************************************************************)
THEOREM HitsAreFresh == Spec => []NoStaleHit
<1>1. IInv => NoStaleHit
  BY DEF IInv, NoStaleHit, Fresh
<1> QED
  BY <1>1, FenceCorrect, PTL

(***************************************************************************)
(* No request turns its cache on while a mutation is in flight anywhere    *)
(* (stableMutationVersion): equal counters leave no room for one.          *)
(***************************************************************************)
THEOREM ClosedHolds == Spec => ClosedDuringWrites
<1>1. ASSUME IInv, [Next]_vars
      PROVE  [\A r \in Requests :
                rpc[r] = "compared" /\ rpc'[r] = "enabled" => InFlight = {}]_vars
  <2> SUFFICES ASSUME Next, NEW r \in Requests, rpc[r] = "compared", rpc'[r] = "enabled"
               PROVE  InFlight = {}
    BY <1>1
  <2>1. IInv
    BY <1>1
  <2>2. EnableCache(r)
    <3>1. rpc \in [Requests -> RequestStages]
      BY <2>1 DEF IInv, TypeOK
    <3>2. ASSUME NEW m \in Mutators, MutatorStep(m) \/ MutatorFault(m) \/ CommitLate(m)
          PROVE  rpc' = rpc
      BY <3>2 DEF requestVars, MutatorStep, PrepareStarted, PrepareCompleted, OpenFence, Operate,
                  FailOperation, LoseOperation, CloseFence, MutatorFault, RefuseMutation,
                  FailCompletion, CrashMutator, CommitLate
    <3>3. PICK q \in Requests : RequestStep(q)
      BY <3>2 DEF Next
    <3>4. CASE q # r
      BY <3>1, <3>3, <3>4 DEF RequestStep, At, BeginRequest, ReadCompleted, EnableCache, Lookup,
                              Query, Store, EndRequest
    <3>5. CASE q = r
      BY <3>1, <3>3, <3>5 DEF RequestStep, At, BeginRequest, ReadCompleted, Lookup,
                              Query, Store, EndRequest
    <3> QED
      BY <3>4, <3>5
  <2>3. seen[r].completed <= Closed /\ Version = seen[r].completed
    BY <2>1, <2>2 DEF IInv, RequestInv, EnableCache, Stable, Version
  <2>4. Closed + Flights <= Version
    BY <2>1 DEF IInv, FenceInv
  <2>5. IsFiniteSet(InFlight) /\ Flights \in Nat
    BY FenceAssumption, FS_Subset, FS_CardinalityType DEF InFlight, Flights
  <2>6. Version \in Nat /\ Closed \in Nat /\ seen[r].completed \in Nat
    BY <2>1 DEF IInv, TypeOK, Version, Closed, GetVersion
  <2>7. Flights = 0
    BY <2>3, <2>4, <2>5, <2>6
  <2> QED
    BY <2>4, <2>5, <2>7, FS_EmptySet DEF Flights
<1> QED
  BY <1>1, FenceCorrect, PTL DEF Spec, ClosedDuringWrites
================================================================================
