----------------------------- MODULE SearchProofs -----------------------------
(***************************************************************************)
(* Proofs about the two models of a search. The first part is about         *)
(* SearchPages, for any documents, scores, page sizes, numbers of writes,   *)
(* switches and changes of the configuration; the second about QueryText,   *)
(* for any runes, texts of any length, documents, dictionaries and whatever *)
(* lexemes PostgreSQL makes of a word.                                      *)
(***************************************************************************)
EXTENDS SearchPages, QueryText, FiniteSetTheorems, SequenceTheorems, WellFoundedInduction, TLAPS

\* The rows a cursor leaves behind it.
Passed(cur, d) ==
  ~keysetPredicate(cur.key, KeyOf(d, cur.query, cur.sort, cur.config, cur.scoredAt))

(***************************************************************************)
(* Between two pages: the client was shown exactly those steady documents  *)
(* of its search that its cursor has passed.                               *)
(***************************************************************************)
CursorInv ==
  cursor # None =>
    /\ walk = [query |-> cursor.query, sort |-> cursor.sort, config |-> cursor.config]
    /\ ~ended
    /\ views = {[generation |-> cursor.generation, config |-> cursor.config]}
    /\ \A d \in steady :
         d \in shown <=> d \in Matching(cursor.query, cursor.config) /\ Passed(cursor, d)

RequestInv == request # None /\ request.cursor # None => request.cursor = cursor

IInv == TypeOK /\ CursorInv /\ RequestInv /\ EachOnce /\ OneView

-------------------------------------------------------------------------------
\* The order of results is a strict total order, and the predicate its converse.
LEMMA KeyOrder ==
  ASSUME NEW a \in Key, NEW b \in Key, NEW c \in Key
  PROVE  /\ OrderedBefore(a, b) <=> keysetPredicate(a, b)
         /\ ~OrderedBefore(a, a)
         /\ ~(OrderedBefore(a, b) /\ OrderedBefore(b, a))
         /\ OrderedBefore(a, b) /\ OrderedBefore(b, c) => OrderedBefore(a, c)
BY DEF Key, OrderedBefore, keysetPredicate

\* The key of a row is one.
LEMMA KeyType ==
  ASSUME TypeOK, NEW q \in Queries, NEW s \in Sorts, NEW c \in Configs, NEW t \in Times,
         NEW d \in Matching(q, c)
  PROVE  KeyOf(d, q, s, c, t) \in Key
<1>1. rows[d] \in Contents /\ d \in Docs
  BY DEF Matching, TypeOK
<1>2. SortScore(q, s, c, rows[d], t) \in Int
  BY <1>1, PagesAssumption DEF SortScore
<1>3. SortTime[rows[d]] \in Int /\ Position[d] \in Int
  BY <1>1, PagesAssumption
<1> QED
  BY <1>2, <1>3 DEF KeyOf, Key

\* A page that does not end the walk has a last row.
LEMMA LastRow ==
  ASSUME NEW page, NEW last, NEW rest, NEW n \in Limits, NEW q, NEW s, NEW c, NEW t,
         IsPage(page, last, rest, n, q, s, c, t), page # rest
  PROVE  last \in page
<1>1. Cardinality({}) = 0
  BY FS_EmptySet
<1> QED
  BY <1>1 DEF IsPage, Limits

-------------------------------------------------------------------------------
\* It holds before the first request.
LEMMA InitIInv == Init => IInv
<1> SUFFICES ASSUME Init PROVE IInv
  OBVIOUS
<1>1. 0 \in Generations /\ 0 \in Times /\ 0 \in 0..MaxWrites
  BY PagesAssumption DEF Generations, Times
<1>2. TypeOK
  BY <1>1 DEF Init, TypeOK
<1>3. CursorInv /\ RequestInv /\ EachOnce /\ OneView
  BY DEF Init, CursorInv, RequestInv, EachOnce, OneView
<1> QED
  BY <1>2, <1>3 DEF IInv

\* Types are kept by every step.
LEMMA TypeStep == TypeOK /\ [Next]_vars => TypeOK'
<1> SUFFICES ASSUME TypeOK, [Next]_vars PROVE TypeOK'
  OBVIOUS
<1> USE PagesAssumption, NoneAssumption DEF TypeOK, indexVars, walkVars
<1>1. CASE Tick
  BY <1>1 DEF Tick, Times
<1>2. ASSUME NEW d \in Docs, NEW x \in Contents \cup {None}, WriteDoc(d, x) PROVE TypeOK'
  BY <1>2 DEF WriteDoc
<1>3. ASSUME NEW new \in [Docs -> Contents \cup {None}], Switch(new) PROVE TypeOK'
  BY <1>3 DEF Switch, Generations
<1>4. ASSUME NEW r \in Replicas, NEW c \in Configs, UpdateRuntimeConfig(r, c) PROVE TypeOK'
  BY <1>4 DEF UpdateRuntimeConfig
<1>5. ASSUME NEW r \in Replicas, NEW q \in Queries, NEW s \in Sorts, NEW n \in Limits,
             NEW cur \in {None, cursor}, BeginSearch(r, q, s, n, cur)
      PROVE  TypeOK'
  <2>1. request' \in Request
    BY <1>5 DEF BeginSearch, Request
  <2> QED
    BY <1>5, <2>1 DEF BeginSearch, NoWalk
<1>6. CASE RefuseCursor
  BY <1>6 DEF RefuseCursor, NoWalk
<1>7. ASSUME NEW page \in SUBSET Docs, NEW last \in Docs, ServePage(page, last) PROVE TypeOK'
  <2> DEFINE q == request.query
             s == request.sort
             c == request.config
             t == ScoringTime(request.cursor)
  <2>1. request \in Request /\ q \in Queries /\ s \in Sorts /\ c \in Configs /\ t \in Times
    BY <1>7 DEF ServePage, Request, Cursor, ScoringTime
  <2>2. cursor' \in Cursor \cup {None}
    <3> DEFINE rest == Remaining(q, s, c, t, request.cursor)
    <3>1. CASE page = rest
      BY <1>7, <3>1 DEF ServePage
    <3>2. CASE page # rest
      <4>1. request.limit \in Limits /\ IsPage(page, last, rest, request.limit, q, s, c, t)
        BY <1>7, <2>1 DEF ServePage, Request
      <4>2. last \in page
        BY <3>2, <4>1, LastRow
      <4>3. last \in Matching(q, c)
        BY <4>1, <4>2 DEF IsPage, Remaining
      <4>4. KeyOf(last, q, s, c, t) \in Key
        BY <2>1, <4>3, KeyType
      <4>5. NextCursor(q, s, c, t, last) \in Cursor
        BY <2>1, <4>4 DEF NextCursor, Cursor
      <4> QED
        BY <1>7, <3>2, <4>5 DEF ServePage
    <3> QED
      BY <3>1, <3>2
  <2>3. [generation |-> generation, config |-> c] \in View
    BY <2>1 DEF View
  <2>4. [query |-> q, sort |-> s, config |-> c] \in Walk
    BY <2>1 DEF Walk
  <2>5. walk' \in Walk \cup {None} /\ shown' \subseteq Docs /\ repeated' \subseteq Docs
        /\ steady' \subseteq Docs /\ views' \subseteq View
    BY <1>7, <2>3, <2>4 DEF ServePage
  <2> QED
    BY <1>7, <2>2, <2>5 DEF ServePage
<1>8. CASE FailSearch
  BY <1>8 DEF FailSearch
<1>9. CASE UNCHANGED vars
  BY <1>9 DEF vars
<1> HIDE DEF TypeOK, indexVars, walkVars
<1> QED
  BY <1>1, <1>2, <1>3, <1>4, <1>5, <1>6, <1>7, <1>8, <1>9 DEF Next

-------------------------------------------------------------------------------
\* What the rest of the invariant says of one state.
WalkInv == CursorInv /\ RequestInv /\ EachOnce /\ OneView

\* Writes and switches change the rows of documents that are steady no longer.
LEMMA RowsStep ==
  ASSUME WalkInv, steady' \subseteq steady, \A d \in steady' : rows'[d] = rows[d],
         UNCHANGED <<request, cursor, walk, ended, shown, repeated, views>>,
         steady \subseteq Docs
  PROVE  WalkInv'
<1>1. \A d \in steady' : \A q, s, c, t : KeyOf(d, q, s, c, t)' = KeyOf(d, q, s, c, t)
  BY DEF KeyOf, SortScore
<1>2. \A d \in steady' : \A q, c : d \in Matching(q, c)' <=> d \in Matching(q, c)
  BY DEF Matching
<1>3. CursorInv'
  <2> SUFFICES ASSUME cursor # None
               PROVE  \A d \in steady' :
                        d \in shown <=> d \in Matching(cursor.query, cursor.config)' /\ Passed(cursor, d)'
    BY DEF WalkInv, CursorInv
  <2>1. \A d \in steady' : Passed(cursor, d)' <=> Passed(cursor, d)
    BY <1>1 DEF Passed
  <2> QED
    BY <1>2, <2>1 DEF WalkInv, CursorInv
<1>4. EachOnce'
  BY <1>2 DEF WalkInv, EachOnce
<1> QED
  BY <1>3, <1>4 DEF WalkInv, RequestInv, OneView

\* A new walk begins with nothing shown.
LEMMA NoWalkStep ==
  ASSUME NoWalk, request' # None => request'.cursor = None
  PROVE  WalkInv'
BY DEF NoWalk, WalkInv, CursorInv, RequestInv, EachOnce, OneView

-------------------------------------------------------------------------------
(***************************************************************************)
(* A page, first or later, keeps the promise of the cursor and hands it on *)
(* to the next one.                                                        *)
(***************************************************************************)
LEMMA PageStep ==
  ASSUME TypeOK, WalkInv, NEW page \in SUBSET Docs, NEW last \in Docs, ServePage(page, last)
  PROVE  WalkInv'
<1>1. PICK q \in Queries, s \in Sorts, c \in Configs, t \in Times, n \in Limits,
           cur \in Cursor \cup {None} :
        /\ q = request.query /\ s = request.sort /\ c = request.config
        /\ n = request.limit /\ cur = request.cursor /\ t = ScoringTime(cur)
  BY DEF ServePage, TypeOK, Request, Cursor, ScoringTime
<1> DEFINE rest == Remaining(q, s, c, t, cur)
           K(d) == KeyOf(d, q, s, c, t)
           M == Matching(q, c)
<1>2. \A d \in M : K(d) \in Key
  BY <1>1, KeyType
<1>3. page \subseteq rest /\ rest \subseteq M
  BY <1>1 DEF ServePage, IsPage, Remaining
<1>4. UNCHANGED <<rows, generation>>
  BY DEF ServePage, indexVars
<1>5. CASE cur = None
  <2>1. rest = M
    BY <1>5 DEF Remaining
  <2>2. /\ walk' = [query |-> q, sort |-> s, config |-> c] /\ shown' = page /\ repeated' = {}
        /\ views' = {[generation |-> generation, config |-> c]}
        /\ request' = None /\ ended' = (page = rest)
    BY <1>1, <1>5 DEF ServePage
  <2>3. Matching(q, c)' = M
    BY <1>4 DEF Matching
  <2>4. EachOnce'
    BY <1>3, <2>1, <2>2, <2>3 DEF EachOnce
  <2>5. CursorInv'
    <3>1. CASE page = rest
      BY <1>1, <3>1 DEF ServePage, CursorInv
    <3>2. CASE page # rest
      <4>1. cursor' = NextCursor(q, s, c, t, last)
        BY <1>1, <3>2 DEF ServePage
      <4>2. last \in page /\ IsPage(page, last, rest, n, q, s, c, t)
        BY <1>1, <3>2, LastRow DEF ServePage
      <4>3. \A d : Passed(cursor, d)' <=> ~keysetPredicate(K(last), K(d))
        BY <1>4, <4>1 DEF Passed, NextCursor, KeyOf, SortScore
      <4>4. ASSUME NEW d \in M PROVE d \in page <=> ~keysetPredicate(K(last), K(d))
        <5>1. K(d) \in Key /\ K(last) \in Key
          BY <1>2, <1>3, <4>2
        <5>2. d \in page => d = last \/ OrderedBefore(K(d), K(last))
          BY <4>2 DEF IsPage
        <5>3. d \notin page => OrderedBefore(K(last), K(d))
          BY <2>1, <4>2 DEF IsPage
        <5> QED
          BY <5>1, <5>2, <5>3, KeyOrder
      <4>5. \A d \in Docs : d \in page <=> d \in M /\ ~keysetPredicate(K(last), K(d))
        BY <1>3, <4>4
      <4>6. /\ cursor'.query = q /\ cursor'.sort = s /\ cursor'.config = c
            /\ cursor'.generation = generation
        BY <4>1 DEF NextCursor
      <4>7. steady' \subseteq Docs
        BY <1>1, <1>5 DEF ServePage
      <4> QED
        BY <2>2, <2>3, <3>2, <4>3, <4>5, <4>6, <4>7 DEF CursorInv
    <3> QED
      BY <3>1, <3>2
  <2> QED
    BY <2>2, <2>4, <2>5 DEF WalkInv, RequestInv, OneView
<1>6. CASE cur # None
  <2>1. /\ cur = cursor /\ cur \in Cursor
        /\ cur.query = q /\ cur.sort = s /\ cur.config = c /\ cur.generation = generation
        /\ cur.scoredAt = t
    BY <1>1, <1>6 DEF ServePage, WalkInv, RequestInv, CursorFits, ScoringTime
  <2>2. /\ walk' = walk /\ steady' = steady /\ shown' = shown \cup page
        /\ repeated' = repeated \cup (shown \cap page)
        /\ views' = views \cup {[generation |-> generation, config |-> c]}
        /\ request' = None /\ ended' = (page = rest)
    BY <1>1, <1>6 DEF ServePage
  <2>3. Matching(q, c)' = M
    BY <1>4 DEF Matching
  <2>4. /\ walk = [query |-> q, sort |-> s, config |-> c]
        /\ views = {[generation |-> generation, config |-> c]}
        /\ \A d \in steady : d \in shown <=> d \in M /\ ~keysetPredicate(cur.key, K(d))
    BY <1>6, <2>1 DEF WalkInv, CursorInv, Passed
  <2>5. \A d \in rest : keysetPredicate(cur.key, K(d))
    BY <1>6 DEF Remaining
  <2>6. steady \subseteq Docs /\ M \subseteq Docs
    BY DEF TypeOK, Matching
  <2>7. \A d \in M : d \in rest <=> keysetPredicate(cur.key, K(d))
    BY <1>6 DEF Remaining
  <2>8. EachOnce'
    <3>1. repeated' \cap steady' = {}
      BY <1>3, <2>2, <2>4, <2>5 DEF WalkInv, EachOnce
    <3>2. steady' \cap shown' \subseteq M
      BY <1>3, <2>2, <2>4
    <3>3. ended' => steady' \cap M \subseteq shown'
      BY <2>2, <2>4, <2>7
    <3> QED
      BY <2>2, <2>3, <2>4, <3>1, <3>2, <3>3 DEF EachOnce
  <2>9. CursorInv'
    <3>1. CASE page = rest
      BY <1>1, <3>1 DEF ServePage, CursorInv
    <3>2. CASE page # rest
      <4>1. cursor' = NextCursor(q, s, c, t, last)
        BY <1>1, <3>2 DEF ServePage
      <4>2. last \in page /\ IsPage(page, last, rest, n, q, s, c, t)
        BY <1>1, <3>2, LastRow DEF ServePage
      <4>3. \A d : Passed(cursor, d)' <=> ~keysetPredicate(K(last), K(d))
        BY <1>4, <4>1 DEF Passed, NextCursor, KeyOf, SortScore
      <4>4. ASSUME NEW d \in steady, d \in M
            PROVE  d \in shown \cup page <=> ~keysetPredicate(K(last), K(d))
        <5>1. K(d) \in Key /\ K(last) \in Key /\ cur.key \in Key
          BY <1>2, <1>3, <2>1, <4>2, <4>4 DEF Cursor
        <5>2. keysetPredicate(cur.key, K(last))
          BY <1>3, <2>5, <4>2
        <5>3. d \in page => d = last \/ OrderedBefore(K(d), K(last))
          BY <4>2 DEF IsPage
        <5>4. d \in rest \ page => OrderedBefore(K(last), K(d))
          BY <4>2 DEF IsPage
        <5>5. d \in shown <=> ~keysetPredicate(cur.key, K(d))
          BY <2>4, <4>4
        <5>6. d \in rest <=> keysetPredicate(cur.key, K(d))
          BY <2>7, <4>4
        <5>7. ~(keysetPredicate(K(last), K(d)) /\ ~keysetPredicate(cur.key, K(d)))
          BY <5>1, <5>2, KeyOrder
        <5>8. d \in page => ~keysetPredicate(K(last), K(d))
          BY <5>1, <5>3, KeyOrder
        <5>9. d \in rest \ page => keysetPredicate(K(last), K(d))
          BY <5>1, <5>4, KeyOrder
        <5> QED
          BY <5>5, <5>6, <5>7, <5>8, <5>9
      <4>5. \A d \in steady :
              d \in shown \cup page <=> d \in M /\ ~keysetPredicate(K(last), K(d))
        BY <1>3, <2>4, <4>4
      <4>6. /\ cursor'.query = q /\ cursor'.sort = s /\ cursor'.config = c
            /\ cursor'.generation = generation
        BY <4>1 DEF NextCursor
      <4> QED
        BY <2>2, <2>3, <2>4, <3>2, <4>3, <4>5, <4>6 DEF CursorInv
    <3> QED
      BY <3>1, <3>2
  <2> QED
    BY <2>2, <2>4, <2>8, <2>9 DEF WalkInv, RequestInv, OneView
<1> QED
  BY <1>5, <1>6

-------------------------------------------------------------------------------
\* A walk stays one search.
LEMMA WalkStep == TypeOK /\ WalkInv /\ [Next]_vars => WalkInv'
<1> SUFFICES ASSUME TypeOK, WalkInv, [Next]_vars PROVE WalkInv'
  OBVIOUS
<1>a. steady \subseteq Docs /\ rows \in [Docs -> Contents \cup {None}]
  BY DEF TypeOK
<1>1. CASE Tick
  BY <1>1, <1>a, RowsStep DEF Tick, indexVars, walkVars
<1>2. ASSUME NEW d \in Docs, NEW x \in Contents \cup {None}, WriteDoc(d, x) PROVE WalkInv'
  <2>1. \A e \in steady' : rows'[e] = rows[e]
    BY <1>2, <1>a DEF WriteDoc
  <2>2. steady' \subseteq steady
    BY <1>2 DEF WriteDoc
  <2> QED
    BY <1>2, <1>a, <2>1, <2>2, RowsStep DEF WriteDoc, walkVars
<1>3. ASSUME NEW new \in [Docs -> Contents \cup {None}], Switch(new) PROVE WalkInv'
  <2>1. steady' \subseteq steady /\ \A e \in steady' : rows'[e] = rows[e]
    BY <1>3 DEF Switch
  <2> QED
    BY <1>3, <1>a, <2>1, RowsStep DEF Switch, walkVars
<1>4. ASSUME NEW r \in Replicas, NEW c \in Configs, UpdateRuntimeConfig(r, c) PROVE WalkInv'
  BY <1>4, <1>a, RowsStep DEF UpdateRuntimeConfig, indexVars, walkVars
<1>5. ASSUME NEW r \in Replicas, NEW q \in Queries, NEW s \in Sorts, NEW n \in Limits,
             NEW cur \in {None, cursor}, BeginSearch(r, q, s, n, cur)
      PROVE  WalkInv'
  <2>1. request'.cursor = cur
    BY <1>5 DEF BeginSearch
  <2>2. CASE cur = None /\ NoWalk
    BY <2>1, <2>2, NoWalkStep
  <2>3. CASE cur = cursor /\ UNCHANGED <<cursor, walkVars, steady>>
    <3>1. UNCHANGED rows
      BY <1>5 DEF BeginSearch, indexVars
    <3>2. CursorInv' /\ EachOnce' /\ OneView'
      BY <2>3, <3>1 DEF WalkInv, CursorInv, EachOnce, OneView, walkVars, Matching, Passed,
         KeyOf, SortScore
    <3> QED
      BY <2>1, <2>3, <3>2 DEF WalkInv, RequestInv
  <2> QED
    BY <1>5, <2>2, <2>3 DEF BeginSearch
<1>6. CASE RefuseCursor
  BY <1>6, NoWalkStep DEF RefuseCursor
<1>7. ASSUME NEW page \in SUBSET Docs, NEW last \in Docs, ServePage(page, last) PROVE WalkInv'
  BY <1>7, PageStep
<1>8. CASE FailSearch
  <2>1. UNCHANGED <<rows, cursor, walk, ended, shown, repeated, views, steady>> /\ request' = None
    BY <1>8 DEF FailSearch, indexVars, walkVars
  <2>2. CursorInv' /\ EachOnce' /\ OneView'
    BY <2>1 DEF WalkInv, CursorInv, EachOnce, OneView, Matching, Passed, KeyOf, SortScore
  <2> QED
    BY <2>1, <2>2 DEF WalkInv, RequestInv
<1>9. CASE UNCHANGED vars
  BY <1>9, <1>a, RowsStep DEF vars, indexVars, walkVars
<1> QED
  BY <1>1, <1>2, <1>3, <1>4, <1>5, <1>6, <1>7, <1>8, <1>9 DEF Next

-------------------------------------------------------------------------------
(***************************************************************************)
(* The invariant holds in every reachable state (SearchWithSnapshot).      *)
(***************************************************************************)
THEOREM WalkCorrect == Spec => []IInv
<1>1. IInv /\ [Next]_vars => IInv'
  BY TypeStep, WalkStep DEF IInv, WalkInv
<1> QED
  BY InitIInv, <1>1, PTL DEF Spec

(***************************************************************************)
(* A document that does not change during a walk is shown once if it       *)
(* matches and never otherwise, for every value of the constants           *)
(* (keysetPredicate, next_cursor).                                         *)
(***************************************************************************)
THEOREM ShownOnce == Spec => []EachOnce
<1>1. IInv => EachOnce
  BY DEF IInv
<1> QED
  BY WalkCorrect, <1>1, PTL

(***************************************************************************)
(* The pages of a walk share generation and configuration, for every value *)
(* of the constants (ErrCursorMismatch).                                   *)
(***************************************************************************)
THEOREM SharedView == Spec => []OneView
<1>1. IInv => OneView
  BY DEF IInv
<1> QED
  BY WalkCorrect, <1>1, PTL

-------------------------------------------------------------------------------
(***************************************************************************)
(* The text of a search. An induction is over a set of positions: a set of *)
(* numbers has a least member, so one that contains 0, and k with k - 1,   *)
(* contains them all.                                                      *)
(***************************************************************************)

-------------------------------------------------------------------------------
(***************************************************************************)
(* Induction over a set of numbers.                                        *)
(***************************************************************************)
Below == {p \in Nat \X Nat : p[1] < p[2]}

\* The numbers below a number are fewer than it: < is well-founded on them.
LEMMA BelowWellFounded == IsWellFoundedOn(Below, Nat)
<1>1. OpToRel(<, Nat) = Below
  BY Zenon DEF OpToRel, Below
<1> QED
  BY <1>1, NatLessThanWellFounded, Zenon

\* A set of numbers that is not empty has a least one.
LEMMA Least ==
  ASSUME NEW S \in SUBSET Nat, S # {}
  PROVE  \E n \in S : \A m \in S : n <= m
<1>1. PICK n \in S : \A m \in S : ~(<<m, n>> \in Below)
  BY BelowWellFounded, WFMin
<1>2. ASSUME NEW m \in S PROVE n <= m
  <2>1. n \in Nat /\ m \in Nat /\ ~(<<m, n>> \in Below)
    BY <1>1
  <2>2. ~(m < n)
    BY <2>1 DEF Below
  <2> QED
    BY <2>1, <2>2
<1> QED
  BY <1>2

\* A set of numbers that is not empty and has a bound has a greatest one.
LEMMA Greatest ==
  ASSUME NEW S \in SUBSET Nat, S # {}, NEW b \in Nat, \A m \in S : m <= b
  PROVE  \E n \in S : \A m \in S : m <= n
<1> DEFINE T == {b - m : m \in S}
<1>1. T \in SUBSET Nat
  <2> SUFFICES ASSUME NEW m \in S PROVE b - m \in Nat
    OBVIOUS
  <2>1. m \in Nat /\ m <= b
    OBVIOUS
  <2> QED
    BY <2>1
<1>0. T # {}
  OBVIOUS
<1>2. PICK t \in T : \A u \in T : t <= u
  <2> HIDE DEF T
  <2> QED
    BY <1>0, <1>1, Least
<1>3. PICK n \in S : t = b - n
  BY <1>2
<1>4. ASSUME NEW m \in S PROVE m <= n
  <2>1. t <= b - m
    BY <1>2
  <2>2. m \in Nat /\ n \in Nat
    OBVIOUS
  <2> QED
    BY <2>1, <2>2, <1>3
<1> QED
  BY <1>4

\* What holds of 0, and of k whenever it holds of k - 1, holds up to n.
LEMMA Upward ==
  ASSUME NEW n \in Nat, NEW S, 0 \in S, \A k \in 1..n : k - 1 \in S => k \in S
  PROVE  0..n \subseteq S
<1> DEFINE T == {k \in 0..n : k \notin S}
<1> SUFFICES ASSUME T # {} PROVE FALSE
  OBVIOUS
<1>1. PICK k \in T : \A m \in T : k <= m
  <2>1. T \in SUBSET Nat
    OBVIOUS
  <2> HIDE DEF T
  <2> QED
    BY <2>1, Least
<1>2. k \in 0..n /\ k # 0
  OBVIOUS
<1>3. k \in 1..n /\ k - 1 \in 0..n
  BY <1>2
<1>4. k - 1 \notin T
  BY <1>1, <1>3
<1> QED
  BY <1>2, <1>3, <1>4

\* What holds of n + 1, and of i whenever it holds of all that follow, holds from 1 on.
LEMMA Downward ==
  ASSUME NEW n \in Nat, NEW S, n + 1 \in S,
         \A i \in 1..n : (\A j \in (i + 1)..(n + 1) : j \in S) => i \in S
  PROVE  1..(n + 1) \subseteq S
<1> DEFINE T == {k \in 1..(n + 1) : k \notin S}
<1> SUFFICES ASSUME T # {} PROVE FALSE
  OBVIOUS
<1>1. PICK k \in T : \A m \in T : m <= k
  <2>1. T \in SUBSET Nat /\ \A m \in T : m <= n + 1
    OBVIOUS
  <2>2. n + 1 \in Nat
    OBVIOUS
  <2> HIDE DEF T
  <2> QED
    BY <2>1, <2>2, Greatest
<1>2. k \in 1..n
  OBVIOUS
<1>3. ASSUME NEW j \in (k + 1)..(n + 1) PROVE j \in S
  <2>1. j \in 1..(n + 1) /\ ~(j <= k)
    BY <1>2
  <2> QED
    BY <2>1, <1>1
<1> QED
  BY <1>2, <1>3

-------------------------------------------------------------------------------
(***************************************************************************)
(* The two recursive functions of the tokenizer exist.                     *)
(***************************************************************************)
\* g gives the tokens from each of first..(n + 1) on.
IsWalk(g, first, n, tok, nxt) ==
  g = [i \in first..(n + 1) |-> IF i = n + 1 THEN <<>> ELSE tok[i] \o g[nxt[i]]]

\* A walk that always goes forward can be followed to its end.
LEMMA WalkExists ==
  ASSUME NEW n \in Nat, NEW tok, NEW nxt,
         \A i \in 1..n : nxt[i] \in (i + 1)..(n + 1)
  PROVE  \E g : IsWalk(g, 1, n, tok, nxt)
<1> DEFINE S == {k \in 1..(n + 1) : \E g : IsWalk(g, k, n, tok, nxt)}
<1>1. n + 1 \in S
  <2> DEFINE g == [i \in (n + 1)..(n + 1) |-> <<>>]
  <2>1. IsWalk(g, n + 1, n, tok, nxt)
    BY DEF IsWalk
  <2> QED
    BY <2>1
<1>2. ASSUME NEW k \in 1..n, k + 1 \in S PROVE k \in S
  <2>1. PICK h : IsWalk(h, k + 1, n, tok, nxt)
    BY <1>2
  <2> DEFINE g == [i \in k..(n + 1) |-> IF i = k THEN tok[k] \o h[nxt[k]] ELSE h[i]]
  <2>2. ASSUME NEW i \in k..(n + 1)
        PROVE  g[i] = IF i = n + 1 THEN <<>> ELSE tok[i] \o g[nxt[i]]
    <3>1. CASE i = n + 1
      BY <3>1, <2>1 DEF IsWalk
    <3>2. CASE i # n + 1
      <4>1. nxt[i] \in (k + 1)..(n + 1)
        BY <3>2
      <4>2. g[nxt[i]] = h[nxt[i]]
        BY <4>1
      <4>3. ASSUME i # k PROVE h[i] = tok[i] \o h[nxt[i]]
        <5>1. i \in (k + 1)..(n + 1)
          BY <4>3
        <5> QED
          BY <5>1, <2>1, <3>2 DEF IsWalk
      <4> QED
        BY <3>2, <4>2, <4>3
    <3> QED
      BY <3>1, <3>2
  <2>3. IsWalk(g, k, n, tok, nxt)
    BY <2>2 DEF IsWalk
  <2> QED
    BY <2>3
<1>3. ASSUME NEW i \in 1..n, \A j \in (i + 1)..(n + 1) : j \in S PROVE i \in S
  <2>1. i + 1 \in (i + 1)..(n + 1)
    OBVIOUS
  <2> QED
    BY <1>2, <1>3, <2>1
<1>4. 1 \in S
  <2>1. 1 \in 1..(n + 1)
    OBVIOUS
  <2> HIDE DEF S
  <2>2. 1..(n + 1) \subseteq S
    BY <1>1, <1>3, Downward
  <2> QED
    BY <2>1, <2>2
<1> QED
  BY <1>4

\* g gives what is written of 1..i for each i up to last.
IsWriting(g, last, keep, rune) ==
  g = [i \in 0..last |-> IF i = 0 THEN <<>>
                         ELSE IF keep[i] THEN Append(g[i - 1], rune[i]) ELSE g[i - 1]]

\* What is written after each rune is determined by what was written before it.
LEMMA WritingExists ==
  ASSUME NEW n \in Nat, NEW keep, NEW rune
  PROVE  \E g : IsWriting(g, n, keep, rune)
<1> DEFINE S == {k \in 0..n : \E g : IsWriting(g, k, keep, rune)}
<1>1. 0 \in S
  <2> DEFINE g == [i \in 0..0 |-> <<>>]
  <2>1. IsWriting(g, 0, keep, rune)
    BY DEF IsWriting
  <2> QED
    BY <2>1
<1>2. ASSUME NEW k \in 1..n, k - 1 \in S PROVE k \in S
  <2>1. PICK h : IsWriting(h, k - 1, keep, rune)
    BY <1>2
  <2> DEFINE g == [i \in 0..k |-> IF i = k
                                  THEN IF keep[k] THEN Append(h[k - 1], rune[k]) ELSE h[k - 1]
                                  ELSE h[i]]
  <2>2. ASSUME NEW i \in 0..k
        PROVE  g[i] = IF i = 0 THEN <<>>
                      ELSE IF keep[i] THEN Append(g[i - 1], rune[i]) ELSE g[i - 1]
    <3>1. i # 0 => i - 1 \in 0..(k - 1) /\ g[i - 1] = h[i - 1]
      OBVIOUS
    <3>2. ASSUME i # k
          PROVE  h[i] = IF i = 0 THEN <<>>
                        ELSE IF keep[i] THEN Append(h[i - 1], rune[i]) ELSE h[i - 1]
      <4>1. i \in 0..(k - 1)
        BY <3>2
      <4> QED
        BY <4>1, <2>1 DEF IsWriting
    <3> QED
      BY <3>1, <3>2
  <2>3. IsWriting(g, k, keep, rune)
    BY <2>2 DEF IsWriting
  <2> QED
    BY <2>3
<1>3. 0..n \subseteq S
  <2> HIDE DEF S
  <2> QED
    BY <1>1, <1>2, Upward
<1> QED
  BY <1>3

-------------------------------------------------------------------------------
(***************************************************************************)
(* One step of the tokenizer.                                              *)
(***************************************************************************)
Dictionary == SUBSET (Seq(Runes) \ {<<>>})

\* Where a word ends.
EndsAt(text, i, e) ==
  /\ e \in (i + 1)..(Len(text) + 1)
  /\ \A j \in (i + 1)..(e - 1) : IsSearchWordRune(text[j])
  /\ e <= Len(text) => ~IsSearchWordRune(text[e])

\* A word ends somewhere, at the latest where the text does.
LEMMA WordEnds ==
  ASSUME NEW text \in Seq(Runes), NEW i \in 1..Len(text)
  PROVE  EndsAt(text, i, WordEnd(text, i))
<1> DEFINE n == Len(text)
           S == {e \in (i + 1)..(n + 1) : e <= n => ~IsSearchWordRune(text[e])}
<1>0. n \in Nat /\ i \in Nat
  OBVIOUS
<1>1. n + 1 \in S
  BY <1>0
<1>2. PICK e \in S : \A m \in S : e <= m
  <2>1. S \in SUBSET Nat
    BY <1>0
  <2> HIDE DEF S
  <2> QED
    BY <1>1, <2>1, Least
<1>3. ASSUME NEW j \in (i + 1)..(e - 1) PROVE IsSearchWordRune(text[j])
  <2>1. e \in (i + 1)..(n + 1)
    OBVIOUS
  <2>2. j \in (i + 1)..(n + 1) /\ j <= n /\ ~(e <= j)
    BY <2>1, <1>0
  <2>3. j \notin S
    BY <2>2, <1>2
  <2> QED
    BY <2>2, <2>3
<1>4. e \in (i + 1)..(n + 1) /\ (e <= n => ~IsSearchWordRune(text[e]))
  OBVIOUS
<1>5. \E f \in (i + 1)..(Len(text) + 1) :
        /\ \A j \in (i + 1)..(f - 1) : IsSearchWordRune(text[j])
        /\ f <= Len(text) => ~IsSearchWordRune(text[f])
  BY <1>3, <1>4
<1> QED
  BY <1>5 DEF WordEnd, EndsAt

\* Where the token of a word ends.
TrimmedAt(text, i, e, last) ==
  /\ last \in i..(e - 1)
  /\ text[last] \notin Trailing
  /\ \A j \in (last + 1)..(e - 1) : text[j] \in Trailing

\* The token of a word ends with its last rune that is not '.', '-' or '_'; it has one, its first.
LEMMA Trimmed ==
  ASSUME NEW text \in Seq(Runes), NEW i \in 1..Len(text), NEW e \in (i + 1)..(Len(text) + 1),
         text[i] \in Letters
  PROVE  \E last \in i..(e - 1) :
           TrimmedAt(text, i, e, last) /\ TrimRight(text, i, e) = SubSeq(text, i, last)
<1> DEFINE S == {l \in i..(e - 1) : text[l] \notin Trailing}
<1>0. i \in Nat /\ e \in Nat /\ i <= e - 1 /\ e - 1 \in Nat
  OBVIOUS
<1>1. i \in S
  BY <1>0, ClassesAssumption
<1>2. PICK l \in S : \A m \in S : m <= l
  <2>1. S \in SUBSET Nat /\ \A m \in S : m <= e - 1
    BY <1>0
  <2> HIDE DEF S
  <2> QED
    BY <1>0, <1>1, <2>1, Greatest
<1>3. ASSUME NEW j \in (l + 1)..(e - 1) PROVE text[j] \in Trailing
  <2>1. l \in i..(e - 1)
    OBVIOUS
  <2>2. j \in i..(e - 1) /\ ~(j <= l)
    BY <2>1, <1>0
  <2>3. j \notin S
    BY <2>2, <1>2
  <2> QED
    BY <2>2, <2>3
<1>4. \E last \in i..(e - 1) :
        text[last] \notin Trailing /\ \A j \in (last + 1)..(e - 1) : text[j] \in Trailing
  BY <1>3
<1> DEFINE last == CHOOSE last \in i..(e - 1) :
             text[last] \notin Trailing /\ \A j \in (last + 1)..(e - 1) : text[j] \in Trailing
<1>5. TrimmedAt(text, i, e, last)
  BY <1>4 DEF TrimmedAt
<1>6. TrimRight(text, i, e) = SubSeq(text, i, last)
  BY DEF TrimRight
<1>7. last \in i..(e - 1)
  BY <1>5 DEF TrimmedAt
<1> HIDE DEF last
<1> QED
  BY <1>5, <1>6, <1>7

\* Of the keys that match there is a longest, and Longest is one that no other exceeds.
LEMMA LongestMatches ==
  ASSUME NEW text \in Seq(Runes), NEW keys \in Dictionary, NEW i \in 1..Len(text),
         MatchingAt(text, keys, i) # {}
  PROVE  /\ Longest(MatchingAt(text, keys, i)) \in MatchingAt(text, keys, i)
         /\ \A key \in MatchingAt(text, keys, i) :
              Len(key) <= Len(Longest(MatchingAt(text, keys, i)))
<1> DEFINE M == MatchingAt(text, keys, i)
           S == {Len(key) : key \in M}
<1>1. \A key \in M : Len(key) \in Nat /\ Len(key) <= Len(text) + 1
  BY DEF MatchingAt, MatchesAt, StandsAt, Dictionary
<1>2. PICK l \in S : \A m \in S : m <= l
  <2>1. S \in SUBSET Nat /\ S # {} /\ \A m \in S : m <= Len(text) + 1
    BY <1>1
  <2>2. Len(text) + 1 \in Nat
    OBVIOUS
  <2> HIDE DEF S
  <2> QED
    BY <2>1, <2>2, Greatest
<1>3. \E key \in M : \A other \in M : Len(other) <= Len(key)
  BY <1>2
<1> HIDE DEF M
<1> QED
  BY <1>3 DEF Longest, M

(***************************************************************************)
(* What a step does: it takes the longest key that matches, a Han rune, a   *)
(* word, or nothing.                                                       *)
(***************************************************************************)
KeyStep(text, keys, i, key) ==
  /\ key \in keys /\ MatchesAt(text, key, i)
  /\ \A other \in keys : MatchesAt(text, other, i) => Len(other) <= Len(key)
  /\ TokenAt(text, keys, i) = <<key>>
  /\ NextAt(text, keys, i) = i + Len(key)

HanStep(text, keys, i) ==
  /\ text[i] \in Han
  /\ TokenAt(text, keys, i) = <<<<text[i]>>>>
  /\ NextAt(text, keys, i) = i + 1

WordStep(text, keys, i, e, last) ==
  /\ text[i] \in Letters
  /\ EndsAt(text, i, e) /\ TrimmedAt(text, i, e, last)
  /\ TokenAt(text, keys, i) = <<SubSeq(text, i, last)>>
  /\ NextAt(text, keys, i) = e

SkipStep(text, keys, i) ==
  /\ text[i] \notin Han \cup Letters
  /\ TokenAt(text, keys, i) = <<>>
  /\ NextAt(text, keys, i) = i + 1

\* Every step of the tokenizer is one of the four.
LEMMA StepCases ==
  ASSUME NEW text \in Seq(Runes), NEW keys \in Dictionary, NEW i \in 1..Len(text)
  PROVE  \/ \E key \in keys : KeyStep(text, keys, i, key)
         \/ HanStep(text, keys, i)
         \/ \E e \in (i + 1)..(Len(text) + 1), last \in i..Len(text) :
              WordStep(text, keys, i, e, last)
         \/ SkipStep(text, keys, i)
<1> DEFINE M == MatchingAt(text, keys, i)
<1>1. CASE M # {}
  <2> DEFINE key == Longest(M)
  <2>1. key \in M /\ \A other \in M : Len(other) <= Len(key)
    BY <1>1, LongestMatches
  <2>2. TokenAt(text, keys, i) = <<key>> /\ NextAt(text, keys, i) = i + Len(key)
    BY <1>1 DEF TokenAt, NextAt
  <2>3. KeyStep(text, keys, i, key)
    BY <2>1, <2>2 DEF KeyStep, MatchingAt
  <2>4. key \in keys
    BY <2>1 DEF MatchingAt
  <2> QED
    BY <2>3, <2>4
<1>2. CASE M = {} /\ text[i] \in Han
  <2>1. text[i] \notin Letters
    BY <1>2, ClassesAssumption
  <2> QED
    BY <1>2, <2>1 DEF HanStep, TokenAt, NextAt
<1>3. CASE M = {} /\ text[i] \in Letters
  <2> DEFINE e == WordEnd(text, i)
  <2>1. text[i] \notin Han
    BY <1>3, ClassesAssumption
  <2>2. EndsAt(text, i, e)
    BY WordEnds
  <2>3. e \in (i + 1)..(Len(text) + 1)
    BY <2>2 DEF EndsAt
  <2>4. TokenAt(text, keys, i) = <<TrimRight(text, i, e)>> /\ NextAt(text, keys, i) = e
    BY <1>3, <2>1 DEF TokenAt, NextAt
  <2> HIDE DEF e
  <2>5. PICK last \in i..(e - 1) :
          TrimmedAt(text, i, e, last) /\ TrimRight(text, i, e) = SubSeq(text, i, last)
    BY <1>3, <2>3, Trimmed
  <2>6. WordStep(text, keys, i, e, last)
    BY <1>3, <2>2, <2>4, <2>5 DEF WordStep
  <2>7. last \in i..Len(text)
    BY <2>3
  <2> QED
    BY <2>3, <2>6, <2>7
<1>4. CASE M = {} /\ text[i] \notin Han \cup Letters
  BY <1>4 DEF SkipStep, TokenAt, NextAt
<1> QED
  BY <1>1, <1>2, <1>3, <1>4

\* A key that matches stands in the text and is not cut out of a word.
LEMMA KeyStands ==
  ASSUME NEW text \in Seq(Runes), NEW keys \in Dictionary, NEW i \in 1..Len(text),
         NEW key \in keys, MatchesAt(text, key, i)
  PROVE  /\ Len(key) \in 1..(Len(text) + 1 - i)
         /\ key = SubSeq(text, i, i + Len(key) - 1)
         /\ text[i + Len(key) - 1] = key[Len(key)]
         /\ \/ text[i + Len(key) - 1] \in Han
            \/ i + Len(key) = Len(text) + 1
            \/ ~IsSearchWordRune(text[i + Len(key)])
<1>1. key \in Seq(Runes) /\ key # <<>>
  BY DEF Dictionary
<1>2. Len(key) \in Nat \ {0}
  BY <1>1, EmptySeq
<1>3. i + Len(key) <= Len(text) + 1 /\ key = SubSeq(text, i, i + Len(key) - 1)
  BY DEF MatchesAt, StandsAt
<1>4. Len(key) \in 1..(Len(text) + 1 - i)
  BY <1>2, <1>3
<1>5. text[i + Len(key) - 1] = key[Len(key)]
  <2>1. \A j \in i..(i + Len(key) - 1) : text[j] \in Runes
    BY <1>2, <1>3
  <2>2. \A j \in 1..Len(key) : SubSeq(text, i, i + Len(key) - 1)[j] = text[i + j - 1]
    BY <1>2, <2>1, SubSeqProperties
  <2> QED
    BY <1>2, <1>3, <2>2
<1> QED
  BY <1>3, <1>4, <1>5 DEF MatchesAt

\* Every step moves on, and none beyond the end of the text (i = next, query_pipeline.go).
LEMMA NextIsAhead ==
  ASSUME NEW text \in Seq(Runes), NEW keys \in Dictionary, NEW i \in 1..Len(text)
  PROVE  NextAt(text, keys, i) \in (i + 1)..(Len(text) + 1)
<1>1. ASSUME NEW key \in keys, KeyStep(text, keys, i, key)
      PROVE  NextAt(text, keys, i) \in (i + 1)..(Len(text) + 1)
  BY <1>1, KeyStands DEF KeyStep
<1>2. ASSUME NEW e, NEW last, WordStep(text, keys, i, e, last)
      PROVE  NextAt(text, keys, i) \in (i + 1)..(Len(text) + 1)
  BY <1>2 DEF WordStep, EndsAt
<1>3. ASSUME HanStep(text, keys, i) \/ SkipStep(text, keys, i)
      PROVE  NextAt(text, keys, i) \in (i + 1)..(Len(text) + 1)
  BY <1>3 DEF HanStep, SkipStep
<1> QED
  BY <1>1, <1>2, <1>3, StepCases

\* g gives the tokens from each position of text on.
IsTokens(g, text, keys) ==
  g = [i \in 1..(Len(text) + 1) |->
         IF i = Len(text) + 1 THEN <<>>
         ELSE TokenAt(text, keys, i) \o g[NextAt(text, keys, i)]]

\* TokensFrom is such a function if there is one.
LEMMA TokensSolve ==
  ASSUME NEW text, NEW keys, NEW g, IsTokens(g, text, keys)
  PROVE  IsTokens(TokensFrom(text, keys), text, keys)
  BY DEF TokensFrom, IsTokens

\* The recursion of the tokenizer has a solution.
LEMMA TokensUnfold ==
  ASSUME NEW text \in Seq(Runes), NEW keys \in Dictionary
  PROVE  /\ TokensFrom(text, keys)[Len(text) + 1] = <<>>
         /\ \A i \in 1..Len(text) :
              TokensFrom(text, keys)[i]
                = TokenAt(text, keys, i) \o TokensFrom(text, keys)[NextAt(text, keys, i)]
<1> DEFINE n == Len(text)
           tok == [i \in 1..n |-> TokenAt(text, keys, i)]
           nxt == [i \in 1..n |-> NextAt(text, keys, i)]
<1>0. n \in Nat
  OBVIOUS
<1>1. \E g : IsWalk(g, 1, n, tok, nxt)
  <2>2. \A i \in 1..n : nxt[i] \in (i + 1)..(n + 1)
    BY NextIsAhead
  <2> HIDE DEF tok, nxt, n
  <2> QED
    BY <1>0, <2>2, WalkExists
<1>2. PICK g : IsWalk(g, 1, n, tok, nxt)
  BY <1>1
<1>3. IsTokens(g, text, keys)
  <2>1. \A i \in 1..n : tok[i] = TokenAt(text, keys, i) /\ nxt[i] = NextAt(text, keys, i)
    OBVIOUS
  <2>3. g = [i \in 1..(n + 1) |-> IF i = n + 1 THEN <<>> ELSE tok[i] \o g[nxt[i]]]
    BY <1>2 DEF IsWalk
  <2>4. \A i \in 1..(n + 1) :
          (IF i = n + 1 THEN <<>> ELSE tok[i] \o g[nxt[i]])
            = (IF i = n + 1 THEN <<>> ELSE TokenAt(text, keys, i) \o g[NextAt(text, keys, i)])
    <3> HIDE DEF tok, nxt
    <3> QED
      BY <2>1, <1>0
  <2> HIDE DEF tok, nxt
  <2> QED
    BY <2>3, <2>4 DEF IsTokens
<1> DEFINE from == TokensFrom(text, keys)
<1>4. IsTokens(from, text, keys)
  BY <1>3, TokensSolve
<1>5. from = [i \in 1..(n + 1) |->
                IF i = n + 1 THEN <<>> ELSE TokenAt(text, keys, i) \o from[NextAt(text, keys, i)]]
  BY <1>4 DEF IsTokens
<1> HIDE DEF from, n
<1>6. from[n + 1] = <<>>
  <2>1. n + 1 \in 1..(n + 1)
    BY <1>0
  <2> QED
    BY <2>1, <1>5
<1>7. ASSUME NEW i \in 1..n
      PROVE  from[i] = TokenAt(text, keys, i) \o from[NextAt(text, keys, i)]
  <2>1. i \in 1..(n + 1) /\ i # n + 1
    BY <1>0
  <2> QED
    BY <2>1, <1>5
<1> QED
  BY <1>6, <1>7 DEF from, n

Token == Seq(Runes) \ {<<>>}
Tokens == Seq(Token)

\* The runes from i to j are a text.
LEMMA SegmentOf ==
  ASSUME NEW text \in Seq(Runes), NEW i \in 1..Len(text), NEW j \in i..Len(text)
  PROVE  /\ SubSeq(text, i, j) \in Seq(Runes) \ {<<>>}
         /\ Len(SubSeq(text, i, j)) = j - i + 1
         /\ \A k \in 1..(j - i + 1) : SubSeq(text, i, j)[k] = text[i + k - 1]
<1>1. \A k \in i..j : text[k] \in Runes
  OBVIOUS
<1>2. i \in Int /\ j \in Int /\ i <= j
  OBVIOUS
<1>3. SubSeq(text, i, j) \in Seq(Runes) /\ Len(SubSeq(text, i, j)) = j - i + 1
      /\ \A k \in 1..(j - i + 1) : SubSeq(text, i, j)[k] = text[i + k - 1]
  BY <1>1, <1>2, SubSeqProperties
<1>4. SubSeq(text, i, j) # <<>>
  BY <1>2, <1>3, EmptySeq
<1> QED
  BY <1>3, <1>4

\* A step yields a token of at least one rune, or none.
LEMMA TokenType ==
  ASSUME NEW text \in Seq(Runes), NEW keys \in Dictionary, NEW i \in 1..Len(text)
  PROVE  TokenAt(text, keys, i) \in Tokens
<1>1. ASSUME NEW key \in keys, KeyStep(text, keys, i, key)
      PROVE  TokenAt(text, keys, i) \in Tokens
  BY <1>1 DEF KeyStep, Tokens, Token, Dictionary
<1>2. ASSUME HanStep(text, keys, i)
      PROVE  TokenAt(text, keys, i) \in Tokens
  <2>1. <<text[i]>> \in Token
    BY DEF Token
  <2> QED
    BY <1>2, <2>1 DEF HanStep, Tokens
<1>3. ASSUME NEW e, NEW last \in i..Len(text), WordStep(text, keys, i, e, last)
      PROVE  TokenAt(text, keys, i) \in Tokens
  <2>1. SubSeq(text, i, last) \in Token
    BY SegmentOf DEF Token
  <2> QED
    BY <1>3, <2>1 DEF WordStep, Tokens
<1>4. ASSUME SkipStep(text, keys, i)
      PROVE  TokenAt(text, keys, i) \in Tokens
  BY <1>4 DEF SkipStep, Tokens
<1> QED
  BY <1>1, <1>2, <1>3, <1>4, StepCases

\* The tokens of a text are texts of at least one rune each.
LEMMA TokensType ==
  ASSUME NEW text \in Seq(Runes), NEW keys \in Dictionary
  PROVE  \A i \in 1..(Len(text) + 1) : TokensFrom(text, keys)[i] \in Tokens
<1> DEFINE from == TokensFrom(text, keys)
           S == {i \in 1..(Len(text) + 1) : from[i] \in Tokens}
<1>0. Len(text) \in Nat
  OBVIOUS
<1>1. Len(text) + 1 \in S
  <2>1. from[Len(text) + 1] = <<>>
    BY TokensUnfold
  <2>2. <<>> \in Tokens
    BY DEF Tokens
  <2>3. Len(text) + 1 \in 1..(Len(text) + 1)
    BY <1>0
  <2> QED
    BY <2>1, <2>2, <2>3
<1>2. ASSUME NEW i \in 1..Len(text), \A j \in (i + 1)..(Len(text) + 1) : j \in S
      PROVE  i \in S
  <2>1. NextAt(text, keys, i) \in S
    BY <1>2, NextIsAhead
  <2>2. from[i] = TokenAt(text, keys, i) \o from[NextAt(text, keys, i)]
    BY TokensUnfold
  <2>3. TokenAt(text, keys, i) \in Tokens
    BY TokenType
  <2>4. from[NextAt(text, keys, i)] \in Tokens
    BY <2>1
  <2>5. from[i] \in Tokens
    <3> HIDE DEF from
    <3> QED
      BY <2>2, <2>3, <2>4 DEF Tokens
  <2>6. i \in 1..(Len(text) + 1)
    BY <1>0
  <2> QED
    BY <2>5, <2>6
<1>3. 1..(Len(text) + 1) \subseteq S
  <2> HIDE DEF S
  <2> QED
    BY <1>0, <1>1, <1>2, Downward
<1> QED
  BY <1>3

\* The tokens of two sequences in a row are those of both.
LEMMA TokenSetOfConcat ==
  ASSUME NEW S, NEW a \in Seq(S), NEW b \in Seq(S)
  PROVE  TokenSet(a \o b) = TokenSet(a) \cup TokenSet(b)
<1>1. DOMAIN (a \o b) = 1..(Len(a) + Len(b)) /\ DOMAIN a = 1..Len(a) /\ DOMAIN b = 1..Len(b)
      /\ Len(a) \in Nat /\ Len(b) \in Nat
  OBVIOUS
<1>2. \A i \in 1..Len(a) : (a \o b)[i] = a[i]
  OBVIOUS
<1>3. \A i \in 1..Len(b) : (a \o b)[Len(a) + i] = b[i]
  OBVIOUS
<1>4. ASSUME NEW x \in TokenSet(a \o b) PROVE x \in TokenSet(a) \cup TokenSet(b)
  <2>1. PICK i \in 1..(Len(a) + Len(b)) : x = (a \o b)[i]
    BY <1>1 DEF TokenSet
  <2>2. CASE i <= Len(a)
    <3>1. i \in 1..Len(a)
      BY <2>2, <1>1
    <3> QED
      BY <2>1, <3>1, <1>1, <1>2 DEF TokenSet
  <2>3. CASE i > Len(a)
    <3>1. i - Len(a) \in 1..Len(b) /\ Len(a) + (i - Len(a)) = i
      BY <2>3, <1>1
    <3> QED
      BY <2>1, <3>1, <1>1, <1>3 DEF TokenSet
  <2> QED
    BY <2>2, <2>3, <1>1
<1>5. ASSUME NEW x \in TokenSet(a) PROVE x \in TokenSet(a \o b)
  <2>1. PICK i \in 1..Len(a) : x = a[i]
    BY <1>1 DEF TokenSet
  <2>2. i \in 1..(Len(a) + Len(b))
    BY <1>1
  <2> QED
    BY <2>1, <2>2, <1>1, <1>2 DEF TokenSet
<1>6. ASSUME NEW x \in TokenSet(b) PROVE x \in TokenSet(a \o b)
  <2>1. PICK i \in 1..Len(b) : x = b[i]
    BY <1>1 DEF TokenSet
  <2>2. Len(a) + i \in 1..(Len(a) + Len(b))
    BY <1>1
  <2> QED
    BY <2>1, <2>2, <1>1, <1>3 DEF TokenSet
<1> QED
  BY <1>4, <1>5, <1>6

\* The tokens from i on: the one of the step, if any, and those from the next position on.
LEMMA TokenSetFrom ==
  ASSUME NEW text \in Seq(Runes), NEW keys \in Dictionary, NEW i \in 1..Len(text)
  PROVE  TokenSet(TokensFrom(text, keys)[i])
           = TokenSet(TokenAt(text, keys, i))
               \cup TokenSet(TokensFrom(text, keys)[NextAt(text, keys, i)])
<1>1. TokenAt(text, keys, i) \in Tokens
  BY TokenType
<1>2. NextAt(text, keys, i) \in 1..(Len(text) + 1)
  BY NextIsAhead
<1>3. TokensFrom(text, keys)[NextAt(text, keys, i)] \in Tokens
  BY <1>2, TokensType
<1>4. TokensFrom(text, keys)[i]
        = TokenAt(text, keys, i) \o TokensFrom(text, keys)[NextAt(text, keys, i)]
  BY TokensUnfold
<1> QED
  BY <1>1, <1>3, <1>4, TokenSetOfConcat DEF Tokens

\* The tokens of a sequence of one or of none.
LEMMA TokenSetOfOne ==
  ASSUME NEW t
  PROVE  TokenSet(<<t>>) = {t} /\ TokenSet(<<>>) = {}
<1>1. DOMAIN <<t>> = {1} /\ <<t>>[1] = t
  OBVIOUS
<1>2. DOMAIN << >> = {}
  OBVIOUS
<1> QED
  BY <1>1, <1>2 DEF TokenSet

\* A word of text stands from p to q.
WordAt(text, p, q) == (p = q /\ text[p] \in Han) \/ IsWord(text, p, q)

\* One rune of a text as a text.
LEMMA OneRune ==
  ASSUME NEW text \in Seq(Runes), NEW i \in 1..Len(text)
  PROVE  SubSeq(text, i, i) = <<text[i]>>
<1>1. i \in i..Len(text) /\ i - i + 1 = 1 /\ i + 1 - 1 = i /\ 1 \in 1..1
  OBVIOUS
<1>2. SubSeq(text, i, i) \in Seq(Runes) /\ Len(SubSeq(text, i, i)) = 1
      /\ SubSeq(text, i, i)[1] = text[i]
  BY <1>1, SegmentOf
<1>3. <<text[i]>> \in Seq(Runes) /\ Len(<<text[i]>>) = 1 /\ <<text[i]>>[1] = text[i]
  OBVIOUS
<1>4. \A k \in 1..Len(SubSeq(text, i, i)) : SubSeq(text, i, i)[k] = <<text[i]>>[k]
  BY <1>2, <1>3
<1> QED
  BY <1>2, <1>3, <1>4, SeqEqual

\* A word of a text stands somewhere in it.
LEMMA WordsMember ==
  ASSUME NEW text \in Seq(Runes), NEW w
  PROVE  w \in Words(text)
           <=> \E p \in 1..Len(text) : \E q \in p..Len(text) :
                 WordAt(text, p, q) /\ w = SubSeq(text, p, q)
<1>1. DOMAIN text = 1..Len(text)
  OBVIOUS
<1>2. ASSUME w \in Words(text)
      PROVE  \E p \in 1..Len(text) : \E q \in p..Len(text) :
               WordAt(text, p, q) /\ w = SubSeq(text, p, q)
  <2>1. ASSUME NEW i \in 1..Len(text), text[i] \in Han, w = <<text[i]>>
        PROVE  \E p \in 1..Len(text) : \E q \in p..Len(text) :
                 WordAt(text, p, q) /\ w = SubSeq(text, p, q)
    <3>1. WordAt(text, i, i) /\ w = SubSeq(text, i, i)
      BY <2>1, OneRune DEF WordAt
    <3>2. i \in i..Len(text)
      OBVIOUS
    <3> QED
      BY <3>1, <3>2
  <2>2. ASSUME NEW x \in (1..Len(text)) \X (1..Len(text)),
               x[1] <= x[2], IsWord(text, x[1], x[2]), w = SubSeq(text, x[1], x[2])
        PROVE  \E p \in 1..Len(text) : \E q \in p..Len(text) :
                 WordAt(text, p, q) /\ w = SubSeq(text, p, q)
    <3>1. x[1] \in 1..Len(text) /\ x[2] \in x[1]..Len(text)
      BY <2>2
    <3> QED
      BY <3>1, <2>2 DEF WordAt
  <2>3. \/ \E i \in 1..Len(text) : text[i] \in Han /\ w = <<text[i]>>
        \/ \E x \in (1..Len(text)) \X (1..Len(text)) :
             x[1] <= x[2] /\ IsWord(text, x[1], x[2]) /\ w = SubSeq(text, x[1], x[2])
    BY <1>1, <1>2 DEF Words
  <2> QED
    BY <2>1, <2>2, <2>3
<1>3. ASSUME NEW p \in 1..Len(text), NEW q \in p..Len(text), WordAt(text, p, q)
      PROVE  SubSeq(text, p, q) \in Words(text)
  <2>1. CASE p = q /\ text[p] \in Han
    <3>1. SubSeq(text, p, q) = <<text[p]>>
      BY <2>1, OneRune
    <3> QED
      BY <2>1, <3>1, <1>1 DEF Words
  <2>2. CASE IsWord(text, p, q)
    <3> DEFINE x == <<p, q>>
    <3>1. x \in (1..Len(text)) \X (1..Len(text)) /\ x[1] = p /\ x[2] = q /\ p <= q
      OBVIOUS
    <3> HIDE DEF x
    <3>2. x \in {y \in (1..Len(text)) \X (1..Len(text)) : y[1] <= y[2] /\ IsWord(text, y[1], y[2])}
      BY <3>1, <2>2
    <3>3. SubSeq(text, x[1], x[2]) \in Words(text)
      BY <3>2 DEF Words
    <3> QED
      BY <3>1, <3>3
  <2> QED
    BY <2>1, <2>2, <1>3 DEF WordAt
<1> QED
  BY <1>2, <1>3

\* The place i is not within a word that begins before it, j not in one that goes on after it.
CleanStart(text, i) ==
  i <= Len(text) /\ IsSearchWordRune(text[i]) =>
    \A k \in 1..(i - 1) : AllWord(text, k, i - 1) => text[k] \notin Letters

CleanEnd(text, j) ==
  IsSearchWordRune(text[j]) =>
    \A k \in (j + 1)..Len(text) : AllWord(text, j + 1, k) => text[k] \in Trailing

\* Between such places the words are those of the whole text.
LEMMA SegmentPlaces ==
  ASSUME NEW text \in Seq(Runes), NEW i \in 1..Len(text), NEW j \in i..Len(text),
         CleanStart(text, i), CleanEnd(text, j),
         NEW p \in i..j, NEW q \in p..j
  PROVE  WordAt(SubSeq(text, i, j), p - i + 1, q - i + 1) <=> WordAt(text, p, q)
<1> DEFINE s == SubSeq(text, i, j)
           a == i - 1
<1>0. a \in Nat /\ i = a + 1 /\ j \in Nat /\ p \in Nat /\ q \in Nat /\ Len(text) \in Nat
      /\ i <= j /\ j <= Len(text) /\ i <= p /\ p <= q /\ q <= j
  OBVIOUS
<1>1. Len(s) = j - a /\ \A k \in 1..(j - a) : s[k] = text[a + k]
  BY SegmentOf, <1>0
<1>2. \A k \in i..j : k - a \in 1..(j - a) /\ s[k - a] = text[k]
  <2> SUFFICES ASSUME NEW k \in i..j PROVE k - a \in 1..(j - a) /\ s[k - a] = text[k]
    OBVIOUS
  <2> HIDE DEF s, a
  <2>1. k - a \in 1..(j - a) /\ a + (k - a) = k
    BY <1>0
  <2> QED
    BY <1>1, <2>1
<1>12. \A k \in 1..(j - a) : s[k] = text[k + a]
  <2> SUFFICES ASSUME NEW k \in 1..(j - a) PROVE s[k] = text[k + a]
    OBVIOUS
  <2> HIDE DEF s, a
  <2>1. a + k = k + a
    BY <1>0
  <2> QED
    BY <1>1, <2>1
<1>3. p - i + 1 = p - a /\ q - i + 1 = q - a
  BY <1>0
<1> HIDE DEF s, a
<1>4. s[p - a] = text[p] /\ s[q - a] = text[q]
  <2>1. p \in i..j /\ q \in i..j
    BY <1>0
  <2> QED
    BY <1>2, <2>1
<1>5. ASSUME NEW u \in i..(j + 1), NEW v \in (i - 1)..j
      PROVE  AllWord(s, u - a, v - a) <=> AllWord(text, u, v)
  <2>1. ASSUME AllWord(s, u - a, v - a), NEW k \in u..v PROVE IsSearchWordRune(text[k])
    <3>1. k - a \in (u - a)..(v - a) /\ k \in i..j
      BY <1>0
    <3> QED
      BY <3>1, <2>1, <1>2 DEF AllWord
  <2>2. ASSUME AllWord(text, u, v), NEW k \in (u - a)..(v - a) PROVE IsSearchWordRune(s[k])
    <3>1. k + a \in u..v /\ k \in 1..(j - a)
      BY <1>0
    <3> QED
      BY <3>1, <1>12, <2>2 DEF AllWord
  <2> QED
    BY <2>1, <2>2 DEF AllWord
<1>13. ASSUME NEW u \in 1..(j - a + 1), NEW v \in 0..(j - a)
       PROVE  AllWord(s, u, v) <=> AllWord(text, u + a, v + a)
  <2> DEFINE x == u + a
             y == v + a
  <2>1. x \in i..(j + 1) /\ y \in (i - 1)..j /\ x - a = u /\ y - a = v
    BY <1>0
  <2> HIDE DEF x, y
  <2>2. AllWord(s, x - a, y - a) <=> AllWord(text, x, y)
    BY <2>1, <1>5
  <2>3. AllWord(s, u, v) <=> AllWord(text, x, y)
    BY <2>1, <2>2
  <2> QED
    BY <2>3 DEF x, y
<1>6. AllWord(s, p - a, q - a) <=> AllWord(text, p, q)
  <2>1. p \in i..(j + 1) /\ q \in (i - 1)..j
    BY <1>0
  <2> QED
    BY <2>1, <1>5
<1>7. ASSUME AllWord(text, p, q), text[p] \in Letters
      PROVE  (\A k \in 1..(p - a - 1) : AllWord(s, k, p - a - 1) => s[k] \notin Letters)
               <=> (\A k \in 1..(p - 1) : AllWord(text, k, p - 1) => text[k] \notin Letters)
  <2>1. ASSUME \A k \in 1..(p - a - 1) : AllWord(s, k, p - a - 1) => s[k] \notin Letters,
               NEW k \in 1..(p - 1), AllWord(text, k, p - 1)
        PROVE  text[k] \notin Letters
    <3>1. CASE k >= i
      <4>1. k - a \in 1..(p - a - 1) /\ k \in i..j /\ k \in i..(j + 1) /\ p - 1 \in (i - 1)..j
            /\ p - a - 1 = p - 1 - a
        BY <3>1, <1>0
      <4>2. AllWord(s, k - a, p - a - 1)
        BY <4>1, <2>1, <1>5
      <4> QED
        BY <4>1, <4>2, <2>1, <1>2
    <3>2. CASE k < i
      <4>1. AllWord(text, k, i - 1)
        BY <2>1, <1>0 DEF AllWord
      <4>2. IsSearchWordRune(text[i])
        <5>1. CASE p = i
          BY <5>1, <1>7 DEF IsSearchWordRune
        <5>2. CASE p # i
          <6>1. i \in k..(p - 1)
            BY <5>2, <3>2, <1>0
          <6> QED
            BY <6>1, <2>1 DEF AllWord
        <5> QED
          BY <5>1, <5>2
      <4>3. k \in 1..(i - 1) /\ i <= Len(text)
        BY <3>2, <1>0
      <4> QED
        BY <4>1, <4>2, <4>3 DEF CleanStart
    <3> QED
      BY <3>1, <3>2, <1>0
  <2>2. ASSUME \A k \in 1..(p - 1) : AllWord(text, k, p - 1) => text[k] \notin Letters,
               NEW k \in 1..(p - a - 1), AllWord(s, k, p - a - 1)
        PROVE  s[k] \notin Letters
    <3>1. k + a \in 1..(p - 1) /\ k \in 1..(j - a) /\ k \in 1..(j - a + 1)
          /\ p - a - 1 \in 0..(j - a) /\ p - a - 1 + a = p - 1
      BY <1>0
    <3>2. AllWord(text, k + a, p - 1)
      <4>1. AllWord(text, k + a, p - a - 1 + a)
        BY <3>1, <2>2, <1>13
      <4> QED
        BY <3>1, <4>1
    <3> QED
      BY <3>1, <3>2, <2>2, <1>12
  <2> QED
    BY <2>1, <2>2
<1>8. ASSUME AllWord(text, p, q)
      PROVE  (\A k \in (q - a + 1)..Len(s) : AllWord(s, q - a + 1, k) => s[k] \in Trailing)
               <=> (\A k \in (q + 1)..Len(text) : AllWord(text, q + 1, k) => text[k] \in Trailing)
  <2>1. ASSUME \A k \in (q - a + 1)..Len(s) : AllWord(s, q - a + 1, k) => s[k] \in Trailing,
               NEW k \in (q + 1)..Len(text), AllWord(text, q + 1, k)
        PROVE  text[k] \in Trailing
    <3>1. CASE k <= j
      <4>1. k - a \in (q - a + 1)..Len(s) /\ k \in i..j
            /\ q - a + 1 \in 1..(j - a + 1) /\ k - a \in 0..(j - a)
            /\ q - a + 1 + a = q + 1 /\ k - a + a = k
        BY <3>1, <1>0, <1>1
      <4>2. AllWord(text, q - a + 1 + a, k - a + a)
        BY <4>1, <2>1
      <4>3. AllWord(s, q - a + 1, k - a)
        BY <4>1, <4>2, <1>13
      <4> QED
        BY <4>1, <4>3, <2>1, <1>2
    <3>2. CASE k > j
      <4>1. AllWord(text, j + 1, k)
        BY <2>1, <1>0 DEF AllWord
      <4>2. IsSearchWordRune(text[j])
        <5>1. CASE q = j
          <6>1. j \in p..q
            BY <5>1, <1>0
          <6> QED
            BY <6>1, <1>8 DEF AllWord
        <5>2. CASE q # j
          <6>1. j \in (q + 1)..k
            BY <5>2, <3>2, <1>0
          <6> QED
            BY <6>1, <2>1 DEF AllWord
        <5> QED
          BY <5>1, <5>2
      <4>3. k \in (j + 1)..Len(text)
        BY <3>2, <1>0
      <4> QED
        BY <4>1, <4>2, <4>3 DEF CleanEnd
    <3> QED
      BY <3>1, <3>2, <1>0
  <2>2. ASSUME \A k \in (q + 1)..Len(text) : AllWord(text, q + 1, k) => text[k] \in Trailing,
               NEW k \in (q - a + 1)..Len(s), AllWord(s, q - a + 1, k)
        PROVE  s[k] \in Trailing
    <3>1. k + a \in (q + 1)..Len(text) /\ k \in 1..(j - a)
          /\ q - a + 1 \in 1..(j - a + 1) /\ k \in 0..(j - a) /\ q - a + 1 + a = q + 1
      BY <1>0, <1>1
    <3>2. AllWord(text, q + 1, k + a)
      <4>1. AllWord(text, q - a + 1 + a, k + a)
        BY <3>1, <2>2, <1>13
      <4> QED
        BY <3>1, <4>1
    <3> QED
      BY <3>1, <3>2, <2>2, <1>12
  <2> QED
    BY <2>1, <2>2
<1>9. IsWord(s, p - a, q - a) <=> IsWord(text, p, q)
  BY <1>4, <1>6, <1>7, <1>8 DEF IsWord
<1>10. p - a = q - a <=> p = q
  BY <1>0
<1>11. WordAt(s, p - a, q - a) <=> WordAt(text, p, q)
  BY <1>4, <1>9, <1>10 DEF WordAt
<1> QED
  BY <1>3, <1>11 DEF s

\* The words of a segment between clean places are the words of the text that stand in it.
LEMMA SegmentWords ==
  ASSUME NEW text \in Seq(Runes), NEW i \in 1..Len(text), NEW j \in i..Len(text),
         CleanStart(text, i), CleanEnd(text, j), NEW w
  PROVE  w \in Words(SubSeq(text, i, j))
           <=> \E p \in i..j : \E q \in p..j : WordAt(text, p, q) /\ w = SubSeq(text, p, q)
<1> DEFINE s == SubSeq(text, i, j)
<1>0. i \in Nat /\ j \in Nat /\ 1 <= i /\ i <= j /\ j <= Len(text) /\ Len(text) \in Nat
  OBVIOUS
<1>1. s \in Seq(Runes) /\ Len(s) = j - i + 1
  BY SegmentOf
<1>2. ASSUME NEW p \in i..j, NEW q \in p..j
      PROVE  /\ SubSeq(s, p - i + 1, q - i + 1) = SubSeq(text, p, q)
             /\ WordAt(s, p - i + 1, q - i + 1) <=> WordAt(text, p, q)
  <2>1. p - i + 1 \in 1..(j - i + 1) /\ q - i + 1 \in 1..(j - i + 1)
        /\ i + (p - i + 1) - 1 = p /\ i + (q - i + 1) - 1 = q /\ j \in 1..Len(text)
    BY <1>0
  <2> DEFINE a == p - i + 1
             b == q - i + 1
  <2>2. SubSeq(s, a, b) = SubSeq(text, p, q)
    <3>1. a \in 1..(j - i + 1) /\ b \in 1..(j - i + 1) /\ i + a - 1 = p /\ i + b - 1 = q
      BY <2>1
    <3> HIDE DEF a, b
    <3>2. SubSeq(SubSeq(text, i, j), a, b) = SubSeq(text, i + a - 1, i + b - 1)
      BY <2>1, <3>1, SubSeqOfSubSeq
    <3> QED
      BY <3>1, <3>2
  <2>3. WordAt(s, a, b) <=> WordAt(text, p, q)
    BY SegmentPlaces
  <2> QED
    BY <2>2, <2>3
<1>3. ASSUME w \in Words(s)
      PROVE  \E p \in i..j : \E q \in p..j : WordAt(text, p, q) /\ w = SubSeq(text, p, q)
  <2>1. PICK a \in 1..Len(s) : \E b \in a..Len(s) : WordAt(s, a, b) /\ w = SubSeq(s, a, b)
    <3> HIDE DEF s
    <3> QED
      BY <1>1, <1>3, WordsMember
  <2>2. PICK b \in a..Len(s) : WordAt(s, a, b) /\ w = SubSeq(s, a, b)
    BY <2>1
  <2> DEFINE p == a + i - 1
             q == b + i - 1
  <2>3. p \in i..j /\ q \in p..j /\ p - i + 1 = a /\ q - i + 1 = b
    BY <1>0, <1>1
  <2> HIDE DEF p, q, s
  <2>4. SubSeq(s, p - i + 1, q - i + 1) = SubSeq(text, p, q)
        /\ (WordAt(s, p - i + 1, q - i + 1) <=> WordAt(text, p, q))
    BY <2>3, <1>2
  <2>5. WordAt(text, p, q) /\ w = SubSeq(text, p, q)
    BY <2>2, <2>3, <2>4
  <2> QED
    BY <2>3, <2>5
<1>4. ASSUME NEW p \in i..j, NEW q \in p..j, WordAt(text, p, q)
      PROVE  SubSeq(text, p, q) \in Words(s)
  <2> DEFINE a == p - i + 1
             b == q - i + 1
  <2>1. a \in 1..Len(s) /\ b \in a..Len(s)
    BY <1>0, <1>1
  <2>2. WordAt(s, a, b) /\ SubSeq(s, a, b) = SubSeq(text, p, q)
    BY <1>2, <1>4
  <2> HIDE DEF a, b, s
  <2> QED
    BY <1>1, <2>1, <2>2, WordsMember
<1> QED
  BY <1>3, <1>4

\* A place where no word goes on.
LEMMA Boundary ==
  ASSUME NEW text \in Seq(Runes), NEW j \in 1..Len(text),
         text[j] \in Han \/ j = Len(text) \/ ~IsSearchWordRune(text[j + 1])
  PROVE  /\ CleanEnd(text, j) /\ CleanStart(text, j + 1)
         /\ \A p \in 1..j : \A q \in p..Len(text) : WordAt(text, p, q) => q <= j
<1>0. j \in Nat /\ Len(text) \in Nat /\ j + 1 - 1 = j
  OBVIOUS
<1>1. text[j] \in Han => ~IsSearchWordRune(text[j])
  BY ClassesAssumption DEF IsSearchWordRune
<1>2. CleanEnd(text, j)
  <2> SUFFICES ASSUME IsSearchWordRune(text[j]), NEW k \in (j + 1)..Len(text),
                      AllWord(text, j + 1, k)
               PROVE  FALSE
    BY DEF CleanEnd
  <2>1. j # Len(text) /\ j + 1 \in (j + 1)..k
    BY <1>0
  <2>2. IsSearchWordRune(text[j + 1])
    BY <2>1 DEF AllWord
  <2> QED
    BY <1>1, <2>1, <2>2
<1>3. CleanStart(text, j + 1)
  <2> SUFFICES ASSUME j + 1 <= Len(text), IsSearchWordRune(text[j + 1]), NEW k \in 1..j,
                      AllWord(text, k, j)
               PROVE  FALSE
    BY <1>0 DEF CleanStart
  <2>1. j # Len(text) /\ j \in k..j
    BY <1>0
  <2>2. IsSearchWordRune(text[j])
    BY <2>1 DEF AllWord
  <2> QED
    BY <1>1, <2>1, <2>2
<1>4. ASSUME NEW p \in 1..j, NEW q \in p..Len(text), WordAt(text, p, q), ~(q <= j)
      PROVE  FALSE
  <2>1. p # q /\ j \in p..q /\ j + 1 \in p..q /\ j # Len(text)
    BY <1>0, <1>4
  <2>2. AllWord(text, p, q)
    BY <1>4, <2>1 DEF WordAt, IsWord
  <2>3. IsSearchWordRune(text[j]) /\ IsSearchWordRune(text[j + 1])
    BY <2>1, <2>2 DEF AllWord
  <2> QED
    BY <1>1, <2>1, <2>3
<1> QED
  BY <1>2, <1>3, <1>4

\* The token of a step, its place, and where the next step begins.
LEMMA KeyPlace ==
  ASSUME NEW text \in Seq(Runes), NEW keys \in Dictionary, NEW i \in 1..Len(text),
         NEW key \in keys, KeyStep(text, keys, i, key)
  PROVE  \E j \in i..Len(text) :
           /\ key = SubSeq(text, i, j)
           /\ NextAt(text, keys, i) = j + 1
           /\ CleanEnd(text, j) /\ CleanStart(text, j + 1)
           /\ \A p \in i..j : \A q \in p..Len(text) : WordAt(text, p, q) => q <= j
<1> DEFINE j == i + Len(key) - 1
<1>1. /\ Len(key) \in 1..(Len(text) + 1 - i)
      /\ key = SubSeq(text, i, i + Len(key) - 1)
      /\ \/ text[i + Len(key) - 1] \in Han
         \/ i + Len(key) = Len(text) + 1
         \/ ~IsSearchWordRune(text[i + Len(key)])
  BY KeyStands DEF KeyStep
<1>2. j \in i..Len(text) /\ j \in 1..Len(text) /\ i + Len(key) = j + 1
  BY <1>1
<1>3. text[j] \in Han \/ j = Len(text) \/ ~IsSearchWordRune(text[j + 1])
  BY <1>1, <1>2
<1>4. key = SubSeq(text, i, j) /\ NextAt(text, keys, i) = j + 1
  BY <1>1, <1>2 DEF KeyStep
<1> HIDE DEF j
<1>5. /\ CleanEnd(text, j) /\ CleanStart(text, j + 1)
      /\ \A p \in 1..j : \A q \in p..Len(text) : WordAt(text, p, q) => q <= j
  BY <1>2, <1>3, Boundary
<1>6. \A p \in i..j : p \in 1..j
  OBVIOUS
<1> QED
  BY <1>2, <1>4, <1>5, <1>6

\* A Han rune is a word, and none goes on over it.
LEMMA HanPlace ==
  ASSUME NEW text \in Seq(Runes), NEW i \in 1..Len(text), text[i] \in Han
  PROVE  /\ CleanStart(text, i) /\ CleanEnd(text, i) /\ CleanStart(text, i + 1)
         /\ \A q \in i..Len(text) : WordAt(text, i, q) <=> q = i
<1>0. i \in Nat /\ Len(text) \in Nat
  OBVIOUS
<1>1. ~IsSearchWordRune(text[i]) /\ text[i] \notin Letters
  BY ClassesAssumption DEF IsSearchWordRune
<1>2. CleanStart(text, i) /\ CleanEnd(text, i)
  BY <1>1 DEF CleanStart, CleanEnd
<1>3. CleanStart(text, i + 1)
  <2> SUFFICES ASSUME NEW k \in 1..(i + 1 - 1), AllWord(text, k, i + 1 - 1)
               PROVE  FALSE
    BY DEF CleanStart
  <2>1. i \in k..(i + 1 - 1)
    BY <1>0
  <2> QED
    BY <1>1, <2>1 DEF AllWord
<1>4. \A q \in i..Len(text) : WordAt(text, i, q) <=> q = i
  BY <1>1 DEF WordAt, IsWord
<1> QED
  BY <1>2, <1>3, <1>4

\* The word that begins at i and its token.
LEMMA WordPlace ==
  ASSUME NEW text \in Seq(Runes), NEW i \in 1..Len(text), CleanStart(text, i),
         text[i] \in Letters,
         NEW e, EndsAt(text, i, e), NEW last \in i..Len(text), TrimmedAt(text, i, e, last)
  PROVE  /\ CleanEnd(text, last) /\ CleanStart(text, e)
         /\ \A p \in i..(e - 1) : \A q \in p..Len(text) :
              WordAt(text, p, q) <=> p = i /\ q = last
<1>0. /\ i \in Nat /\ Len(text) \in Nat /\ e \in (i + 1)..(Len(text) + 1) /\ e \in Nat
      /\ last \in i..(e - 1) /\ last \in Nat /\ text[last] \notin Trailing
  BY DEF EndsAt, TrimmedAt
<1>1. \A k \in i..(e - 1) : IsSearchWordRune(text[k])
  <2> SUFFICES ASSUME NEW k \in i..(e - 1) PROVE IsSearchWordRune(text[k])
    OBVIOUS
  <2>1. k = i \/ k \in (i + 1)..(e - 1)
    BY <1>0
  <2> QED
    BY <2>1 DEF EndsAt, IsSearchWordRune
<1>2. \A k \in (last + 1)..(e - 1) : text[k] \in Trailing
  BY DEF TrimmedAt
<1>3. e <= Len(text) => ~IsSearchWordRune(text[e])
  BY DEF EndsAt
<1>4. CleanStart(text, e)
  BY <1>3 DEF CleanStart
<1>5. \A k \in 1..(i - 1) : AllWord(text, k, i - 1) => text[k] \notin Letters
  <2>1. i <= Len(text) /\ IsSearchWordRune(text[i])
    BY <1>0 DEF IsSearchWordRune
  <2> QED
    BY <2>1 DEF CleanStart
<1>6. ASSUME NEW k \in (last + 1)..Len(text), AllWord(text, last + 1, k)
      PROVE  text[k] \in Trailing
  <2>1. CASE k < e
    <3>1. k \in (last + 1)..(e - 1)
      BY <2>1, <1>0
    <3> QED
      BY <3>1, <1>2
  <2>2. CASE k >= e
    <3>1. e \in (last + 1)..k /\ e <= Len(text)
      BY <2>2, <1>0
    <3> QED
      BY <3>1, <1>3, <1>6 DEF AllWord
  <2> QED
    BY <2>1, <2>2, <1>0
<1>7. CleanEnd(text, last)
  BY <1>6 DEF CleanEnd
<1>8. WordAt(text, i, last)
  <2>1. AllWord(text, i, last)
    <3> SUFFICES ASSUME NEW k \in i..last PROVE IsSearchWordRune(text[k])
      BY DEF AllWord
    <3>1. k \in i..(e - 1)
      BY <1>0
    <3> QED
      BY <3>1, <1>1
  <2> QED
    BY <2>1, <1>0, <1>5, <1>6 DEF WordAt, IsWord
<1>9. ASSUME NEW p \in i..(e - 1), NEW q \in p..Len(text), WordAt(text, p, q)
      PROVE  p = i /\ q = last
  <2>0. p \in Nat /\ q \in Nat /\ p <= q /\ q <= Len(text)
    BY <1>0
  <2>1. text[p] \notin Han
    BY <1>1, ClassesAssumption DEF IsSearchWordRune
  <2>2. IsWord(text, p, q)
    BY <1>9, <2>1 DEF WordAt
  <2>3. p = i
    <3> SUFFICES ASSUME p # i PROVE FALSE
      OBVIOUS
    <3>1. i \in 1..(p - 1)
      BY <1>0
    <3>2. AllWord(text, i, p - 1)
      <4> SUFFICES ASSUME NEW k \in i..(p - 1) PROVE IsSearchWordRune(text[k])
        BY DEF AllWord
      <4>1. k \in i..(e - 1)
        BY <1>0
      <4> QED
        BY <4>1, <1>1
    <3> QED
      BY <3>1, <3>2, <2>2 DEF IsWord
  <2>4. q < e
    <3> SUFFICES ASSUME ~(q < e) PROVE FALSE
      OBVIOUS
    <3>1. e \in p..q /\ e <= Len(text)
      BY <1>0, <2>0
    <3> QED
      BY <3>1, <2>2, <1>3 DEF IsWord, AllWord
  <2>5. q <= last
    <3> SUFFICES ASSUME ~(q <= last) PROVE FALSE
      OBVIOUS
    <3>1. q \in (last + 1)..(e - 1)
      BY <1>0, <2>0, <2>4
    <3> QED
      BY <3>1, <1>2, <2>2 DEF IsWord
  <2>6. q >= last
    <3> SUFFICES ASSUME ~(q >= last) PROVE FALSE
      OBVIOUS
    <3>1. last \in (q + 1)..Len(text)
      BY <1>0, <2>0
    <3>2. AllWord(text, q + 1, last)
      <4> SUFFICES ASSUME NEW k \in (q + 1)..last PROVE IsSearchWordRune(text[k])
        BY DEF AllWord
      <4>1. k \in i..(e - 1)
        BY <1>0, <2>0, <2>3
      <4> QED
        BY <4>1, <1>1
    <3> QED
      BY <3>1, <3>2, <1>0, <2>2 DEF IsWord
  <2> QED
    BY <1>0, <2>0, <2>3, <2>5, <2>6
<1>10. ASSUME NEW p \in i..(e - 1), NEW q \in p..Len(text), p = i, q = last
       PROVE  WordAt(text, p, q)
  BY <1>8, <1>10
<1> QED
  BY <1>4, <1>7, <1>9, <1>10

\* A rune that is no Han rune and no letter begins no word.
LEMMA SkipPlace ==
  ASSUME NEW text \in Seq(Runes), NEW i \in 1..Len(text), CleanStart(text, i),
         text[i] \notin Han \cup Letters
  PROVE  /\ CleanStart(text, i + 1)
         /\ \A q \in i..Len(text) : ~WordAt(text, i, q)
<1>0. i \in Nat /\ Len(text) \in Nat
  OBVIOUS
<1>1. CleanStart(text, i + 1)
  <2> SUFFICES ASSUME NEW k \in 1..(i + 1 - 1), AllWord(text, k, i + 1 - 1)
               PROVE  text[k] \notin Letters
    BY DEF CleanStart
  <2>1. CASE k = i
    BY <2>1
  <2>2. CASE k # i
    <3>1. k \in 1..(i - 1) /\ i <= Len(text) /\ i \in k..(i + 1 - 1) /\ i + 1 - 1 = i
      BY <2>2, <1>0
    <3>2. IsSearchWordRune(text[i])
      BY <3>1 DEF AllWord
    <3>3. AllWord(text, k, i - 1)
      BY <1>0 DEF AllWord
    <3> QED
      BY <3>1, <3>2, <3>3 DEF CleanStart
  <2> QED
    BY <2>1, <2>2
<1>2. \A q \in i..Len(text) : ~WordAt(text, i, q)
  BY DEF WordAt, IsWord
<1> QED
  BY <1>1, <1>2

\* Tokens that are words of text, or keys made of its words.
Sound(text, keys, tokens) ==
  \A t \in tokens : Words(t) \subseteq Words(text) /\ (t \in keys \/ Words(t) = {t})

\* The words that begin in i..j are words of these tokens.
Covers(text, i, j, tokens) ==
  \A p \in i..j : \A q \in p..Len(text) :
    WordAt(text, p, q) => \E t \in tokens : SubSeq(text, p, q) \in Words(t)

\* The words of the text from i to j, both clean.
LEMMA SegmentSound ==
  ASSUME NEW text \in Seq(Runes), NEW i \in 1..Len(text), NEW j \in i..Len(text),
         CleanStart(text, i), CleanEnd(text, j)
  PROVE  Words(SubSeq(text, i, j)) \subseteq Words(text)
<1> SUFFICES ASSUME NEW w \in Words(SubSeq(text, i, j)) PROVE w \in Words(text)
  OBVIOUS
<1>1. PICK p \in i..j : \E q \in p..j : WordAt(text, p, q) /\ w = SubSeq(text, p, q)
  BY SegmentWords
<1>2. PICK q \in p..j : WordAt(text, p, q) /\ w = SubSeq(text, p, q)
  BY <1>1
<1>3. p \in 1..Len(text) /\ q \in p..Len(text)
  OBVIOUS
<1> QED
  BY <1>2, <1>3, WordsMember

\* One step of the tokenizer, from a clean place.
LEMMA StepSound ==
  ASSUME NEW text \in Seq(Runes), NEW keys \in Dictionary, NEW i \in 1..Len(text),
         CleanStart(text, i)
  PROVE  /\ CleanStart(text, NextAt(text, keys, i))
         /\ Sound(text, keys, TokenSet(TokenAt(text, keys, i)))
         /\ Covers(text, i, NextAt(text, keys, i) - 1, TokenSet(TokenAt(text, keys, i)))
<1> DEFINE Goal == /\ CleanStart(text, NextAt(text, keys, i))
                   /\ Sound(text, keys, TokenSet(TokenAt(text, keys, i)))
                   /\ Covers(text, i, NextAt(text, keys, i) - 1, TokenSet(TokenAt(text, keys, i)))
<1>0. i \in Nat /\ Len(text) \in Nat
  OBVIOUS
<1>1. ASSUME NEW key \in keys, KeyStep(text, keys, i, key)
      PROVE  Goal
  <2>1. PICK j \in i..Len(text) :
          /\ key = SubSeq(text, i, j)
          /\ NextAt(text, keys, i) = j + 1
          /\ CleanEnd(text, j) /\ CleanStart(text, j + 1)
          /\ \A p \in i..j : \A q \in p..Len(text) : WordAt(text, p, q) => q <= j
    BY <1>1, KeyPlace
  <2>2. TokenSet(TokenAt(text, keys, i)) = {key}
    BY <1>1, TokenSetOfOne DEF KeyStep
  <2>3. Sound(text, keys, {key})
    BY <2>1, SegmentSound DEF Sound
  <2>4. Covers(text, i, j, {key})
    <3> SUFFICES ASSUME NEW p \in i..j, NEW q \in p..Len(text), WordAt(text, p, q)
                 PROVE  SubSeq(text, p, q) \in Words(key)
      BY DEF Covers
    <3>1. q \in p..j
      BY <2>1
    <3> QED
      BY <2>1, <3>1, SegmentWords
  <2>5. j + 1 - 1 = j
    BY <1>0
  <2> QED
    BY <2>1, <2>2, <2>3, <2>4, <2>5
<1>2. ASSUME HanStep(text, keys, i)
      PROVE  Goal
  <2> DEFINE w == <<text[i]>>
  <2>1. text[i] \in Han
    BY <1>2 DEF HanStep
  <2>2. /\ CleanStart(text, i) /\ CleanEnd(text, i) /\ CleanStart(text, i + 1)
        /\ \A q \in i..Len(text) : WordAt(text, i, q) <=> q = i
    BY <2>1, HanPlace
  <2>3. TokenSet(TokenAt(text, keys, i)) = {w} /\ NextAt(text, keys, i) = i + 1
    BY <1>2, TokenSetOfOne DEF HanStep
  <2>4. w = SubSeq(text, i, i) /\ i \in i..Len(text)
    BY OneRune
  <2> HIDE DEF w
  <2>5. ASSUME NEW x PROVE x \in Words(w) <=> x = w
    <3>0. PICK j \in i..Len(text) : j = i
      BY <2>4
    <3>1. x \in Words(w) <=> \E p \in i..j : \E q \in p..j : WordAt(text, p, q) /\ x = SubSeq(text, p, q)
      <4>1. CleanEnd(text, j) /\ w = SubSeq(text, i, j)
        BY <2>2, <2>4, <3>0
      <4> QED
        BY <4>1, SegmentWords
    <3>2. \A p \in i..j : p = i /\ i \in i..j
      BY <1>0, <3>0
    <3> QED
      BY <3>0, <3>1, <3>2, <2>2, <2>4
  <2>6. Words(w) = {w}
    BY <2>5
  <2>7. Sound(text, keys, {w})
    BY <2>2, <2>4, <2>6, SegmentSound DEF Sound
  <2>8. Covers(text, i, i + 1 - 1, {w})
    <3> SUFFICES ASSUME NEW p \in i..(i + 1 - 1), NEW q \in p..Len(text), WordAt(text, p, q)
                 PROVE  SubSeq(text, p, q) \in Words(w)
      BY DEF Covers
    <3>1. p = i
      BY <1>0
    <3> QED
      BY <3>1, <2>2, <2>4, <2>6
  <2> QED
    BY <2>2, <2>3, <2>7, <2>8
<1>3. ASSUME NEW e, NEW last \in i..Len(text), WordStep(text, keys, i, e, last)
      PROVE  Goal
  <2> DEFINE w == SubSeq(text, i, last)
  <2>1. text[i] \in Letters /\ EndsAt(text, i, e) /\ TrimmedAt(text, i, e, last)
        /\ TokenAt(text, keys, i) = <<w>> /\ NextAt(text, keys, i) = e
    BY <1>3 DEF WordStep
  <2>2. /\ CleanEnd(text, last) /\ CleanStart(text, e)
        /\ \A p \in i..(e - 1) : \A q \in p..Len(text) : WordAt(text, p, q) <=> p = i /\ q = last
    BY <2>1, WordPlace
  <2>3. TokenSet(TokenAt(text, keys, i)) = {w}
    BY <2>1, TokenSetOfOne
  <2>4. e \in (i + 1)..(Len(text) + 1) /\ last \in i..(e - 1) /\ i \in i..last /\ last \in i..last
    BY <2>1 DEF EndsAt, TrimmedAt
  <2>5. ASSUME NEW x PROVE x \in Words(w) <=> x = w
    <3>1. x \in Words(w)
            <=> \E p \in i..last : \E q \in p..last : WordAt(text, p, q) /\ x = SubSeq(text, p, q)
      BY <2>2, SegmentWords
    <3>2. \A p \in i..last : \A q \in p..last : p \in i..(e - 1) /\ q \in p..Len(text)
      BY <2>4
    <3> QED
      BY <3>1, <3>2, <2>2, <2>4
  <2>6. Words(w) = {w}
    <3> HIDE DEF w
    <3> QED
      BY <2>5
  <2>7. Sound(text, keys, {w})
    BY <2>2, <2>6, SegmentSound DEF Sound
  <2>8. Covers(text, i, e - 1, {w})
    BY <2>2, <2>6 DEF Covers
  <2> QED
    BY <2>1, <2>2, <2>3, <2>7, <2>8
<1>4. ASSUME SkipStep(text, keys, i)
      PROVE  Goal
  <2>1. text[i] \notin Han \cup Letters /\ NextAt(text, keys, i) = i + 1
        /\ TokenSet(TokenAt(text, keys, i)) = {}
    BY <1>4, TokenSetOfOne DEF SkipStep
  <2>2. CleanStart(text, i + 1) /\ \A q \in i..Len(text) : ~WordAt(text, i, q)
    BY <2>1, SkipPlace
  <2>3. Covers(text, i, i + 1 - 1, {})
    <3> SUFFICES ASSUME NEW p \in i..(i + 1 - 1), NEW q \in p..Len(text), WordAt(text, p, q)
                 PROVE  FALSE
      BY DEF Covers
    <3>1. p = i
      BY <1>0
    <3> QED
      BY <3>1, <2>2
  <2> QED
    BY <2>1, <2>2, <2>3 DEF Sound
<1>5. Goal
  BY <1>1, <1>2, <1>3, <1>4, StepCases
<1> QED
  BY <1>5

(***************************************************************************)
(* The tokenizer finds the words of the text, and nothing else.            *)
(***************************************************************************)
LEMMA TokensSound ==
  ASSUME NEW text \in Seq(Runes), NEW keys \in Dictionary
  PROVE  \A i \in 1..(Len(text) + 1) :
           CleanStart(text, i) =>
             /\ Sound(text, keys, TokenSet(TokensFrom(text, keys)[i]))
             /\ Covers(text, i, Len(text), TokenSet(TokensFrom(text, keys)[i]))
<1> DEFINE n == Len(text)
           Good(i) == CleanStart(text, i) =>
                        /\ Sound(text, keys, TokenSet(TokensFrom(text, keys)[i]))
                        /\ Covers(text, i, n, TokenSet(TokensFrom(text, keys)[i]))
           S == {i \in 1..(n + 1) : Good(i)}
<1>0. n \in Nat
  OBVIOUS
<1>1. n + 1 \in S
  <2>1. TokenSet(TokensFrom(text, keys)[n + 1]) = {}
    BY TokensUnfold, TokenSetOfOne
  <2>2. Covers(text, n + 1, n, {}) /\ Sound(text, keys, {})
    BY <1>0 DEF Covers, Sound
  <2>3. n + 1 \in 1..(n + 1)
    BY <1>0
  <2> QED
    BY <2>1, <2>2, <2>3
<1>2. ASSUME NEW i \in 1..n, \A j \in (i + 1)..(n + 1) : j \in S
      PROVE  i \in S
  <2> DEFINE m == NextAt(text, keys, i)
             here == TokenSet(TokenAt(text, keys, i))
             there == TokenSet(TokensFrom(text, keys)[m])
  <2> SUFFICES ASSUME CleanStart(text, i)
               PROVE  /\ Sound(text, keys, TokenSet(TokensFrom(text, keys)[i]))
                      /\ Covers(text, i, n, TokenSet(TokensFrom(text, keys)[i]))
    BY <1>0
  <2>1. m \in (i + 1)..(n + 1)
    BY NextIsAhead
  <2>2. CleanStart(text, m) /\ Sound(text, keys, here) /\ Covers(text, i, m - 1, here)
    BY StepSound
  <2>3. Good(m)
    BY <1>2, <2>1
  <2>4. Sound(text, keys, there) /\ Covers(text, m, n, there)
    BY <2>2, <2>3
  <2>5. TokenSet(TokensFrom(text, keys)[i]) = here \cup there
    BY TokenSetFrom
  <2> HIDE DEF m, here, there
  <2>6. Sound(text, keys, here \cup there)
    BY <2>2, <2>4 DEF Sound
  <2>7. Covers(text, i, n, here \cup there)
    <3> SUFFICES ASSUME NEW p \in i..n, NEW q \in p..n, WordAt(text, p, q)
                 PROVE  \E t \in here \cup there : SubSeq(text, p, q) \in Words(t)
      BY DEF Covers
    <3>1. p \in i..(m - 1) \/ p \in m..n
      BY <2>1, <1>0
    <3> QED
      BY <3>1, <2>2, <2>4 DEF Covers
  <2> QED
    BY <2>5, <2>6, <2>7
<1>3. 1..(n + 1) \subseteq S
  <2> HIDE DEF S, n
  <2> QED
    BY <1>0, <1>1, <1>2, Downward
<1> QED
  BY <1>3

\* The words of a text are those of its tokens, whichever keys it is cut at.
THEOREM WordsOfTokens ==
  ASSUME NEW text \in Seq(Runes), NEW keys \in Dictionary
  PROVE  /\ Sound(text, keys, TokenSet(TokenizeWithDictionary(text, keys)))
         /\ \A w \in Words(text) :
              \E t \in TokenSet(TokenizeWithDictionary(text, keys)) : w \in Words(t)
<1> DEFINE tokens == TokenSet(TokenizeWithDictionary(text, keys))
<1>0. Len(text) \in Nat /\ 1 \in 1..(Len(text) + 1)
  OBVIOUS
<1>1. CleanStart(text, 1)
  BY DEF CleanStart
<1>2. tokens = TokenSet(TokensFrom(text, keys)[1])
  BY DEF TokenizeWithDictionary
<1>3. Sound(text, keys, tokens) /\ Covers(text, 1, Len(text), tokens)
  BY <1>0, <1>1, <1>2, TokensSound
<1> HIDE DEF tokens
<1>4. ASSUME NEW w \in Words(text) PROVE \E t \in tokens : w \in Words(t)
  <2>1. PICK p \in 1..Len(text) : \E q \in p..Len(text) : WordAt(text, p, q) /\ w = SubSeq(text, p, q)
    BY WordsMember
  <2> QED
    BY <2>1, <1>3 DEF Covers
<1> QED
  BY <1>3, <1>4 DEF tokens

\* The tokens that documents and clauses are cut into are the words of their text
\* (query_pipeline.go, TokenizeForSearch).
THEOREM TokensAreWords ==
  ASSUME NEW text \in Seq(Runes)
  PROVE  TokenSet(TokenizeForSearch(text)) = Words(text)
<1> DEFINE tokens == TokenSet(TokenizeForSearch(text))
<1>1. {} \in Dictionary
  BY DEF Dictionary
<1>2. /\ Sound(text, {}, tokens)
      /\ \A w \in Words(text) : \E t \in tokens : w \in Words(t)
  BY <1>1, WordsOfTokens DEF TokenizeForSearch
<1> HIDE DEF tokens
<1>3. \A t \in tokens : Words(t) \subseteq Words(text) /\ Words(t) = {t}
  BY <1>2 DEF Sound
<1>4. tokens = Words(text)
  <2>1. ASSUME NEW t \in tokens PROVE t \in Words(text)
    <3>1. t \in Words(t) /\ Words(t) \subseteq Words(text)
      BY <1>3
    <3> QED
      BY <3>1
  <2>2. ASSUME NEW w \in Words(text) PROVE w \in tokens
    <3>1. PICK t \in tokens : w \in Words(t)
      BY <1>2
    <3>2. Words(t) = {t}
      BY <1>3
    <3> QED
      BY <3>1, <3>2
  <2> QED
    BY <2>1, <2>2
<1> QED
  BY <1>4 DEF tokens

(***************************************************************************)
(* One text embedded in another: place v of x is place src[v] of text.     *)
(* Word runes that stand together in one stand together in the other.      *)
(***************************************************************************)
Sought(r) == IsSearchWordRune(r) \/ r \in Han \ HanSymbols

Embeds(x, text, src) ==
  /\ src \in [1..Len(x) -> 1..Len(text)]
  /\ \A u, v \in 1..Len(x) : u < v => src[u] < src[v]
  /\ \A v \in 1..Len(x) : Sought(x[v]) => text[src[v]] = x[v]
  /\ \A i \in 1..Len(text) : Sought(text[i]) => \E v \in 1..Len(x) : src[v] = i /\ x[v] = text[i]
  /\ \A v \in 1..(Len(x) - 1) :
       IsSearchWordRune(x[v]) /\ IsSearchWordRune(x[v + 1]) => src[v + 1] = src[v] + 1
  /\ \A v \in 1..Len(x) : x[v] \notin HanSymbols

\* l + 1 runes of text from p on are those of x from u on.
Run(x, text, src, p, u, l) ==
  \A k \in 0..l :
    p + k \in 1..Len(text) /\ u + k \in 1..Len(x) /\ src[u + k] = p + k /\ x[u + k] = text[p + k]

\* No rune of the text is embedded twice.
LEMMA Injective ==
  ASSUME NEW text \in Seq(Runes), NEW x \in Seq(Runes), NEW src, Embeds(x, text, src),
         NEW u \in 1..Len(x), NEW v \in 1..Len(x), src[u] = src[v]
  PROVE  u = v
<1>1. u \in Nat /\ v \in Nat /\ src[u] \in 1..Len(text) /\ src[v] \in 1..Len(text)
  BY DEF Embeds
<1>2. u < v => src[u] < src[v]
  BY DEF Embeds
<1>3. v < u => src[v] < src[u]
  BY DEF Embeds
<1> QED
  BY <1>1, <1>2, <1>3

\* Words of x, from x to text.
LEMMA RunOfWords ==
  ASSUME NEW text \in Seq(Runes), NEW x \in Seq(Runes), NEW src, Embeds(x, text, src),
         NEW u \in 1..Len(x), NEW v \in u..Len(x), AllWord(x, u, v)
  PROVE  Run(x, text, src, src[u], u, v - u)
<1> DEFINE S == {k \in 0..(v - u) : src[u + k] = src[u] + k}
<1>0. u \in Nat /\ v \in Nat /\ v - u \in Nat /\ Len(x) \in Nat /\ v <= Len(x) /\ 1 <= u
      /\ src[u] \in Nat
  BY DEF Embeds
<1>1. 0 \in S
  <2>1. u + 0 = u /\ src[u] + 0 = src[u] /\ 0 \in 0..(v - u)
    BY <1>0
  <2> QED
    BY <2>1
<1>2. ASSUME NEW k \in 1..(v - u), k - 1 \in S PROVE k \in S
  <2> DEFINE y == u + (k - 1)
  <2>1. y \in 1..(Len(x) - 1) /\ y \in u..v /\ y + 1 \in u..v /\ u + k = y + 1 /\ k \in 0..(v - u)
        /\ k - 1 + 1 = k /\ k - 1 \in Nat
    BY <1>0
  <2>2. src[y] = src[u] + (k - 1)
    BY <1>2
  <2> HIDE DEF y
  <2>3. IsSearchWordRune(x[y]) /\ IsSearchWordRune(x[y + 1])
    BY <2>1 DEF AllWord
  <2>4. src[y + 1] = src[y] + 1
    BY <2>1, <2>3 DEF Embeds
  <2>5. src[u] + (k - 1) + 1 = src[u] + k
    BY <1>0, <2>1
  <2>6. src[u + k] = src[u] + k
    BY <2>1, <2>2, <2>4, <2>5
  <2> QED
    BY <2>1, <2>6
<1>3. 0..(v - u) \subseteq S
  <2> HIDE DEF S
  <2> QED
    BY <1>0, <1>1, <1>2, Upward
<1>4. ASSUME NEW k \in 0..(v - u)
      PROVE  /\ src[u] + k \in 1..Len(text) /\ u + k \in 1..Len(x) /\ src[u + k] = src[u] + k
             /\ x[u + k] = text[src[u] + k]
  <2>1. src[u + k] = src[u] + k
    BY <1>3
  <2>2. u + k \in 1..Len(x) /\ u + k \in u..v
    BY <1>0
  <2>3. IsSearchWordRune(x[u + k])
    BY <2>2 DEF AllWord
  <2>4. src[u + k] \in 1..Len(text) /\ text[src[u + k]] = x[u + k]
    BY <2>2, <2>3 DEF Embeds, Sought
  <2> QED
    BY <2>1, <2>2, <2>4
<1> QED
  BY <1>4 DEF Run

\* Words of text, from text to x.
LEMMA RunToWords ==
  ASSUME NEW text \in Seq(Runes), NEW x \in Seq(Runes), NEW src, Embeds(x, text, src),
         NEW p \in 1..Len(text), NEW q \in p..Len(text), AllWord(text, p, q),
         NEW u \in 1..Len(x), src[u] = p
  PROVE  Run(x, text, src, p, u, q - p)
<1> DEFINE S == {k \in 0..(q - p) : u + k \in 1..Len(x) /\ src[u + k] = p + k}
<1>0. u \in Nat /\ p \in Nat /\ q \in Nat /\ q - p \in Nat /\ Len(x) \in Nat /\ Len(text) \in Nat
      /\ 1 <= p /\ q <= Len(text) /\ p <= q
  OBVIOUS
<1>1. 0 \in S
  <2>1. u + 0 = u /\ p + 0 = p /\ 0 \in 0..(q - p)
    BY <1>0
  <2> QED
    BY <2>1
<1>2. ASSUME NEW k \in 1..(q - p), k - 1 \in S PROVE k \in S
  <2> DEFINE y == u + (k - 1)
             i == p + k
  <2>1. i \in 1..Len(text) /\ i \in p..q /\ k \in 0..(q - p) /\ i = p + (k - 1) + 1
    BY <1>0
  <2>2. y \in 1..Len(x) /\ src[y] = p + (k - 1)
    BY <1>2
  <2>3. u + k = y + 1
    BY <1>0
  <2> HIDE DEF y, i
  <2>4. IsSearchWordRune(text[i])
    BY <2>1 DEF AllWord
  <2>5. PICK z \in 1..Len(x) : src[z] = i /\ x[z] = text[i]
    BY <2>1, <2>4 DEF Embeds, Sought
  <2>6. src[y] < i /\ src[y] \in Nat /\ i \in Nat /\ src[y] + 1 = i
    BY <1>0, <2>1, <2>2
  <2>7. y < z
    <3> SUFFICES ASSUME ~(y < z) PROVE FALSE
      OBVIOUS
    <3>1. z < y \/ z = y
      BY <2>2
    <3>2. z < y => src[z] < src[y]
      BY <2>2 DEF Embeds
    <3> QED
      BY <3>1, <3>2, <2>5, <2>6
  <2>8. z = y + 1
    <3> SUFFICES ASSUME z # y + 1 PROVE FALSE
      OBVIOUS
    <3>1. y + 1 \in 1..Len(x) /\ y + 1 < z /\ y < y + 1
      BY <2>2, <2>7
    <3>2. src[y] < src[y + 1] /\ src[y + 1] < src[z] /\ src[y + 1] \in 1..Len(text)
      BY <2>2, <3>1 DEF Embeds
    <3> QED
      BY <3>2, <2>5, <2>6
  <2>9. u + k \in 1..Len(x) /\ src[u + k] = i
    BY <2>3, <2>5, <2>8
  <2> QED
    BY <2>1, <2>9 DEF i
<1>3. 0..(q - p) \subseteq S
  <2> HIDE DEF S
  <2> QED
    BY <1>0, <1>1, <1>2, Upward
<1>4. ASSUME NEW k \in 0..(q - p)
      PROVE  /\ p + k \in 1..Len(text) /\ u + k \in 1..Len(x) /\ src[u + k] = p + k
             /\ x[u + k] = text[p + k]
  <2>1. u + k \in 1..Len(x) /\ src[u + k] = p + k
    BY <1>3
  <2>2. p + k \in 1..Len(text) /\ p + k \in p..q
    BY <1>0
  <2>3. IsSearchWordRune(text[p + k])
    BY <2>2 DEF AllWord
  <2>4. PICK z \in 1..Len(x) : src[z] = p + k /\ x[z] = text[p + k]
    BY <2>2, <2>3 DEF Embeds, Sought
  <2>5. z = u + k
    <3> DEFINE y == u + k
    <3>1. y \in 1..Len(x) /\ src[y] = src[z]
      BY <2>1, <2>4
    <3> HIDE DEF y
    <3>2. z = y
      BY <3>1, Injective
    <3> QED
      BY <3>2 DEF y
  <2> QED
    BY <2>1, <2>2, <2>4, <2>5
<1> QED
  BY <1>4 DEF Run

\* The runes of text from p to p + l are those of x from u on.
Shifted(text, x, p, u, l) ==
  \A k \in p..(p + l) : k - p + u \in u..(u + l) /\ x[k - p + u] = text[k]

\* The runes of a run are the same in both texts.
LEMMA RunRunes ==
  ASSUME NEW text \in Seq(Runes), NEW x \in Seq(Runes), NEW src,
         NEW p \in 1..Len(text), NEW u \in 1..Len(x), NEW l \in Nat, Run(x, text, src, p, u, l)
  PROVE  /\ Shifted(text, x, p, u, l) /\ Shifted(x, text, u, p, l)
         /\ p + l <= Len(text) /\ u + l <= Len(x)
<1>0. p \in Nat /\ u \in Nat /\ Len(text) \in Nat /\ Len(x) \in Nat
  OBVIOUS
<1>1. ASSUME NEW k \in p..(p + l) PROVE k - p + u \in u..(u + l) /\ x[k - p + u] = text[k]
  <2>1. k - p \in 0..l /\ k - p + u = u + (k - p) /\ p + (k - p) = k /\ k - p + u \in u..(u + l)
    BY <1>0
  <2>2. x[u + (k - p)] = text[p + (k - p)]
    BY <2>1 DEF Run
  <2> QED
    BY <2>1, <2>2
<1>2. ASSUME NEW k \in u..(u + l) PROVE k - u + p \in p..(p + l) /\ x[k] = text[k - u + p]
  <2>1. k - u \in 0..l /\ k - u + p = p + (k - u) /\ u + (k - u) = k /\ k - u + p \in p..(p + l)
    BY <1>0
  <2>2. x[u + (k - u)] = text[p + (k - u)]
    BY <2>1 DEF Run
  <2> QED
    BY <2>1, <2>2
<1>3. l \in 0..l
  OBVIOUS
<1>4. p + l \in 1..Len(text) /\ u + l \in 1..Len(x)
  BY <1>3 DEF Run
<1> QED
  BY <1>0, <1>1, <1>2, <1>4 DEF Shifted

\* A run is one of word runes in both texts or in neither.
LEMMA RunAllWord ==
  ASSUME NEW text \in Seq(Runes), NEW x \in Seq(Runes), NEW src,
         NEW p \in 1..Len(text), NEW u \in 1..Len(x), NEW l \in Nat, Run(x, text, src, p, u, l)
  PROVE  AllWord(text, p, p + l) <=> AllWord(x, u, u + l)
<1>1. /\ \A k \in p..(p + l) : k - p + u \in u..(u + l) /\ x[k - p + u] = text[k]
      /\ \A k \in u..(u + l) : k - u + p \in p..(p + l) /\ x[k] = text[k - u + p]
  BY RunRunes DEF Shifted
<1>2. ASSUME AllWord(text, p, p + l), NEW k \in u..(u + l) PROVE IsSearchWordRune(x[k])
  BY <1>1, <1>2 DEF AllWord
<1>3. ASSUME AllWord(x, u, u + l), NEW k \in p..(p + l) PROVE IsSearchWordRune(text[k])
  <2>1. IsSearchWordRune(x[k - p + u])
    BY <1>1, <1>3 DEF AllWord
  <2> QED
    BY <1>1, <2>1
<1> QED
  BY <1>2, <1>3 DEF AllWord

\* A stretch of word runes is longer by the one that follows or comes before it.
LEMMA AllWordJoin ==
  ASSUME NEW text, NEW i \in Int, NEW j \in Int, NEW k \in Int, AllWord(text, i, j),
         AllWord(text, j + 1, k)
  PROVE  AllWord(text, i, k)
<1> SUFFICES ASSUME NEW m \in i..k PROVE IsSearchWordRune(text[m])
  BY DEF AllWord
<1>1. m \in i..j \/ m \in (j + 1)..k
  OBVIOUS
<1> QED
  BY <1>1 DEF AllWord

\* A part of a stretch of word runes is one.
LEMMA AllWordPart ==
  ASSUME NEW text, NEW i \in Int, NEW j \in Int, AllWord(text, i, j), NEW m \in Int, NEW n \in Int,
         i <= m, n <= j
  PROVE  AllWord(text, m, n)
<1> SUFFICES ASSUME NEW k \in m..n PROVE IsSearchWordRune(text[k])
  BY DEF AllWord
<1>1. k \in i..j
  OBVIOUS
<1> QED
  BY <1>1 DEF AllWord

\* Whether a word begins before a place.
LEMMA SameBefore ==
  ASSUME NEW text \in Seq(Runes), NEW x \in Seq(Runes), NEW src, Embeds(x, text, src),
         NEW p \in 1..Len(text), NEW u \in 1..Len(x), src[u] = p, x[u] = text[p],
         IsSearchWordRune(text[p])
  PROVE  (\A k \in 1..(p - 1) : AllWord(text, k, p - 1) => text[k] \notin Letters)
           <=> (\A k \in 1..(u - 1) : AllWord(x, k, u - 1) => x[k] \notin Letters)
<1>0. p \in Nat /\ u \in Nat /\ Len(text) \in Nat /\ Len(x) \in Nat
  OBVIOUS
<1>1. ASSUME NEW k \in 1..(u - 1), AllWord(x, k, u - 1)
      PROVE  \E i \in 1..(p - 1) : AllWord(text, i, p - 1) /\ text[i] = x[k]
  <2>0. k \in Nat /\ k < u /\ k \in 1..Len(x) /\ u \in k..Len(x) /\ u - k \in Nat
    BY <1>0
  <2>1. AllWord(x, k, u)
    <3>1. AllWord(x, u - 1 + 1, u)
      BY <1>0 DEF AllWord
    <3> QED
      BY <1>0, <1>1, <2>0, <3>1, AllWordJoin
  <2> DEFINE i == src[k]
  <2>2. i \in 1..Len(text) /\ i < p
    BY <2>0 DEF Embeds
  <2>3. Run(x, text, src, i, k, u - k)
    BY <2>0, <2>1, RunOfWords
  <2> HIDE DEF i
  <2>4. i + (u - k) = p
    <3>1. u - k \in 0..(u - k) /\ k + (u - k) = u
      BY <2>0
    <3>2. src[k + (u - k)] = i + (u - k)
      BY <2>3, <3>1 DEF Run
    <3> QED
      BY <3>1, <3>2
  <2>5. AllWord(text, i, p)
    <3>1. k + (u - k) = u
      BY <2>0
    <3>2. AllWord(text, i, i + (u - k)) <=> AllWord(x, k, k + (u - k))
      BY <2>0, <2>2, <2>3, RunAllWord
    <3> QED
      BY <2>1, <2>4, <3>1, <3>2
  <2>6. AllWord(text, i, p - 1)
    BY <1>0, <2>2, <2>5, AllWordPart
  <2>7. text[i] = x[k]
    <3>1. 0 \in 0..(u - k) /\ k + 0 = k /\ i + 0 = i
      BY <2>0, <2>2
    <3>2. x[k + 0] = text[i + 0]
      BY <2>3, <3>1 DEF Run
    <3> QED
      BY <3>1, <3>2
  <2>8. i \in 1..(p - 1)
    BY <1>0, <2>2
  <2> QED
    BY <2>6, <2>7, <2>8
<1>2. ASSUME NEW i \in 1..(p - 1), AllWord(text, i, p - 1)
      PROVE  \E k \in 1..(u - 1) : AllWord(x, k, u - 1) /\ x[k] = text[i]
  <2>0. i \in Nat /\ i < p /\ i \in 1..Len(text) /\ p \in i..Len(text) /\ p - i \in Nat /\ i \in i..(p - 1)
    BY <1>0
  <2>1. AllWord(text, i, p)
    <3>1. AllWord(text, p - 1 + 1, p)
      BY <1>0 DEF AllWord
    <3> QED
      BY <1>0, <1>2, <2>0, <3>1, AllWordJoin
  <2>2. IsSearchWordRune(text[i])
    BY <1>2, <2>0 DEF AllWord
  <2>3. PICK k \in 1..Len(x) : src[k] = i /\ x[k] = text[i]
    BY <2>0, <2>2 DEF Embeds, Sought
  <2>4. Run(x, text, src, i, k, p - i)
    BY <2>0, <2>1, <2>3, RunToWords
  <2>5. k + (p - i) = u
    <3> DEFINE z == k + (p - i)
    <3>1. p - i \in 0..(p - i) /\ i + (p - i) = p
      BY <2>0, <1>0
    <3>2. z \in 1..Len(x) /\ src[z] = i + (p - i)
      BY <2>4, <3>1 DEF Run
    <3> HIDE DEF z
    <3>3. src[z] = src[u]
      BY <3>1, <3>2
    <3>4. z = u
      BY <3>2, <3>3, Injective
    <3> QED
      BY <3>4 DEF z
  <2>6. AllWord(x, k, u)
    <3>1. i + (p - i) = p
      BY <2>0, <1>0
    <3>2. AllWord(text, i, i + (p - i)) <=> AllWord(x, k, k + (p - i))
      BY <2>0, <2>3, <2>4, RunAllWord
    <3> QED
      BY <2>1, <2>5, <3>1, <3>2
  <2>7. k \in 1..(u - 1)
    BY <1>0, <2>0, <2>3, <2>5
  <2>8. AllWord(x, k, u - 1)
    BY <1>0, <2>6, <2>7, AllWordPart
  <2> QED
    BY <2>3, <2>7, <2>8
<1> QED
  BY <1>1, <1>2

\* Whether a word goes on after a place.
LEMMA SameAfter ==
  ASSUME NEW text \in Seq(Runes), NEW x \in Seq(Runes), NEW src, Embeds(x, text, src),
         NEW q \in 1..Len(text), NEW v \in 1..Len(x), src[v] = q, x[v] = text[q],
         IsSearchWordRune(text[q])
  PROVE  (\A k \in (q + 1)..Len(text) : AllWord(text, q + 1, k) => text[k] \in Trailing)
           <=> (\A k \in (v + 1)..Len(x) : AllWord(x, v + 1, k) => x[k] \in Trailing)
<1>0. q \in Nat /\ v \in Nat /\ Len(text) \in Nat /\ Len(x) \in Nat
  OBVIOUS
<1>1. ASSUME NEW k \in (v + 1)..Len(x), AllWord(x, v + 1, k)
      PROVE  \E i \in (q + 1)..Len(text) : AllWord(text, q + 1, i) /\ text[i] = x[k]
  <2>0. k \in Nat /\ k > v /\ k \in v..Len(x) /\ k - v \in Nat /\ k - v > 0 /\ v + (k - v) = k
    BY <1>0
  <2>1. AllWord(x, v, k)
    <3>1. AllWord(x, v, v)
      BY <1>0 DEF AllWord
    <3> QED
      BY <1>0, <1>1, <2>0, <3>1, AllWordJoin
  <2>2. Run(x, text, src, q, v, k - v)
    BY <2>0, <2>1, RunOfWords
  <2> DEFINE i == q + (k - v)
  <2>3. k - v \in 0..(k - v)
    BY <2>0
  <2>4. i \in 1..Len(text) /\ x[v + (k - v)] = text[i]
    BY <2>2, <2>3 DEF Run
  <2>5. AllWord(text, q, i)
    <3>1. AllWord(text, q, q + (k - v)) <=> AllWord(x, v, v + (k - v))
      BY <2>0, <2>2, RunAllWord
    <3> QED
      BY <2>0, <2>1, <3>1
  <2>6. i \in (q + 1)..Len(text)
    BY <1>0, <2>0, <2>4
  <2> HIDE DEF i
  <2>7. AllWord(text, q + 1, i)
    BY <1>0, <2>5, <2>6, AllWordPart
  <2> QED
    BY <2>0, <2>4, <2>6, <2>7
<1>2. ASSUME NEW i \in (q + 1)..Len(text), AllWord(text, q + 1, i)
      PROVE  \E k \in (v + 1)..Len(x) : AllWord(x, v + 1, k) /\ x[k] = text[i]
  <2>0. i \in Nat /\ i > q /\ i \in q..Len(text) /\ i - q \in Nat /\ i - q > 0 /\ q + (i - q) = i
    BY <1>0
  <2>1. AllWord(text, q, i)
    <3>1. AllWord(text, q, q)
      BY <1>0 DEF AllWord
    <3> QED
      BY <1>0, <1>2, <2>0, <3>1, AllWordJoin
  <2>2. Run(x, text, src, q, v, i - q)
    BY <2>0, <2>1, RunToWords
  <2> DEFINE k == v + (i - q)
  <2>3. i - q \in 0..(i - q)
    BY <2>0
  <2>4. k \in 1..Len(x) /\ x[k] = text[q + (i - q)]
    BY <2>2, <2>3 DEF Run
  <2>5. AllWord(x, v, k)
    <3>1. AllWord(text, q, q + (i - q)) <=> AllWord(x, v, v + (i - q))
      BY <2>0, <2>2, RunAllWord
    <3> QED
      BY <2>0, <2>1, <3>1
  <2>6. k \in (v + 1)..Len(x)
    BY <1>0, <2>0, <2>4
  <2> HIDE DEF k
  <2>7. AllWord(x, v + 1, k)
    BY <1>0, <2>5, <2>6, AllWordPart
  <2> QED
    BY <2>0, <2>4, <2>6, <2>7
<1> QED
  BY <1>1, <1>2

\* A run is a word of one text if it is a word of the other.
LEMMA SameWord ==
  ASSUME NEW text \in Seq(Runes), NEW x \in Seq(Runes), NEW src, Embeds(x, text, src),
         NEW p \in 1..Len(text), NEW u \in 1..Len(x), NEW l \in Nat, Run(x, text, src, p, u, l)
  PROVE  /\ IsWord(text, p, p + l) <=> IsWord(x, u, u + l)
         /\ SubSeq(text, p, p + l) = SubSeq(x, u, u + l)
<1>0. p \in Nat /\ u \in Nat /\ Len(text) \in Nat /\ Len(x) \in Nat
  OBVIOUS
<1> DEFINE q == p + l
           v == u + l
<1>1. AllWord(text, p, q) <=> AllWord(x, u, v)
  BY RunAllWord
<1>2. q \in p..Len(text) /\ q \in 1..Len(text) /\ v \in u..Len(x) /\ v \in 1..Len(x)
  <2>1. p + l <= Len(text) /\ u + l <= Len(x)
    BY RunRunes
  <2> QED
    BY <1>0, <2>1
<1>3. src[u] = p /\ x[u] = text[p] /\ src[v] = q /\ x[v] = text[q]
  <2>1. 0 \in 0..l /\ l \in 0..l /\ p + 0 = p /\ u + 0 = u
    BY <1>0
  <2>2. src[u + 0] = p + 0 /\ x[u + 0] = text[p + 0] /\ src[u + l] = p + l /\ x[u + l] = text[p + l]
    BY <2>1 DEF Run
  <2> QED
    BY <2>1, <2>2
<1>4. \A k \in 1..(l + 1) : u + k - 1 \in u..v /\ x[u + k - 1] = text[p + k - 1]
  <2> SUFFICES ASSUME NEW k \in 1..(l + 1)
               PROVE  u + k - 1 \in u..v /\ x[u + k - 1] = text[p + k - 1]
    OBVIOUS
  <2>1. k - 1 \in 0..l /\ u + k - 1 = u + (k - 1) /\ p + k - 1 = p + (k - 1) /\ u + k - 1 \in u..v
    BY <1>0
  <2>2. x[u + (k - 1)] = text[p + (k - 1)]
    BY <2>1 DEF Run
  <2> QED
    BY <2>1, <2>2
<1>5. q - p + 1 = l + 1 /\ v - u + 1 = l + 1
  BY <1>0
<1> HIDE DEF q, v
<1>6. SubSeq(text, p, q) = SubSeq(x, u, v)
  <2>1. /\ SubSeq(text, p, q) \in Seq(Runes) /\ Len(SubSeq(text, p, q)) = l + 1
        /\ \A k \in 1..(l + 1) : SubSeq(text, p, q)[k] = text[p + k - 1]
    BY <1>2, <1>5, SegmentOf
  <2>2. /\ SubSeq(x, u, v) \in Seq(Runes) /\ Len(SubSeq(x, u, v)) = l + 1
        /\ \A k \in 1..(l + 1) : SubSeq(x, u, v)[k] = x[u + k - 1]
    BY <1>2, <1>5, SegmentOf
  <2>3. \A k \in 1..Len(SubSeq(text, p, q)) : SubSeq(text, p, q)[k] = SubSeq(x, u, v)[k]
    BY <1>4, <2>1, <2>2
  <2> QED
    BY <2>1, <2>2, <2>3, SeqEqual
<1>7. ASSUME AllWord(text, p, q)
      PROVE  IsWord(text, p, q) <=> IsWord(x, u, v)
  <2>1. IsSearchWordRune(text[p]) /\ IsSearchWordRune(text[q])
    <3>1. p \in p..q /\ q \in p..q
      BY <1>0, <1>2
    <3> QED
      BY <3>1, <1>7 DEF AllWord
  <2>2. (\A k \in 1..(p - 1) : AllWord(text, k, p - 1) => text[k] \notin Letters)
          <=> (\A k \in 1..(u - 1) : AllWord(x, k, u - 1) => x[k] \notin Letters)
    BY <1>3, <2>1, SameBefore
  <2>3. (\A k \in (q + 1)..Len(text) : AllWord(text, q + 1, k) => text[k] \in Trailing)
          <=> (\A k \in (v + 1)..Len(x) : AllWord(x, v + 1, k) => x[k] \in Trailing)
    BY <1>2, <1>3, <2>1, SameAfter
  <2> QED
    BY <1>1, <1>3, <1>7, <2>2, <2>3 DEF IsWord
<1>8. IsWord(text, p, q) <=> IsWord(x, u, v)
  BY <1>1, <1>7 DEF IsWord
<1> QED
  BY <1>6, <1>8 DEF q, v

\* The words of a text embedded in another are the words of the other.
LEMMA SameWords ==
  ASSUME NEW text \in Seq(Runes), NEW x \in Seq(Runes), NEW src, Embeds(x, text, src)
  PROVE  Words(x) = SoughtWords(text)
<1> DEFINE symbols == {<<r>> : r \in HanSymbols}
<1>1. ASSUME NEW w \in Words(x) PROVE w \in Words(text) /\ w \notin symbols
  <2>1. PICK u \in 1..Len(x) : \E v \in u..Len(x) : WordAt(x, u, v) /\ w = SubSeq(x, u, v)
    BY WordsMember
  <2>2. PICK v \in u..Len(x) : WordAt(x, u, v) /\ w = SubSeq(x, u, v)
    BY <2>1
  <2>0. u \in Nat /\ v \in Nat /\ u <= v /\ v - u \in Nat /\ u + (v - u) = v
        /\ src[u] \in 1..Len(text)
    BY DEF Embeds
  <2>3. CASE u = v /\ x[u] \in Han
    <3>1. x[u] \notin HanSymbols /\ w = <<x[u]>>
      BY <2>2, <2>3, OneRune DEF Embeds
    <3>2. text[src[u]] = x[u]
      BY <2>3, <3>1 DEF Embeds, Sought
    <3>3. w = SubSeq(text, src[u], src[u]) /\ WordAt(text, src[u], src[u])
      BY <2>0, <2>3, <3>1, <3>2, OneRune DEF WordAt
    <3>4. src[u] \in src[u]..Len(text)
      BY <2>0
    <3>5. w \in Words(text)
      BY <2>0, <3>3, <3>4, WordsMember
    <3>6. w \notin symbols
      BY <3>1
    <3> QED
      BY <3>5, <3>6
  <2>4. CASE IsWord(x, u, v)
    <3> DEFINE p == src[u]
               q == src[u] + (v - u)
    <3>1. AllWord(x, u, v) /\ x[u] \in Letters
      BY <2>4 DEF IsWord
    <3>2. Run(x, text, src, p, u, v - u)
      BY <3>1, RunOfWords
    <3>3. IsWord(text, p, q) /\ SubSeq(text, p, q) = w
      <4> HIDE DEF p
      <4>1. p \in 1..Len(text)
        BY <2>0 DEF p
      <4>2. /\ IsWord(text, p, p + (v - u)) <=> IsWord(x, u, u + (v - u))
            /\ SubSeq(text, p, p + (v - u)) = SubSeq(x, u, u + (v - u))
        BY <2>0, <3>2, <4>1, SameWord
      <4> QED
        BY <2>0, <2>2, <2>4, <4>2 DEF p
    <3>4. q \in p..Len(text)
      <4>1. p + (v - u) <= Len(text)
        BY <2>0, <3>2, RunRunes
      <4> QED
        BY <2>0, <4>1
    <3> HIDE DEF q
    <3>5. w \in Words(text)
      BY <2>0, <3>3, <3>4, WordsMember DEF WordAt
    <3>6. w \notin symbols
      <4>1. w[1] = x[u]
        <5>1. \A k \in 1..(v - u + 1) : SubSeq(x, u, v)[k] = x[u + k - 1]
          BY SegmentOf
        <5>2. 1 \in 1..(v - u + 1) /\ u + 1 - 1 = u
          BY <2>0
        <5> QED
          BY <2>2, <5>1, <5>2
      <4>2. \A r \in HanSymbols : <<r>>[1] = r /\ r \notin Letters
        BY ClassesAssumption
      <4> QED
        BY <3>1, <4>1, <4>2
    <3> QED
      BY <3>5, <3>6
  <2> QED
    BY <2>2, <2>3, <2>4 DEF WordAt
<1>2. ASSUME NEW w \in Words(text), w \notin symbols PROVE w \in Words(x)
  <2>1. PICK p \in 1..Len(text) : \E q \in p..Len(text) : WordAt(text, p, q) /\ w = SubSeq(text, p, q)
    BY WordsMember
  <2>2. PICK q \in p..Len(text) : WordAt(text, p, q) /\ w = SubSeq(text, p, q)
    BY <2>1
  <2>0. p \in Nat /\ q \in Nat /\ p <= q /\ q - p \in Nat /\ p + (q - p) = q
    OBVIOUS
  <2>3. CASE p = q /\ text[p] \in Han
    <3>1. w = <<text[p]>>
      BY <2>2, <2>3, OneRune
    <3>2. text[p] \notin HanSymbols
      BY <1>2, <3>1
    <3>3. PICK u \in 1..Len(x) : src[u] = p /\ x[u] = text[p]
      BY <2>3, <3>2 DEF Embeds, Sought
    <3>4. SubSeq(x, u, u) = <<x[u]>>
      BY OneRune
    <3>5. w = SubSeq(x, u, u)
      BY <3>1, <3>3, <3>4
    <3>6. WordAt(x, u, u)
      BY <2>3, <3>3 DEF WordAt
    <3>7. u \in u..Len(x)
      OBVIOUS
    <3> QED
      BY <3>5, <3>6, <3>7, WordsMember
  <2>4. CASE IsWord(text, p, q)
    <3>1. AllWord(text, p, q) /\ p \in p..q
      BY <2>0, <2>4 DEF IsWord
    <3>2. PICK u \in 1..Len(x) : src[u] = p /\ x[u] = text[p]
      BY <3>1 DEF Embeds, Sought, AllWord
    <3>3. Run(x, text, src, p, u, q - p)
      BY <3>1, <3>2, RunToWords
    <3> DEFINE v == u + (q - p)
    <3>4. /\ IsWord(text, p, p + (q - p)) <=> IsWord(x, u, v)
          /\ SubSeq(text, p, p + (q - p)) = SubSeq(x, u, v)
      BY <2>0, <3>3, SameWord
    <3>5. v \in u..Len(x)
      <4>1. u + (q - p) <= Len(x)
        BY <2>0, <3>3, RunRunes
      <4> QED
        BY <2>0, <4>1
    <3> HIDE DEF v
    <3>6. IsWord(x, u, v) /\ w = SubSeq(x, u, v)
      BY <2>0, <2>2, <2>4, <3>4
    <3> QED
      BY <3>5, <3>6, WordsMember DEF WordAt
  <2> QED
    BY <2>2, <2>3, <2>4 DEF WordAt
<1> QED
  BY <1>1, <1>2 DEF SoughtWords

(***************************************************************************)
(* Normalization embeds its result in the text.                            *)
(***************************************************************************)
IsWritten(g, text) ==
  g = [i \in 0..Len(text) |->
         IF i = 0 THEN <<>>
         ELSE IF Kept(text, i) THEN Append(g[i - 1], Blanked(text)[i]) ELSE g[i - 1]]

\* NormalizedUpTo writes as its definition says, if it can be done at all.
LEMMA WritingSolves ==
  ASSUME NEW text, NEW g, IsWritten(g, text)
  PROVE  IsWritten(NormalizedUpTo(text), text)
  BY DEF NormalizedUpTo, IsWritten

\* What normalization has written after each rune, from what it had written before.
LEMMA NormUnfold ==
  ASSUME NEW text \in Seq(Runes)
  PROVE  /\ NormalizedUpTo(text)[0] = <<>>
         /\ \A i \in 1..Len(text) :
              NormalizedUpTo(text)[i] =
                IF Kept(text, i) THEN Append(NormalizedUpTo(text)[i - 1], Blanked(text)[i])
                ELSE NormalizedUpTo(text)[i - 1]
<1> DEFINE n == Len(text)
           keep == [i \in 1..n |-> Kept(text, i)]
           rune == [i \in 1..n |-> Blanked(text)[i]]
<1>0. n \in Nat
  OBVIOUS
<1>1. \E g : IsWriting(g, n, keep, rune)
  <2> HIDE DEF n, keep, rune
  <2> QED
    BY <1>0, WritingExists
<1>2. PICK g : IsWriting(g, n, keep, rune)
  BY <1>1
<1>3. IsWritten(g, text)
  <2>1. \A i \in 1..n : keep[i] = Kept(text, i) /\ rune[i] = Blanked(text)[i]
    OBVIOUS
  <2>2. g = [i \in 0..n |-> IF i = 0 THEN <<>>
                            ELSE IF keep[i] THEN Append(g[i - 1], rune[i]) ELSE g[i - 1]]
    BY <1>2 DEF IsWriting
  <2>3. ASSUME NEW i \in 0..n
        PROVE  (IF i = 0 THEN <<>> ELSE IF keep[i] THEN Append(g[i - 1], rune[i]) ELSE g[i - 1])
                 = (IF i = 0 THEN <<>>
                    ELSE IF Kept(text, i) THEN Append(g[i - 1], Blanked(text)[i]) ELSE g[i - 1])
    <3>1. i # 0 => i \in 1..n
      BY <1>0
    <3> HIDE DEF keep, rune
    <3> QED
      BY <2>1, <3>1
  <2> HIDE DEF keep, rune
  <2> QED
    BY <2>2, <2>3 DEF IsWritten
<1> DEFINE upTo == NormalizedUpTo(text)
<1>4. IsWritten(upTo, text)
  BY <1>3, WritingSolves
<1>5. upTo = [i \in 0..n |-> IF i = 0 THEN <<>>
                ELSE IF Kept(text, i) THEN Append(upTo[i - 1], Blanked(text)[i]) ELSE upTo[i - 1]]
  BY <1>4 DEF IsWritten
<1> HIDE DEF upTo, n
<1>6. upTo[0] = <<>>
  <2>1. 0 \in 0..n
    BY <1>0
  <2> QED
    BY <2>1, <1>5
<1>7. ASSUME NEW i \in 1..n
      PROVE  upTo[i] = IF Kept(text, i) THEN Append(upTo[i - 1], Blanked(text)[i]) ELSE upTo[i - 1]
  <2>1. i \in 0..n /\ i # 0
    BY <1>0
  <2> QED
    BY <2>1, <1>5
<1> QED
  BY <1>6, <1>7 DEF upTo, n

\* The runes of words are not blanked, Han symbols are.
LEMMA BlankedRunes ==
  ASSUME NEW text \in Seq(Runes)
  PROVE  /\ DOMAIN text = 1..Len(text)
         /\ \A i \in 1..Len(text) :
              /\ Blanked(text)[i] \in Runes
              /\ Blanked(text)[i] = text[i] \/ Blanked(text)[i] = Space
              /\ Blanked(text)[i] \notin HanSymbols
              /\ Sought(text[i]) => Blanked(text)[i] = text[i] /\ text[i] # Space
<1>1. DOMAIN text = 1..Len(text)
  OBVIOUS
<1>2. Space \in Runes /\ Space \notin HanSymbols
  BY ClassesAssumption DEF Runes
<1> SUFFICES ASSUME NEW i \in 1..Len(text)
             PROVE  /\ Blanked(text)[i] \in Runes
                    /\ Blanked(text)[i] = text[i] \/ Blanked(text)[i] = Space
                    /\ Blanked(text)[i] \notin HanSymbols
                    /\ Sought(text[i]) => Blanked(text)[i] = text[i] /\ text[i] # Space
  BY <1>1
<1>3. text[i] \in Runes
  OBVIOUS
<1>4. Blanked(text)[i] = IF text[i] \in Others \cup HanSymbols THEN Space ELSE text[i]
  BY <1>1 DEF Blanked
<1>5. Sought(text[i]) => text[i] \notin Others \cup HanSymbols /\ text[i] # Space
  BY ClassesAssumption DEF Sought, IsSearchWordRune
<1> QED
  BY <1>2, <1>3, <1>4, <1>5

\* at[i] runes are written after i runes of text; the last of them is rune i if it is kept.
LEMMA Written ==
  ASSUME NEW text \in Seq(Runes)
  PROVE  \A i \in 0..Len(text) :
           /\ NormalizedUpTo(text)[i] \in Seq(Runes)
           /\ \A j \in 0..i :
                /\ NormalizedUpTo(text)[j] \in Seq(Runes)
                /\ Len(NormalizedUpTo(text)[j]) <= Len(NormalizedUpTo(text)[i])
                /\ \A k \in 1..Len(NormalizedUpTo(text)[j]) :
                     NormalizedUpTo(text)[i][k] = NormalizedUpTo(text)[j][k]
           /\ \A v \in 1..Len(NormalizedUpTo(text)[i]) :
                \E j \in 1..i : Kept(text, j) /\ Len(NormalizedUpTo(text)[j]) = v
<1> DEFINE n == Len(text)
           upTo == NormalizedUpTo(text)
           Good(i) == /\ upTo[i] \in Seq(Runes)
                      /\ \A j \in 0..i :
                           /\ upTo[j] \in Seq(Runes)
                           /\ Len(upTo[j]) <= Len(upTo[i])
                           /\ \A k \in 1..Len(upTo[j]) : upTo[i][k] = upTo[j][k]
                      /\ \A v \in 1..Len(upTo[i]) : \E j \in 1..i : Kept(text, j) /\ Len(upTo[j]) = v
           S == {i \in 0..n : Good(i)}
<1>0. n \in Nat
  OBVIOUS
<1>a. upTo[0] = <<>>
  BY NormUnfold
<1>b. \A i \in 1..n : upTo[i] = IF Kept(text, i) THEN Append(upTo[i - 1], Blanked(text)[i])
                                ELSE upTo[i - 1]
  BY NormUnfold
<1>c. \A i \in 1..n : Blanked(text)[i] \in Runes
  BY BlankedRunes
<1> HIDE DEF upTo, n
<1>1. 0 \in S
  <2>1. 0 \in 0..n /\ \A j \in 0..0 : j = 0
    BY <1>0
  <2>2. upTo[0] \in Seq(Runes) /\ Len(upTo[0]) = 0
    BY <1>a
  <2>3. Good(0)
    BY <2>1, <2>2
  <2> QED
    BY <2>1, <2>3
<1>2. ASSUME NEW i \in 1..n, i - 1 \in S PROVE i \in S
  <2>0. i \in 0..n /\ i \in Nat /\ i - 1 \in 0..i /\ \A j \in 0..i : j = i \/ j \in 0..(i - 1)
    BY <1>0
  <2>1. Good(i - 1)
    BY <1>2
  <2> DEFINE h == upTo[i - 1]
             g == upTo[i]
  <2>2. h \in Seq(Runes) /\ Len(h) \in Nat
    BY <2>1
  <2>3. /\ g \in Seq(Runes) /\ Len(h) <= Len(g) /\ \A k \in 1..Len(h) : g[k] = h[k]
        /\ Kept(text, i) => Len(g) = Len(h) + 1
        /\ ~Kept(text, i) => Len(g) = Len(h)
    <3>1. CASE Kept(text, i)
      <4>1. g = Append(h, Blanked(text)[i])
        BY <3>1, <1>b
      <4>2. Blanked(text)[i] \in Runes
        BY <1>c
      <4> HIDE DEF g, h
      <4> QED
        BY <2>2, <3>1, <4>1, <4>2, AppendProperties
    <3>2. CASE ~Kept(text, i)
      <4>1. g = h
        BY <3>2, <1>b
      <4> QED
        BY <2>2, <3>2, <4>1
    <3> QED
      BY <3>1, <3>2
  <2>4. ASSUME NEW j \in 0..i
        PROVE  /\ upTo[j] \in Seq(Runes) /\ Len(upTo[j]) <= Len(g)
               /\ \A k \in 1..Len(upTo[j]) : g[k] = upTo[j][k]
    <3>1. CASE j = i
      BY <3>1, <2>3
    <3>2. CASE j \in 0..(i - 1)
      <4>1. Len(upTo[j]) <= Len(h) /\ \A k \in 1..Len(upTo[j]) : h[k] = upTo[j][k]
        BY <3>2, <2>1
      <4>2. upTo[j] \in Seq(Runes)
        BY <3>2, <2>1
      <4>3. \A k \in 1..Len(upTo[j]) : k \in 1..Len(h)
        BY <2>2, <4>1, <4>2
      <4> QED
        BY <2>2, <2>3, <4>1, <4>2, <4>3
    <3> QED
      BY <2>0, <3>1, <3>2
  <2>5. ASSUME NEW v \in 1..Len(g)
        PROVE  \E j \in 1..i : Kept(text, j) /\ Len(upTo[j]) = v
    <3>1. CASE v \in 1..Len(h)
      <4>1. PICK j \in 1..(i - 1) : Kept(text, j) /\ Len(upTo[j]) = v
        BY <3>1, <2>1
      <4>2. j \in 1..i
        BY <2>0
      <4> QED
        BY <4>1, <4>2
    <3>2. CASE v \notin 1..Len(h)
      <4>1. Kept(text, i) /\ v = Len(g)
        BY <3>2, <2>2, <2>3
      <4>2. i \in 1..i
        BY <2>0
      <4> QED
        BY <4>1, <4>2
    <3> QED
      BY <3>1, <3>2
  <2> QED
    BY <2>0, <2>3, <2>4, <2>5
<1>3. 0..n \subseteq S
  <2> HIDE DEF S
  <2> QED
    BY <1>0, <1>1, <1>2, Upward
<1>4. \A i \in 0..n : Good(i)
  BY <1>3
<1> QED
  BY <1>4 DEF upTo, n

\* A blank between two other runes is kept if no blank stands before it.
LEMMA BlankKept ==
  ASSUME NEW text \in Seq(Runes), NEW i \in 1..Len(text), NEW j \in 1..Len(text), i < j,
         Blanked(text)[i] # Space, Blanked(text)[j] # Space,
         \A k \in (i + 1)..(j - 1) : ~Kept(text, k)
  PROVE  j = i + 1
<1> SUFFICES ASSUME j # i + 1 PROVE FALSE
  OBVIOUS
<1>1. i + 1 \in (i + 1)..(j - 1) /\ i + 1 > 1 /\ i + 1 - 1 = i /\ j \in (i + 1 + 1)..Len(text)
  OBVIOUS
<1>2. Kept(text, i + 1)
  BY <1>1 DEF Kept
<1> QED
  BY <1>1, <1>2

\* What normalizeQueryText makes of a text is embedded in the text: it leaves out runes that
\* belong to no word the query looks for, and brings no two words together.
LEMMA NormalizedEmbeds ==
  ASSUME NEW text \in Seq(Runes)
  PROVE  /\ NormalizeQueryText(text) \in Seq(Runes)
         /\ \E src : Embeds(NormalizeQueryText(text), text, src)
<1> DEFINE n == Len(text)
           upTo == NormalizedUpTo(text)
           b == Blanked(text)
           x == upTo[n]
           m == Len(x)
           at == [i \in 0..n |-> Len(upTo[i])]
           src == [v \in 1..m |-> CHOOSE j \in 1..n : Kept(text, j) /\ at[j] = v]
<1>0. n \in Nat /\ n \in 0..n
  OBVIOUS
<1>1. \A i \in 1..n : upTo[i] = IF Kept(text, i) THEN Append(upTo[i - 1], b[i]) ELSE upTo[i - 1]
  BY NormUnfold
<1>2. /\ \A i \in 1..n : /\ b[i] \in Runes /\ (b[i] = text[i] \/ b[i] = Space)
                         /\ b[i] \notin HanSymbols
                         /\ (Sought(text[i]) => b[i] = text[i] /\ text[i] # Space)
      /\ ~Sought(Space)
  <2>1. ~Sought(Space)
    BY ClassesAssumption DEF Sought, IsSearchWordRune
  <2> QED
    BY <2>1, BlankedRunes
<1>3. \A i \in 0..n : \A j \in 0..i :
        /\ upTo[j] \in Seq(Runes) /\ Len(upTo[j]) <= Len(upTo[i])
        /\ \A k \in 1..Len(upTo[j]) : upTo[i][k] = upTo[j][k]
  BY Written
<1>4. \A v \in 1..m : \E j \in 1..n : Kept(text, j) /\ Len(upTo[j]) = v
  BY <1>0, Written
<1>5. \A i \in 0..n : at[i] = Len(upTo[i])
  OBVIOUS
<1>6. x = NormalizeQueryText(text)
  BY DEF NormalizeQueryText
<1> HIDE DEF upTo, b, at
<1>7. \A i \in 0..n : upTo[i] \in Seq(Runes) /\ at[i] \in Nat
  <2> SUFFICES ASSUME NEW i \in 0..n PROVE upTo[i] \in Seq(Runes) /\ at[i] \in Nat
    OBVIOUS
  <2>1. i \in 0..i
    BY <1>0
  <2> QED
    BY <2>1, <1>3, <1>5
<1>8. x \in Seq(Runes) /\ m \in Nat /\ m = at[n]
  BY <1>0, <1>5, <1>7
<1>9. ASSUME NEW i \in 0..n, NEW j \in i..n PROVE at[i] <= at[j]
  <2>1. i \in 0..j /\ j \in 0..n
    BY <1>0
  <2> QED
    BY <2>1, <1>3, <1>5
<1>10. ASSUME NEW i \in 1..n, Kept(text, i)
       PROVE  at[i] = at[i - 1] + 1 /\ at[i] \in 1..m /\ x[at[i]] = b[i]
  <2>1. i - 1 \in 0..n /\ i \in 0..n /\ i \in i..n /\ n \in i..n
    BY <1>0
  <2>2. upTo[i] = Append(upTo[i - 1], b[i]) /\ upTo[i - 1] \in Seq(Runes) /\ b[i] \in Runes
    BY <1>1, <1>2, <1>7, <1>10, <2>1
  <2>3. Len(upTo[i]) = Len(upTo[i - 1]) + 1 /\ upTo[i][Len(upTo[i - 1]) + 1] = b[i]
    BY <2>2, AppendProperties
  <2>4. at[i] = at[i - 1] + 1 /\ upTo[i][at[i]] = b[i]
    BY <2>1, <2>3, <1>5
  <2>5. at[i] <= at[n] /\ at[i] \in 1..m
    BY <2>1, <2>4, <1>7, <1>8, <1>9
  <2>6. x[at[i]] = upTo[i][at[i]]
    <3>1. at[i] \in 1..Len(upTo[i])
      BY <2>1, <2>5, <1>5, <1>7
    <3> QED
      BY <3>1, <2>1, <1>0, <1>3
  <2> QED
    BY <2>4, <2>5, <2>6
<1>11. ASSUME NEW i \in 1..n, NEW j \in 1..n, i < j, Kept(text, j)
       PROVE  at[i] < at[j]
  <2>1. i \in 0..n /\ j - 1 \in i..n /\ j - 1 \in 0..n
    BY <1>0, <1>11
  <2>2. at[i] <= at[j - 1] /\ at[j] = at[j - 1] + 1
    BY <2>1, <1>9, <1>10, <1>11
  <2> QED
    BY <2>1, <2>2, <1>7
<1>12. ASSUME NEW v \in 1..m
       PROVE  src[v] \in 1..n /\ Kept(text, src[v]) /\ at[src[v]] = v /\ x[v] = b[src[v]]
  <2>1. \E j \in 1..n : Kept(text, j) /\ at[j] = v
    <3>1. \A j \in 1..n : j \in 0..n
      BY <1>0
    <3> QED
      BY <3>1, <1>4, <1>5
  <2>2. src[v] = CHOOSE j \in 1..n : Kept(text, j) /\ at[j] = v
    OBVIOUS
  <2> HIDE DEF src
  <2>3. src[v] \in 1..n /\ Kept(text, src[v]) /\ at[src[v]] = v
    BY <2>1, <2>2
  <2> QED
    BY <2>3, <1>10
<1>13. src \in [1..m -> 1..n]
  <2>1. \A v \in 1..m : src[v] \in 1..n
    BY <1>12
  <2> DEFINE f == [v \in 1..m |-> src[v]]
  <2>2. src = f
    OBVIOUS
  <2>3. f \in [1..m -> 1..n]
    <3> HIDE DEF src
    <3> QED
      BY <2>1
  <2> HIDE DEF src, f
  <2> QED
    BY <2>2, <2>3
<1> HIDE DEF src, x, m
<1>14. ASSUME NEW u \in 1..m, NEW v \in 1..m, u < v PROVE src[u] < src[v]
  <2> SUFFICES ASSUME ~(src[u] < src[v]) PROVE FALSE
    OBVIOUS
  <2>1. src[v] \in 1..n /\ src[u] \in 1..n /\ at[src[u]] = u /\ at[src[v]] = v
    BY <1>12
  <2>2. src[v] \in 0..n /\ src[u] \in src[v]..n
    BY <2>1, <1>0
  <2>3. at[src[v]] <= at[src[u]]
    BY <2>2, <1>9
  <2> QED
    BY <2>1, <2>3, <1>14
<1>15. ASSUME NEW v \in 1..m, Sought(x[v]) PROVE text[src[v]] = x[v]
  <2>1. src[v] \in 1..n /\ x[v] = b[src[v]]
    BY <1>12
  <2> QED
    BY <2>1, <1>2, <1>15
<1>16. ASSUME NEW i \in 1..n, Sought(text[i])
       PROVE  \E v \in 1..m : src[v] = i /\ x[v] = text[i]
  <2>1. b[i] = text[i] /\ b[i] # Space
    BY <1>2, <1>16
  <2>2. Kept(text, i)
    BY <2>1 DEF Kept, b
  <2>3. at[i] \in 1..m /\ x[at[i]] = text[i]
    BY <2>1, <2>2, <1>10
  <2> DEFINE v == at[i]
  <2>4. src[v] \in 1..n /\ Kept(text, src[v]) /\ at[src[v]] = v
    BY <2>3, <1>12
  <2>5. ~(src[v] < i) /\ ~(i < src[v])
    BY <2>2, <2>3, <2>4, <1>11
  <2>6. src[v] = i
    BY <2>4, <2>5
  <2> QED
    BY <2>3, <2>6
<1>17. ASSUME NEW v \in 1..(m - 1), IsSearchWordRune(x[v]), IsSearchWordRune(x[v + 1])
       PROVE  src[v + 1] = src[v] + 1
  <2>1. v \in 1..m /\ v + 1 \in 1..m /\ v < v + 1
    BY <1>8
  <2> DEFINE i == src[v]
             w == v + 1
             j == src[w]
  <2>2. i \in 1..n /\ j \in 1..n /\ at[i] = v /\ at[j] = w /\ x[v] = b[i] /\ x[w] = b[j] /\ i < j
        /\ w \in 1..m
    <3> HIDE DEF w
    <3>1. w \in 1..m /\ v < w
      BY <2>1 DEF w
    <3> QED
      BY <2>1, <3>1, <1>12, <1>14
  <2>3. b[i] # Space /\ b[j] # Space
    BY <2>2, <1>2, <1>17 DEF Sought
  <2>4. ASSUME NEW k \in (i + 1)..(j - 1) PROVE ~Kept(text, k)
    <3> SUFFICES ASSUME Kept(text, k) PROVE FALSE
      OBVIOUS
    <3>1. k \in 1..n /\ i < k /\ k - 1 \in 0..n /\ k \in 0..n /\ j - 1 \in k..n /\ j - 1 \in 0..n
      BY <2>2, <1>0
    <3>2. at[i] < at[k] /\ at[k] \in 1..m
      BY <2>2, <3>1, <1>10, <1>11
    <3>3. Kept(text, j)
      BY <2>2, <1>12
    <3>4. at[k] < at[j]
      <4>1. k < j
        BY <2>2
      <4> QED
        BY <2>2, <3>1, <3>3, <4>1, <1>11
    <3> QED
      BY <2>2, <3>2, <3>4
  <2> HIDE DEF i, j
  <2>5. j = i + 1
    BY <2>2, <2>3, <2>4, BlankKept DEF b
  <2> QED
    BY <2>5 DEF i, j
<1>18. ASSUME NEW v \in 1..m PROVE x[v] \notin HanSymbols
  BY <1>2, <1>12
<1>19. Embeds(x, text, src)
  BY <1>13, <1>14, <1>15, <1>16, <1>17, <1>18 DEF Embeds, m
<1> QED
  BY <1>6, <1>8, <1>19

\* What normalizeQueryText leaves of a text has the words of the text, but for Han symbols
\* (query_pipeline.go, normalizeQueryText: it blanks every rune that no word is made of).
THEOREM NormalizedWords ==
  ASSUME NEW text \in Seq(Runes)
  PROVE  /\ NormalizeQueryText(text) \in Seq(Runes)
         /\ Words(NormalizeQueryText(text)) = SoughtWords(text)
<1> DEFINE x == NormalizeQueryText(text)
<1>1. PICK src : Embeds(x, text, src)
  BY NormalizedEmbeds
<1>2. x \in Seq(Runes)
  BY NormalizedEmbeds
<1> HIDE DEF x
<1>3. Words(x) = SoughtWords(text)
  BY <1>1, <1>2, SameWords
<1> QED
  BY <1>2, <1>3 DEF x

(***************************************************************************)
(* Without keys a text within a document has the tokens it has alone.      *)
(***************************************************************************)
LEMMA KeylessSteps ==
  ASSUME NEW text \in Seq(Runes), NEW i \in 1..Len(text)
  PROVE  \/ HanStep(text, {}, i)
         \/ \E e \in (i + 1)..(Len(text) + 1), last \in i..Len(text) :
              WordStep(text, {}, i, e, last)
         \/ SkipStep(text, {}, i)
<1>1. {} \in Dictionary
  BY DEF Dictionary
<1> QED
  BY <1>1, StepCases

\* raw stands in d after i runes, and no word reaches over its end.
Within(text, d, i) ==
  /\ i \in 0..(Len(d) - Len(text))
  /\ text = SubSeq(d, i + 1, i + Len(text))
  /\ NoWordAcross(d, i + Len(text))

\* The runes of a text that stands in a document.
LEMMA SameRunes ==
  ASSUME NEW d \in Seq(Runes), NEW text \in Seq(Runes), NEW i, Within(text, d, i)
  PROVE  /\ i \in Nat /\ i + Len(text) <= Len(d)
         /\ \A k \in 1..Len(text) : i + k \in 1..Len(d) /\ text[k] = d[i + k]
<1>0. i \in Nat /\ Len(text) \in Nat /\ Len(d) \in Nat /\ i + Len(text) <= Len(d)
  BY DEF Within
<1>1. ASSUME NEW k \in 1..Len(text) PROVE i + k \in 1..Len(d) /\ text[k] = d[i + k]
  <2> DEFINE f == i + 1
             l == i + Len(text)
  <2>1. f \in 1..Len(d) /\ l \in f..Len(d) /\ l - f + 1 = Len(text) /\ f + k - 1 = i + k
    BY <1>0
  <2>2. text = SubSeq(d, f, l)
    BY DEF Within
  <2> HIDE DEF f, l
  <2>3. \A j \in 1..(l - f + 1) : SubSeq(d, f, l)[j] = d[f + j - 1]
    BY <2>1, SegmentOf
  <2>4. text[k] = d[f + k - 1]
    BY <2>1, <2>2, <2>3
  <2> QED
    BY <1>0, <2>1, <2>4
<1> QED
  BY <1>0, <1>1

\* The parts of a text that stands in a document.
LEMMA SamePart ==
  ASSUME NEW d \in Seq(Runes), NEW text \in Seq(Runes), NEW i, Within(text, d, i),
         NEW p \in 1..Len(text), NEW q \in p..Len(text)
  PROVE  SubSeq(d, i + p, i + q) = SubSeq(text, p, q)
<1>0. i \in Nat /\ Len(text) \in Nat /\ Len(d) \in Nat /\ p \in Nat /\ q \in Nat
      /\ i + Len(text) <= Len(d) /\ \A k \in 1..Len(text) : text[k] = d[i + k]
  BY SameRunes
<1> DEFINE a == i + p
           z == i + q
<1>1. a \in 1..Len(d) /\ z \in a..Len(d) /\ z - a + 1 = q - p + 1
  BY <1>0
<1> HIDE DEF a, z
<1>2. /\ SubSeq(d, a, z) \in Seq(Runes) /\ Len(SubSeq(d, a, z)) = q - p + 1
      /\ \A k \in 1..(q - p + 1) : SubSeq(d, a, z)[k] = d[a + k - 1]
  BY <1>1, SegmentOf
<1>3. /\ SubSeq(text, p, q) \in Seq(Runes) /\ Len(SubSeq(text, p, q)) = q - p + 1
      /\ \A k \in 1..(q - p + 1) : SubSeq(text, p, q)[k] = text[p + k - 1]
  BY SegmentOf
<1>4. ASSUME NEW k \in 1..(q - p + 1) PROVE d[a + k - 1] = text[p + k - 1]
  <2>1. p + k - 1 \in 1..Len(text) /\ a + k - 1 = i + (p + k - 1)
    BY <1>0 DEF a
  <2> QED
    BY <1>0, <2>1
<1>5. \A k \in 1..Len(SubSeq(d, a, z)) : SubSeq(d, a, z)[k] = SubSeq(text, p, q)[k]
  BY <1>2, <1>3, <1>4
<1>6. SubSeq(d, a, z) = SubSeq(text, p, q)
  BY <1>2, <1>3, <1>5, SeqEqual
<1> QED
  BY <1>6 DEF a, z

\* A word ends in one place.
LEMMA EndsOnce ==
  ASSUME NEW text \in Seq(Runes), NEW i \in 1..Len(text), NEW e, NEW f,
         EndsAt(text, i, e), EndsAt(text, i, f)
  PROVE  e = f
<1>1. e \in (i + 1)..(Len(text) + 1) /\ f \in (i + 1)..(Len(text) + 1)
  BY DEF EndsAt
<1>2. ASSUME e < f PROVE FALSE
  <2>1. e \in (i + 1)..(f - 1) /\ e <= Len(text)
    BY <1>1, <1>2
  <2> QED
    BY <2>1 DEF EndsAt
<1>3. ASSUME f < e PROVE FALSE
  <2>1. f \in (i + 1)..(e - 1) /\ f <= Len(text)
    BY <1>1, <1>3
  <2> QED
    BY <2>1 DEF EndsAt
<1> QED
  BY <1>1, <1>2, <1>3

\* The token of a word ends in one place.
LEMMA TrimmedOnce ==
  ASSUME NEW text \in Seq(Runes), NEW i \in 1..Len(text), NEW e \in (i + 1)..(Len(text) + 1),
         NEW l, NEW m, TrimmedAt(text, i, e, l), TrimmedAt(text, i, e, m)
  PROVE  l = m
<1>1. l \in i..(e - 1) /\ m \in i..(e - 1)
  BY DEF TrimmedAt
<1>2. ASSUME l < m PROVE FALSE
  <2>1. m \in (l + 1)..(e - 1)
    BY <1>1, <1>2
  <2> QED
    BY <2>1 DEF TrimmedAt
<1>3. ASSUME m < l PROVE FALSE
  <2>1. l \in (m + 1)..(e - 1)
    BY <1>1, <1>3
  <2> QED
    BY <2>1 DEF TrimmedAt
<1> QED
  BY <1>1, <1>2, <1>3

\* Within the document the tokenizer takes the steps it takes in the text alone.
LEMMA SameStep ==
  ASSUME NEW d \in Seq(Runes), NEW text \in Seq(Runes), NEW i, Within(text, d, i),
         NEW p \in 1..Len(text)
  PROVE  /\ TokenAt(d, {}, i + p) = TokenAt(text, {}, p)
         /\ NextAt(d, {}, i + p) = i + NextAt(text, {}, p)
<1> DEFINE n == Len(text)
           a == i + p
<1>0. i \in Nat /\ n \in Nat /\ Len(d) \in Nat /\ p \in Nat /\ i + n <= Len(d)
      /\ a \in 1..Len(d) /\ a \in Nat
      /\ \A k \in 1..n : i + k \in 1..Len(d) /\ text[k] = d[i + k]
  BY SameRunes
<1>1. d[a] = text[p]
  BY <1>0
<1>2. \/ HanStep(d, {}, a)
      \/ \E e \in (a + 1)..(Len(d) + 1), last \in a..Len(d) : WordStep(d, {}, a, e, last)
      \/ SkipStep(d, {}, a)
  <2> HIDE DEF a
  <2> QED
    BY <1>0, KeylessSteps
<1>3. \/ HanStep(text, {}, p)
      \/ \E e \in (p + 1)..(n + 1), last \in p..n : WordStep(text, {}, p, e, last)
      \/ SkipStep(text, {}, p)
  BY KeylessSteps
<1>4. Han \cap Letters = {}
  BY ClassesAssumption
<1> HIDE DEF a, n
<1>5. CASE text[p] \in Han
  <2>1. HanStep(d, {}, a) /\ HanStep(text, {}, p)
    BY <1>1, <1>2, <1>3, <1>4, <1>5 DEF WordStep, SkipStep
  <2>2. a + 1 = i + (p + 1)
    BY <1>0 DEF a
  <2> QED
    BY <1>1, <2>1, <2>2 DEF HanStep, a
<1>6. CASE text[p] \notin Han \cup Letters
  <2>1. SkipStep(d, {}, a) /\ SkipStep(text, {}, p)
    BY <1>1, <1>2, <1>3, <1>6 DEF WordStep, HanStep
  <2>2. a + 1 = i + (p + 1)
    BY <1>0 DEF a
  <2> QED
    BY <2>1, <2>2 DEF SkipStep, a
<1>7. CASE text[p] \in Letters
  <2>1. PICK e \in (p + 1)..(n + 1), last \in p..n : WordStep(text, {}, p, e, last)
    BY <1>3, <1>4, <1>7 DEF HanStep, SkipStep
  <2>2. PICK f \in (a + 1)..(Len(d) + 1), end \in a..Len(d) : WordStep(d, {}, a, f, end)
    BY <1>1, <1>2, <1>4, <1>7 DEF HanStep, SkipStep
  <2>3. /\ EndsAt(text, p, e) /\ TrimmedAt(text, p, e, last)
        /\ TokenAt(text, {}, p) = <<SubSeq(text, p, last)>> /\ NextAt(text, {}, p) = e
        /\ EndsAt(d, a, f) /\ TrimmedAt(d, a, f, end)
        /\ TokenAt(d, {}, a) = <<SubSeq(d, a, end)>> /\ NextAt(d, {}, a) = f
    BY <2>1, <2>2 DEF WordStep
  <2> DEFINE g == i + e
             m == i + last
  <2>4. g \in (a + 1)..(Len(d) + 1) /\ last \in p..(e - 1) /\ m \in a..(g - 1) /\ e \in Nat
        /\ last \in Nat
    <3>1. last \in p..(e - 1)
      BY <2>3 DEF TrimmedAt
    <3> QED
      BY <1>0, <3>1 DEF a
  <2>5. ASSUME NEW j \in (a + 1)..(g - 1) PROVE IsSearchWordRune(d[j])
    <3> DEFINE k == j - i
    <3>1. k \in (p + 1)..(e - 1) /\ k \in 1..n /\ j = i + k
      BY <1>0, <2>1 DEF a
    <3> HIDE DEF k
    <3>2. IsSearchWordRune(text[k])
      BY <2>3, <3>1 DEF EndsAt
    <3> QED
      BY <1>0, <3>1, <3>2
  <2>6. ASSUME g <= Len(d) PROVE ~IsSearchWordRune(d[g])
    <3>1. CASE e <= n
      <4>1. e \in 1..n
        BY <1>0, <2>1, <3>1
      <4> QED
        BY <1>0, <2>3, <3>1, <4>1 DEF EndsAt, n
    <3>2. CASE ~(e <= n)
      <4>1. e = n + 1 /\ g = i + n + 1 /\ i + n # 0 /\ i + n # Len(d) /\ n \in 1..n
        BY <1>0, <2>1, <2>6, <3>2
      <4>2. IsSearchWordRune(text[n])
        <5>1. p \in 1..n /\ n \in Nat /\ e - 1 = n
          <6>1. e - 1 = n
            BY <1>0, <4>1
          <6> QED
            BY <1>0, <6>1 DEF n
        <5>2. n = p \/ n \in (p + 1)..n
          BY <5>1
        <5> QED
          BY <5>1, <5>2, <1>7, <2>3 DEF EndsAt, IsSearchWordRune
      <4>3. IsSearchWordRune(d[i + n])
        BY <1>0, <4>1, <4>2
      <4>4. NoWordAcross(d, i + n)
        BY DEF Within, n
      <4>5. ~IsSearchWordRune(d[i + n + 1])
        BY <4>1, <4>3, <4>4 DEF NoWordAcross
      <4> QED
        BY <4>1, <4>5
    <3> QED
      BY <3>1, <3>2
  <2>7. EndsAt(d, a, g)
    BY <2>4, <2>5, <2>6 DEF EndsAt
  <2>8. f = g
    <3> HIDE DEF g
    <3> QED
      BY <1>0, <2>3, <2>7, EndsOnce
  <2>9. TrimmedAt(d, a, g, m)
    <3>1. d[m] \notin Trailing
      <4>1. last \in 1..n
        BY <1>0, <2>1
      <4>2. d[m] = text[last]
        BY <1>0, <4>1
      <4> QED
        BY <2>3, <4>2 DEF TrimmedAt
    <3>2. ASSUME NEW j \in (m + 1)..(g - 1) PROVE d[j] \in Trailing
      <4> DEFINE k == j - i
      <4>1. k \in (last + 1)..(e - 1) /\ k \in 1..n /\ j = i + k
        BY <1>0, <2>1, <2>4
      <4> HIDE DEF k
      <4>2. text[k] \in Trailing
        BY <2>3, <4>1 DEF TrimmedAt
      <4> QED
        BY <1>0, <4>1, <4>2
    <3> QED
      BY <2>4, <3>1, <3>2 DEF TrimmedAt
  <2>10. end = m
    <3>1. TrimmedAt(d, a, g, end) /\ g \in (a + 1)..(Len(d) + 1)
      BY <2>3, <2>4, <2>8
    <3> HIDE DEF g, m
    <3> QED
      BY <1>0, <2>9, <3>1, TrimmedOnce
  <2>11. SubSeq(d, a, end) = SubSeq(text, p, last)
    BY <2>10, SamePart DEF a, n
  <2> QED
    BY <2>3, <2>8, <2>11 DEF a
<1> QED
  BY <1>5, <1>6, <1>7 DEF a

\* Tokens in a row, and where each of them stands.
LEMMA TokensConcat ==
  ASSUME NEW a \in Tokens, NEW b \in Tokens, NEW c \in Tokens
  PROVE  /\ a \o b \in Tokens
         /\ Len(a) \in Nat /\ Len(b) \in Nat /\ Len(a \o b) = Len(a) + Len(b)
         /\ \A j \in 1..Len(a) : (a \o b)[j] = a[j]
         /\ \A j \in 1..Len(b) : (a \o b)[Len(a) + j] = b[j]
         /\ a \o (b \o c) = (a \o b) \o c
<1>1. a \in Seq(Token) /\ b \in Seq(Token) /\ c \in Seq(Token)
  BY DEF Tokens
<1>2. (a \o b) \o c = a \o (b \o c)
  BY <1>1, ConcatAssociative
<1>3. /\ a \o b \in Seq(Token)
      /\ Len(a) \in Nat /\ Len(b) \in Nat /\ Len(a \o b) = Len(a) + Len(b)
      /\ \A j \in 1..Len(a) : (a \o b)[j] = a[j]
      /\ \A j \in 1..Len(b) : (a \o b)[Len(a) + j] = b[j]
  BY <1>1
<1> QED
  BY <1>2, <1>3 DEF Tokens

\* The tokens from a position on: that of the step there and those from the next position on.
LEMMA KeylessUnfold ==
  ASSUME NEW text \in Seq(Runes)
  PROVE  /\ TokensFrom(text, {})[Len(text) + 1] = <<>>
         /\ \A i \in 1..Len(text) :
              /\ TokensFrom(text, {})[i]
                   = TokenAt(text, {}, i) \o TokensFrom(text, {})[NextAt(text, {}, i)]
              /\ TokenAt(text, {}, i) \in Tokens
              /\ NextAt(text, {}, i) \in (i + 1)..(Len(text) + 1)
         /\ \A i \in 1..(Len(text) + 1) : TokensFrom(text, {})[i] \in Tokens
<1>1. {} \in Dictionary
  BY DEF Dictionary
<1> QED
  BY <1>1, TokensUnfold, TokenType, TokensType, NextIsAhead

\* The tokens of d from within text on are those of text and those after it.
LEMMA TokensWithin ==
  ASSUME NEW d \in Seq(Runes), NEW text \in Seq(Runes), NEW i, Within(text, d, i)
  PROVE  TokensFrom(d, {})[i + 1] = TokensFrom(text, {})[1] \o TokensFrom(d, {})[i + Len(text) + 1]
<1> DEFINE n == Len(text)
           from == TokensFrom(text, {})
           fromD == TokensFrom(d, {})
           post == fromD[i + n + 1]
           S == {p \in 1..(n + 1) : fromD[i + p] = from[p] \o post}
<1>0. i \in Nat /\ n \in Nat /\ Len(d) \in Nat /\ i + n <= Len(d)
  BY SameRunes
<1>1. from[n + 1] = <<>> /\ \A p \in 1..(n + 1) : from[p] \in Tokens
  BY KeylessUnfold
<1>2. ASSUME NEW p \in 1..n
      PROVE  /\ from[p] = TokenAt(text, {}, p) \o from[NextAt(text, {}, p)]
             /\ TokenAt(text, {}, p) \in Tokens /\ NextAt(text, {}, p) \in (p + 1)..(n + 1)
  BY KeylessUnfold
<1>3. ASSUME NEW q \in 1..Len(d)
      PROVE  fromD[q] = TokenAt(d, {}, q) \o fromD[NextAt(d, {}, q)]
  BY KeylessUnfold
<1>4. \A q \in 1..(Len(d) + 1) : fromD[q] \in Tokens
  BY KeylessUnfold
<1>5. post \in Tokens
  <2>1. i + n + 1 \in 1..(Len(d) + 1)
    BY <1>0
  <2> QED
    BY <2>1, <1>4
<1>6. ASSUME NEW p \in 1..n
      PROVE  /\ TokenAt(d, {}, i + p) = TokenAt(text, {}, p)
             /\ NextAt(d, {}, i + p) = i + NextAt(text, {}, p)
  BY SameStep
<1> HIDE DEF from, fromD, post, n
<1>7. n + 1 \in S
  <2>1. n + 1 \in 1..(n + 1) /\ i + (n + 1) = i + n + 1
    BY <1>0
  <2>2. <<>> \o post = post
    BY <1>5, ConcatEmptySeq DEF Tokens
  <2>3. fromD[i + (n + 1)] = post
    BY <2>1 DEF post
  <2> QED
    BY <2>1, <2>2, <2>3, <1>1
<1>8. ASSUME NEW p \in 1..n, \A j \in (p + 1)..(n + 1) : j \in S
      PROVE  p \in S
  <2> DEFINE t == TokenAt(text, {}, p)
             m == NextAt(text, {}, p)
  <2>1. from[p] = t \o from[m] /\ t \in Tokens /\ m \in (p + 1)..(n + 1)
    BY <1>2
  <2>2. fromD[i + m] = from[m] \o post
    BY <2>1, <1>8
  <2>3. fromD[i + p] = t \o fromD[i + m]
    <3> DEFINE q == i + p
    <3>1. q \in 1..Len(d)
      BY <1>0
    <3>2. TokenAt(d, {}, q) = t /\ NextAt(d, {}, q) = i + m
      BY <1>6
    <3> HIDE DEF q, t, m
    <3>3. fromD[q] = t \o fromD[i + m]
      BY <3>1, <3>2, <1>3
    <3> QED
      BY <3>3 DEF q
  <2> HIDE DEF t, m
  <2>4. from[m] \in Tokens /\ p \in 1..(n + 1)
    BY <1>0, <1>1, <2>1
  <2>5. t \o (from[m] \o post) = (t \o from[m]) \o post
    BY <1>5, <2>1, <2>4, TokensConcat
  <2>6. fromD[i + p] = from[p] \o post
    BY <2>1, <2>2, <2>3, <2>5
  <2> QED
    BY <2>4, <2>6
<1>9. 1..(n + 1) \subseteq S
  <2> HIDE DEF S
  <2> QED
    BY <1>0, <1>7, <1>8, Downward
<1>10. 1 \in S
  <2>1. 1 \in 1..(n + 1)
    BY <1>0
  <2> HIDE DEF S
  <2> QED
    BY <1>9, <2>1
<1> QED
  BY <1>10 DEF from, fromD, post, n

\* No token of d reaches over a place that no word reaches over.
LEMMA TokensBefore ==
  ASSUME NEW d \in Seq(Runes), NEW i \in 0..Len(d), NoWordAcross(d, i)
  PROVE  \E pre \in Tokens : TokensFrom(d, {})[1] = pre \o TokensFrom(d, {})[i + 1]
<1> DEFINE from == TokensFrom(d, {})
           S == {q \in 1..(i + 1) : \E pre \in Tokens : from[q] = pre \o from[i + 1]}
<1>0. i \in Nat /\ Len(d) \in Nat
  OBVIOUS
<1>1. \A q \in 1..(Len(d) + 1) : from[q] \in Tokens
  BY KeylessUnfold
<1>2. ASSUME NEW q \in 1..Len(d)
      PROVE  from[q] = TokenAt(d, {}, q) \o from[NextAt(d, {}, q)] /\ TokenAt(d, {}, q) \in Tokens
  BY KeylessUnfold
<1> HIDE DEF from
<1>3. i + 1 \in S
  <2>1. i + 1 \in 1..(i + 1) /\ from[i + 1] \in Tokens /\ <<>> \in Tokens
    BY <1>0, <1>1 DEF Tokens
  <2>2. from[i + 1] = <<>> \o from[i + 1]
    BY <2>1, ConcatEmptySeq DEF Tokens
  <2> QED
    BY <2>1, <2>2
<1>4. ASSUME NEW q \in 1..i PROVE NextAt(d, {}, q) \in (q + 1)..(i + 1)
  <2>0. q \in 1..Len(d) /\ q \in Nat
    BY <1>0
  <2>1. \/ HanStep(d, {}, q)
        \/ \E e \in (q + 1)..(Len(d) + 1), last \in q..Len(d) : WordStep(d, {}, q, e, last)
        \/ SkipStep(d, {}, q)
    BY <2>0, KeylessSteps
  <2>2. CASE HanStep(d, {}, q) \/ SkipStep(d, {}, q)
    BY <2>0, <2>2, <1>0 DEF HanStep, SkipStep
  <2>3. ASSUME NEW e \in (q + 1)..(Len(d) + 1), NEW last, WordStep(d, {}, q, e, last)
        PROVE  NextAt(d, {}, q) \in (q + 1)..(i + 1)
    <3>1. NextAt(d, {}, q) = e /\ EndsAt(d, q, e) /\ d[q] \in Letters
      BY <2>3 DEF WordStep
    <3>2. e <= i + 1
      <4> SUFFICES ASSUME ~(e <= i + 1) PROVE FALSE
        OBVIOUS
      <4>1. i + 1 \in (q + 1)..(e - 1) /\ i # 0 /\ i # Len(d) /\ (i = q \/ i \in (q + 1)..(e - 1))
        BY <2>0, <1>0
      <4>2. IsSearchWordRune(d[i + 1]) /\ IsSearchWordRune(d[i])
        BY <3>1, <4>1 DEF EndsAt, IsSearchWordRune
      <4> QED
        BY <4>1, <4>2 DEF NoWordAcross
    <3> QED
      BY <2>0, <1>0, <3>1, <3>2
  <2> QED
    BY <2>1, <2>2, <2>3
<1>5. ASSUME NEW q \in 1..i, \A j \in (q + 1)..(i + 1) : j \in S
      PROVE  q \in S
  <2> DEFINE t == TokenAt(d, {}, q)
             m == NextAt(d, {}, q)
  <2>1. from[q] = t \o from[m] /\ t \in Tokens
    <3>1. q \in 1..Len(d)
      BY <1>0
    <3> QED
      BY <3>1, <1>2
  <2>2. m \in S
    BY <1>4, <1>5
  <2>3. PICK pre \in Tokens : from[m] = pre \o from[i + 1]
    BY <2>2
  <2>4. from[i + 1] \in Tokens /\ q \in 1..(i + 1)
    BY <1>0, <1>1
  <2> HIDE DEF t, m
  <2>5. t \o (pre \o from[i + 1]) = (t \o pre) \o from[i + 1]
    BY <2>1, <2>3, <2>4, TokensConcat
  <2>6. t \o pre \in Tokens
    BY <2>1, <2>3, TokensConcat
  <2>7. from[q] = (t \o pre) \o from[i + 1]
    BY <2>1, <2>3, <2>5
  <2> QED
    BY <2>4, <2>6, <2>7
<1>6. 1..(i + 1) \subseteq S
  <2> HIDE DEF S
  <2> QED
    BY <1>0, <1>3, <1>5, Downward
<1>7. 1 \in S
  <2>1. 1 \in 1..(i + 1)
    BY <1>0
  <2> HIDE DEF S
  <2> QED
    BY <1>6, <2>1
<1> QED
  BY <1>7 DEF from

\* A text that stands in a document as whole words is a phrase of the document's tokens
\* (query_pipeline.go, TokenizeForSearch; search_input.go, the phrase clause).
THEOREM PhraseFound ==
  ASSUME NEW d \in Seq(Runes), NEW text \in Seq(Runes), NEW i, Within(text, d, i),
         NoWordAcross(d, i)
  PROVE  Occurs(TokenizeForSearch(text), TokenizeForSearch(d))
<1> DEFINE phrase == TokenizeForSearch(text)
           tokens == TokenizeForSearch(d)
           post == TokensFrom(d, {})[i + Len(text) + 1]
<1>0. i \in Nat /\ Len(text) \in Nat /\ Len(d) \in Nat /\ i + Len(text) <= Len(d)
  BY SameRunes
<1>1. PICK pre \in Tokens : tokens = pre \o TokensFrom(d, {})[i + 1]
  <2>1. i \in 0..Len(d)
    BY <1>0
  <2> QED
    BY <2>1, TokensBefore DEF TokenizeForSearch, TokenizeWithDictionary
<1>2. TokensFrom(d, {})[i + 1] = phrase \o post
  BY TokensWithin DEF TokenizeForSearch, TokenizeWithDictionary
<1>3. phrase \in Tokens /\ post \in Tokens
  <2>1. 1 \in 1..(Len(text) + 1) /\ i + Len(text) + 1 \in 1..(Len(d) + 1)
    BY <1>0
  <2> QED
    BY <2>1, KeylessUnfold DEF TokenizeForSearch, TokenizeWithDictionary
<1>4. tokens = pre \o (phrase \o post)
  BY <1>1, <1>2
<1> HIDE DEF phrase, tokens, post
<1>5. /\ Len(pre) \in Nat /\ Len(phrase) \in Nat /\ Len(post) \in Nat
      /\ phrase \o post \in Tokens /\ Len(phrase \o post) = Len(phrase) + Len(post)
      /\ \A j \in 1..Len(phrase) : (phrase \o post)[j] = phrase[j]
  BY <1>1, <1>3 DEF Tokens
<1> DEFINE rest == phrase \o post
<1> HIDE DEF rest
<1>6. /\ rest \in Tokens /\ Len(rest) = Len(phrase) + Len(post) /\ tokens = pre \o rest
      /\ \A j \in 1..Len(phrase) : rest[j] = phrase[j]
  BY <1>4, <1>5 DEF rest
<1>7. /\ Len(tokens) = Len(pre) + Len(rest)
      /\ \A j \in 1..Len(rest) : tokens[Len(pre) + j] = rest[j]
  <2>1. /\ Len(pre \o rest) = Len(pre) + Len(rest)
        /\ \A j \in 1..Len(rest) : (pre \o rest)[Len(pre) + j] = rest[j]
    BY <1>1, <1>6, TokensConcat
  <2> QED
    BY <1>6, <2>1
<1>8. Len(pre) \in 0..(Len(tokens) - Len(phrase))
  BY <1>5, <1>6, <1>7
<1>9. \A j \in 1..Len(phrase) : tokens[Len(pre) + j] = phrase[j]
  BY <1>5, <1>6, <1>7
<1>10. Occurs(phrase, tokens)
  BY <1>8, <1>9 DEF Occurs
<1> QED
  BY <1>10 DEF phrase, tokens

(***************************************************************************)
(* The lexemes of tokens.                                                  *)
(***************************************************************************)
Lexeme == Seq(Runes)

\* Tokens whose lexemes can be told.
LexTokens == {tokens \in Tokens : \A i \in DOMAIN tokens : Lexemes(tokens[i]) \in Seq(Lexeme)}

\* g gives what is gathered of 1..i for each i up to last.
IsGathering(g, last, piece) ==
  g = [i \in 0..last |-> IF i = 0 THEN <<>> ELSE g[i - 1] \o piece[i]]

\* What is gathered up to each token is determined by what was gathered before it.
LEMMA GatheringExists ==
  ASSUME NEW n \in Nat, NEW piece
  PROVE  \E g : IsGathering(g, n, piece)
<1> DEFINE S == {k \in 0..n : \E g : IsGathering(g, k, piece)}
<1>1. 0 \in S
  <2> DEFINE g == [i \in 0..0 |-> <<>>]
  <2>1. IsGathering(g, 0, piece)
    BY DEF IsGathering
  <2> QED
    BY <2>1
<1>2. ASSUME NEW k \in 1..n, k - 1 \in S PROVE k \in S
  <2>1. PICK f : IsGathering(f, k - 1, piece)
    BY <1>2
  <2> DEFINE g == [i \in 0..k |-> IF i = k THEN f[k - 1] \o piece[k] ELSE f[i]]
  <2>2. ASSUME NEW i \in 0..k
        PROVE  g[i] = IF i = 0 THEN <<>> ELSE g[i - 1] \o piece[i]
    <3>1. i # 0 => i - 1 \in 0..(k - 1) /\ g[i - 1] = f[i - 1]
      OBVIOUS
    <3>2. ASSUME i # k
          PROVE  f[i] = IF i = 0 THEN <<>> ELSE f[i - 1] \o piece[i]
      <4>1. i \in 0..(k - 1)
        BY <3>2
      <4> QED
        BY <4>1, <2>1 DEF IsGathering
    <3> QED
      BY <3>1, <3>2
  <2>3. IsGathering(g, k, piece)
    BY <2>2 DEF IsGathering
  <2> QED
    BY <2>3
<1>3. 0..n \subseteq S
  <2> HIDE DEF S
  <2> QED
    BY <1>1, <1>2, Upward
<1> QED
  BY <1>3

AreGathered(g, tokens) ==
  g = [i \in 0..Len(tokens) |-> IF i = 0 THEN <<>> ELSE g[i - 1] \o Lexemes(tokens[i])]

\* LexemesUpTo gathers as its definition says, if it can be done at all.
LEMMA GatheringSolves ==
  ASSUME NEW tokens, NEW g, AreGathered(g, tokens)
  PROVE  AreGathered(LexemesUpTo(tokens), tokens)
  BY DEF LexemesUpTo, AreGathered

\* The lexemes up to each token: those up to the one before it and its own.
LEMMA LexemesUnfold ==
  ASSUME NEW tokens \in LexTokens
  PROVE  /\ LexemesUpTo(tokens)[0] = <<>>
         /\ \A i \in 1..Len(tokens) :
              /\ Lexemes(tokens[i]) \in Seq(Lexeme)
              /\ LexemesUpTo(tokens)[i] = LexemesUpTo(tokens)[i - 1] \o Lexemes(tokens[i])
         /\ \A i \in 0..Len(tokens) : LexemesUpTo(tokens)[i] \in Seq(Lexeme)
<1> DEFINE n == Len(tokens)
           piece == [i \in 1..n |-> Lexemes(tokens[i])]
           upTo == LexemesUpTo(tokens)
<1>0. n \in Nat /\ \A i \in 1..n : Lexemes(tokens[i]) \in Seq(Lexeme)
  BY DEF LexTokens, Tokens
<1>1. PICK g : IsGathering(g, n, piece)
  <2> HIDE DEF n, piece
  <2> QED
    BY <1>0, GatheringExists
<1>2. AreGathered(g, tokens)
  <2>1. \A i \in 1..n : piece[i] = Lexemes(tokens[i])
    OBVIOUS
  <2>2. g = [i \in 0..n |-> IF i = 0 THEN <<>> ELSE g[i - 1] \o piece[i]]
    BY <1>1 DEF IsGathering
  <2>3. ASSUME NEW i \in 0..n
        PROVE  (IF i = 0 THEN <<>> ELSE g[i - 1] \o piece[i])
                 = (IF i = 0 THEN <<>> ELSE g[i - 1] \o Lexemes(tokens[i]))
    <3>1. i # 0 => i \in 1..n
      BY <1>0
    <3> HIDE DEF piece
    <3> QED
      BY <2>1, <3>1
  <2> HIDE DEF piece
  <2> QED
    BY <2>2, <2>3 DEF AreGathered
<1>3. AreGathered(upTo, tokens)
  BY <1>2, GatheringSolves
<1>4. upTo = [i \in 0..n |-> IF i = 0 THEN <<>> ELSE upTo[i - 1] \o Lexemes(tokens[i])]
  BY <1>3 DEF AreGathered
<1> HIDE DEF upTo, n
<1>5. upTo[0] = <<>>
  <2>1. 0 \in 0..n
    BY <1>0
  <2> QED
    BY <2>1, <1>4
<1>6. ASSUME NEW i \in 1..n
      PROVE  upTo[i] = upTo[i - 1] \o Lexemes(tokens[i])
  <2>1. i \in 0..n /\ i # 0
    BY <1>0
  <2> QED
    BY <2>1, <1>4
<1>7. 0..n \subseteq {k \in 0..n : upTo[k] \in Seq(Lexeme)}
  <2> DEFINE S == {k \in 0..n : upTo[k] \in Seq(Lexeme)}
  <2>1. 0 \in S
    <3>1. <<>> \in Seq(Lexeme)
      BY EmptySeq
    <3>2. 0 \in 0..n
      BY <1>0
    <3>3. upTo[0] \in Seq(Lexeme)
      BY <1>5, <3>1
    <3> QED
      BY <3>2, <3>3
  <2>2. ASSUME NEW k \in 1..n, k - 1 \in S PROVE k \in S
    <3>1. k \in 0..n /\ upTo[k - 1] \in Seq(Lexeme) /\ Lexemes(tokens[k]) \in Seq(Lexeme)
      BY <1>0, <2>2
    <3>2. upTo[k - 1] \o Lexemes(tokens[k]) \in Seq(Lexeme)
      BY <3>1, ConcatProperties
    <3> QED
      BY <1>6, <3>1, <3>2
  <2> HIDE DEF S
  <2>3. 0..n \subseteq S
    BY <1>0, <2>1, <2>2, Upward
  <2> QED
    BY <2>3 DEF S
<1> QED
  BY <1>0, <1>5, <1>6, <1>7 DEF upTo, n

\* Lexemes in a row, and where each of them stands.
LEMMA LexemesConcat ==
  ASSUME NEW a \in Seq(Lexeme), NEW b \in Seq(Lexeme), NEW c \in Seq(Lexeme)
  PROVE  /\ a \o b \in Seq(Lexeme)
         /\ Len(a) \in Nat /\ Len(b) \in Nat /\ Len(a \o b) = Len(a) + Len(b)
         /\ \A j \in 1..Len(a) : (a \o b)[j] = a[j]
         /\ \A j \in 1..Len(b) : (a \o b)[Len(a) + j] = b[j]
         /\ a \o (b \o c) = (a \o b) \o c
         /\ a \o <<>> = a /\ <<>> \o a = a
<1>1. (a \o b) \o c = a \o (b \o c)
  BY ConcatAssociative
<1>2. a \o <<>> = a /\ <<>> \o a = a
  BY ConcatEmptySeq
<1>3. /\ a \o b \in Seq(Lexeme)
      /\ Len(a) \in Nat /\ Len(b) \in Nat /\ Len(a \o b) = Len(a) + Len(b)
      /\ \A j \in 1..Len(a) : (a \o b)[j] = a[j]
      /\ \A j \in 1..Len(b) : (a \o b)[Len(a) + j] = b[j]
  OBVIOUS
<1> QED
  BY <1>1, <1>2, <1>3

\* The lexemes of a concatenation are those of its two parts.
LEMMA LexemesOfBoth ==
  ASSUME NEW a \in Seq(Lexeme), NEW b \in Seq(Lexeme)
  PROVE  TokenSet(a \o b) = TokenSet(a) \cup TokenSet(b)
<1>1. ASSUME NEW i \in 1..(Len(a) + Len(b))
      PROVE  (a \o b)[i] = IF i <= Len(a) THEN a[i] ELSE b[i - Len(a)]
  OBVIOUS
<1>2. ASSUME NEW x \in TokenSet(a \o b) PROVE x \in TokenSet(a) \cup TokenSet(b)
  <2>1. PICK i \in 1..(Len(a) + Len(b)) : x = (a \o b)[i]
    BY DEF TokenSet
  <2>2. CASE i <= Len(a)
    <3>1. i \in DOMAIN a /\ x = a[i]
      BY <1>1, <2>1, <2>2
    <3> QED
      BY <3>1 DEF TokenSet
  <2>3. CASE ~(i <= Len(a))
    <3>1. i - Len(a) \in DOMAIN b /\ x = b[i - Len(a)]
      BY <1>1, <2>1, <2>3
    <3> QED
      BY <3>1 DEF TokenSet
  <2> QED
    BY <2>2, <2>3
<1>3. ASSUME NEW x \in TokenSet(a) PROVE x \in TokenSet(a \o b)
  <2>1. PICK i \in DOMAIN a : x = a[i]
    BY DEF TokenSet
  <2>2. i \in DOMAIN (a \o b) /\ x = (a \o b)[i]
    BY <1>1, <2>1
  <2> QED
    BY <2>2 DEF TokenSet
<1>4. ASSUME NEW x \in TokenSet(b) PROVE x \in TokenSet(a \o b)
  <2>1. PICK i \in DOMAIN b : x = b[i]
    BY DEF TokenSet
  <2>2. Len(a) + i \in DOMAIN (a \o b) /\ x = (a \o b)[Len(a) + i]
    BY <2>1
  <2> QED
    BY <2>2 DEF TokenSet
<1> QED
  BY <1>2, <1>3, <1>4

\* The lexemes of tokens are what PostgreSQL keeps of each.
LEMMA LexemesOfTokens ==
  ASSUME NEW tokens \in LexTokens
  PROVE  /\ LexemesOf(tokens) \in Seq(Lexeme)
         /\ TokenSet(LexemesOf(tokens)) = LexemeSet(TokenSet(tokens))
<1> DEFINE n == Len(tokens)
           upTo == LexemesUpTo(tokens)
           Of(k) == UNION {TokenSet(Lexemes(tokens[i])) : i \in 1..k}
           S == {k \in 0..n : TokenSet(upTo[k]) = Of(k)}
<1>0. n \in Nat /\ DOMAIN tokens = 1..n
  BY DEF LexTokens, Tokens
<1>1. /\ upTo[0] = <<>>
      /\ \A i \in 1..n : /\ Lexemes(tokens[i]) \in Seq(Lexeme)
                         /\ upTo[i] = upTo[i - 1] \o Lexemes(tokens[i])
      /\ \A i \in 0..n : upTo[i] \in Seq(Lexeme)
  BY LexemesUnfold
<1> HIDE DEF n, upTo
<1>2. 0 \in S
  <2>1. TokenSet(upTo[0]) = {}
    BY <1>1 DEF TokenSet
  <2> QED
    BY <1>0, <2>1
<1>3. ASSUME NEW k \in 1..n, k - 1 \in S PROVE k \in S
  <2>1. k - 1 \in 0..n /\ k \in 0..n
    BY <1>0
  <2>2. TokenSet(upTo[k]) = TokenSet(upTo[k - 1]) \cup TokenSet(Lexemes(tokens[k]))
    BY <1>1, <2>1, LexemesOfBoth
  <2>3. 1..k = (1..(k - 1)) \cup {k}
    BY <1>0
  <2>4. Of(k) = Of(k - 1) \cup TokenSet(Lexemes(tokens[k]))
    BY <2>3
  <2>5. TokenSet(upTo[k - 1]) = Of(k - 1)
    BY <1>3
  <2> QED
    BY <2>1, <2>2, <2>4, <2>5
<1>4. n \in S
  <2>1. n \in 0..n
    BY <1>0
  <2> HIDE DEF S
  <2> QED
    BY <1>0, <1>2, <1>3, <2>1, Upward
<1>5. Of(n) = LexemeSet(TokenSet(tokens))
  <2>1. TokenSet(tokens) = {tokens[i] : i \in 1..n}
    BY <1>0 DEF TokenSet
  <2>2. {TokenSet(Lexemes(w)) : w \in TokenSet(tokens)} = {TokenSet(Lexemes(tokens[i])) : i \in 1..n}
    BY <2>1
  <2> QED
    BY <2>2 DEF LexemeSet
<1>6. LexemesOf(tokens) = upTo[n] /\ n \in 0..n
  BY <1>0 DEF LexemesOf, upTo, n
<1> QED
  BY <1>1, <1>4, <1>5, <1>6

\* Of the lexemes up to each token, those up to an earlier one come first.
LEMMA LexemesGrow ==
  ASSUME NEW tokens \in LexTokens, NEW m \in 0..Len(tokens)
  PROVE  \A k \in 0..(Len(tokens) - m) :
           \E rest \in Seq(Lexeme) : LexemesUpTo(tokens)[m + k] = LexemesUpTo(tokens)[m] \o rest
<1> DEFINE n == Len(tokens) - m
           upTo == LexemesUpTo(tokens)
           S == {k \in 0..n : \E rest \in Seq(Lexeme) : upTo[m + k] = upTo[m] \o rest}
<1>0. n \in Nat /\ m \in Nat /\ Len(tokens) \in Nat /\ n + m = Len(tokens)
  BY DEF LexTokens, Tokens
<1>1. /\ \A i \in 1..(n + m) : /\ Lexemes(tokens[i]) \in Seq(Lexeme)
                               /\ upTo[i] = upTo[i - 1] \o Lexemes(tokens[i])
      /\ \A i \in 0..(n + m) : upTo[i] \in Seq(Lexeme)
  BY <1>0, LexemesUnfold
<1> HIDE DEF n, upTo
<1>2. 0 \in S
  <2>1. upTo[m] \in Seq(Lexeme) /\ m + 0 = m /\ 0 \in 0..n
    BY <1>0, <1>1
  <2>2. upTo[m] = upTo[m] \o <<>> /\ <<>> \in Seq(Lexeme)
    BY <2>1, ConcatEmptySeq, EmptySeq
  <2> QED
    BY <2>1, <2>2
<1>3. ASSUME NEW k \in 1..n, k - 1 \in S PROVE k \in S
  <2>1. PICK rest \in Seq(Lexeme) : upTo[m + (k - 1)] = upTo[m] \o rest
    BY <1>3
  <2>2. m + k \in 1..(n + m) /\ m + k - 1 = m + (k - 1) /\ m \in 0..(n + m) /\ k \in 0..n
    BY <1>0
  <2> DEFINE own == Lexemes(tokens[m + k])
  <2>3. own \in Seq(Lexeme) /\ upTo[m + k] = upTo[m + (k - 1)] \o own
    <3>1. \A i \in 1..(n + m) : i = m + k => i - 1 = m + (k - 1)
      BY <2>2
    <3> QED
      BY <1>1, <2>2, <3>1
  <2>4. upTo[m] \in Seq(Lexeme)
    BY <1>1, <2>2
  <2> HIDE DEF own
  <2>5. upTo[m] \o (rest \o own) = (upTo[m] \o rest) \o own
    <3> DEFINE pre == upTo[m]
    <3>1. pre \in Seq(Lexeme) /\ rest \in Seq(Lexeme) /\ own \in Seq(Lexeme)
      BY <2>3, <2>4
    <3> HIDE DEF pre
    <3>2. pre \o (rest \o own) = (pre \o rest) \o own
      BY <3>1, LexemesConcat
    <3> QED
      BY <3>2 DEF pre
  <2>6. rest \o own \in Seq(Lexeme)
    BY <2>3, LexemesConcat
  <2>7. upTo[m + k] = upTo[m] \o (rest \o own)
    BY <2>1, <2>3, <2>5
  <2> QED
    BY <2>2, <2>6, <2>7
<1>4. 0..n \subseteq S
  <2> HIDE DEF S
  <2> QED
    BY <1>0, <1>2, <1>3, Upward
<1> QED
  BY <1>4 DEF n, upTo

\* Where tokens stand among others, their lexemes stand among the lexemes of those.
LEMMA LexemesOccur ==
  ASSUME NEW part \in LexTokens, NEW tokens \in LexTokens, Occurs(part, tokens)
  PROVE  Occurs(LexemesOf(part), LexemesOf(tokens))
<1> DEFINE p == Len(part)
           n == Len(tokens)
           own == LexemesUpTo(part)
           upTo == LexemesUpTo(tokens)
<1>0. p \in Nat /\ n \in Nat
  BY DEF LexTokens, Tokens
<1>1. PICK m \in 0..(n - p) : \A j \in 1..p : tokens[m + j] = part[j]
  BY DEF Occurs
<1>2. /\ own[0] = <<>>
      /\ \A i \in 1..p : /\ Lexemes(part[i]) \in Seq(Lexeme)
                         /\ own[i] = own[i - 1] \o Lexemes(part[i])
      /\ \A i \in 0..p : own[i] \in Seq(Lexeme)
  BY LexemesUnfold
<1>3. /\ \A i \in 1..n : upTo[i] = upTo[i - 1] \o Lexemes(tokens[i])
      /\ \A i \in 0..n : upTo[i] \in Seq(Lexeme)
  BY LexemesUnfold
<1>4. \E rest \in Seq(Lexeme) : upTo[n] = upTo[m + p] \o rest
  <2>1. m + p \in 0..n /\ n - (m + p) \in 0..(n - (m + p)) /\ (m + p) + (n - (m + p)) = n
    BY <1>0
  <2> QED
    BY <2>1, LexemesGrow
<1>5. LexemesOf(part) = own[p] /\ LexemesOf(tokens) = upTo[n]
  BY DEF LexemesOf
<1> HIDE DEF p, n, own, upTo
<1>6. upTo[m + p] = upTo[m] \o own[p]
  <2> DEFINE S == {k \in 0..p : upTo[m + k] = upTo[m] \o own[k]}
  <2>0. m \in 0..n /\ upTo[m] \in Seq(Lexeme)
    BY <1>0, <1>3
  <2>1. 0 \in S
    <3>1. upTo[m] \o <<>> = upTo[m]
      BY <2>0, ConcatEmptySeq
    <3>2. m + 0 = m /\ 0 \in 0..p
      BY <1>0
    <3> QED
      BY <1>2, <3>1, <3>2
  <2>2. ASSUME NEW k \in 1..p, k - 1 \in S PROVE k \in S
    <3>1. m + k \in 1..n /\ m + k - 1 = m + (k - 1) /\ k \in 0..p /\ k - 1 \in 0..p
      BY <1>0
    <3> DEFINE last == Lexemes(part[k])
    <3>2. upTo[m + k] = (upTo[m] \o own[k - 1]) \o last
      <4>1. tokens[m + k] = part[k] /\ upTo[m + (k - 1)] = upTo[m] \o own[k - 1]
        BY <1>1, <2>2
      <4>2. upTo[m + k] = upTo[m + (k - 1)] \o Lexemes(tokens[m + k])
        <5>1. \A i \in 1..n : i = m + k => i - 1 = m + (k - 1)
          BY <3>1
        <5> QED
          BY <1>3, <3>1, <5>1
      <4> QED
        BY <4>1, <4>2
    <3>3. own[k - 1] \in Seq(Lexeme) /\ last \in Seq(Lexeme) /\ own[k] = own[k - 1] \o last
      BY <1>2, <3>1
    <3> DEFINE pre == upTo[m]
               mid == own[k - 1]
    <3>4. pre \o (mid \o last) = (pre \o mid) \o last
      <4>1. pre \in Seq(Lexeme) /\ mid \in Seq(Lexeme) /\ last \in Seq(Lexeme)
        BY <2>0, <3>3
      <4> HIDE DEF pre, mid, last
      <4> QED
        BY <4>1, LexemesConcat
    <3> HIDE DEF last
    <3> QED
      BY <3>1, <3>2, <3>3, <3>4
  <2>3. p \in S
    <3>1. p \in 0..p
      BY <1>0
    <3> HIDE DEF S
    <3> QED
      BY <1>0, <2>1, <2>2, <3>1, Upward
  <2> QED
    BY <2>3
<1>7. PICK rest \in Seq(Lexeme) : upTo[n] = upTo[m + p] \o rest
  BY <1>4
<1> DEFINE pre == upTo[m]
           run == own[p]
           all == upTo[n]
<1>8. all = (pre \o run) \o rest
  BY <1>6, <1>7
<1>9. pre \in Seq(Lexeme) /\ run \in Seq(Lexeme)
  <2>1. m \in 0..n /\ p \in 0..p
    BY <1>0
  <2> QED
    BY <1>2, <1>3, <2>1
<1> HIDE DEF pre, run, all
<1>10. /\ pre \o run \in Seq(Lexeme) /\ Len(pre \o run) = Len(pre) + Len(run)
       /\ Len(pre) \in Nat /\ Len(run) \in Nat
       /\ \A j \in 1..Len(run) : (pre \o run)[Len(pre) + j] = run[j]
  BY <1>9, LexemesConcat
<1> DEFINE start == pre \o run
<1> HIDE DEF start
<1>11. /\ start \in Seq(Lexeme) /\ Len(start) = Len(pre) + Len(run) /\ all = start \o rest
       /\ \A j \in 1..Len(run) : start[Len(pre) + j] = run[j]
  BY <1>8, <1>10 DEF start
<1>12. /\ Len(rest) \in Nat /\ Len(all) = Len(start) + Len(rest)
       /\ \A j \in 1..Len(start) : all[j] = start[j]
  BY <1>11, LexemesConcat
<1>13. Len(pre) \in 0..(Len(all) - Len(run))
  BY <1>10, <1>11, <1>12
<1>14. \A j \in 1..Len(run) : all[Len(pre) + j] = run[j]
  BY <1>10, <1>11, <1>12
<1> QED
  BY <1>5, <1>13, <1>14 DEF Occurs, run, all

\* The lexemes of a token follow each other among those of the tokens it is one of.
LEMMA TokenOccurs ==
  ASSUME NEW tokens \in LexTokens, NEW token \in TokenSet(tokens)
  PROVE  /\ Lexemes(token) \in Seq(Lexeme)
         /\ Occurs(Lexemes(token), LexemesOf(tokens))
<1> DEFINE part == <<token>>
<1>0. Len(tokens) \in Nat /\ DOMAIN tokens = 1..Len(tokens)
  BY DEF LexTokens, Tokens
<1>1. PICK i \in 1..Len(tokens) : token = tokens[i]
  BY <1>0 DEF TokenSet
<1>2. token \in Token /\ Lexemes(token) \in Seq(Lexeme)
  BY <1>0, <1>1 DEF LexTokens, Tokens
<1>3. part \in LexTokens /\ Len(part) = 1
  BY <1>2 DEF LexTokens, Tokens
<1>4. Occurs(part, tokens)
  <2>1. i - 1 \in 0..(Len(tokens) - Len(part))
    BY <1>0, <1>3
  <2>2. \A j \in 1..Len(part) : tokens[(i - 1) + j] = part[j]
    BY <1>0, <1>1
  <2> QED
    BY <2>1, <2>2 DEF Occurs
<1>5. LexemesOf(part) = Lexemes(token)
  <2>1. 1 \in 1..Len(part) /\ part[1] = token /\ 1 - 1 = 0
    BY <1>3
  <2>2. LexemesUpTo(part)[1] = <<>> \o Lexemes(token)
    <3> HIDE DEF part
    <3> QED
      BY <1>3, <2>1, LexemesUnfold
  <2>3. <<>> \o Lexemes(token) = Lexemes(token)
    BY <1>2, ConcatEmptySeq
  <2> QED
    BY <1>3, <2>2, <2>3 DEF LexemesOf
<1> HIDE DEF part
<1> QED
  BY <1>2, <1>3, <1>4, <1>5, LexemesOccur

\* What occurs in a vector has no other lexemes.
LEMMA OccursWithin ==
  ASSUME NEW run \in Seq(Lexeme), NEW vector \in Seq(Lexeme), Occurs(run, vector)
  PROVE  TokenSet(run) \subseteq TokenSet(vector)
<1> SUFFICES ASSUME NEW j \in 1..Len(run) PROVE run[j] \in TokenSet(vector)
  BY DEF TokenSet
<1>1. PICK i \in 0..(Len(vector) - Len(run)) : \A l \in 1..Len(run) : vector[i + l] = run[l]
  BY DEF Occurs
<1>2. i + j \in DOMAIN vector /\ vector[i + j] = run[j]
  BY <1>1
<1> QED
  BY <1>2 DEF TokenSet

(***************************************************************************)
(* What a query asks for, said with words instead of tokens.               *)
(***************************************************************************)
\* The words of a term, or those of one of its synonyms that has any.
WordAlternatives(dictionary, term) ==
  {Words(term)} \cup ({Words(s) : s \in SynonymsOf(dictionary, term)} \ {{}})

Terms(text, dictionary) == TokenSet(TokenizeWithDictionary(NormalizeQueryText(text), Keys(dictionary)))

\* The keys of a dictionary are texts of at least one rune, its synonyms are texts.
LEMMA KeysOfDictionary ==
  ASSUME NEW dictionary \in Dictionaries
  PROVE  /\ Keys(dictionary) \in Dictionary
         /\ \A term : SynonymsOf(dictionary, term) \subseteq Seq(Runes)
  BY TextsAssumption DEF Keys, Dictionary, SynonymsOf

\* The terms of a query are texts, made of its words.
LEMMA TermsOfQuery ==
  ASSUME NEW text \in Seq(Runes), NEW dictionary \in Dictionaries
  PROVE  /\ Terms(text, dictionary) \subseteq Seq(Runes)
         /\ \A term \in Terms(text, dictionary) :
              /\ Words(term) \subseteq SoughtWords(text)
              /\ term \in Keys(dictionary) \/ Words(term) = {term}
         /\ \A w \in SoughtWords(text) : \E term \in Terms(text, dictionary) : w \in Words(term)
<1> DEFINE x == NormalizeQueryText(text)
           keys == Keys(dictionary)
<1>1. x \in Seq(Runes)
  BY NormalizedWords
<1>2. Words(x) = SoughtWords(text)
  BY NormalizedWords
<1>3. keys \in Dictionary
  BY KeysOfDictionary
<1>4. Terms(text, dictionary) = TokenSet(TokenizeWithDictionary(x, keys))
  BY DEF Terms
<1> HIDE DEF x, keys
<1>5. TokenizeWithDictionary(x, keys) \in Tokens
  <2>1. 1 \in 1..(Len(x) + 1)
    BY <1>1
  <2> QED
    BY <1>1, <1>3, <2>1, TokensType DEF TokenizeWithDictionary
<1>6. Terms(text, dictionary) \subseteq Seq(Runes)
  BY <1>4, <1>5 DEF Tokens, Token, TokenSet
<1>7. /\ Sound(x, keys, Terms(text, dictionary))
      /\ \A w \in Words(x) : \E t \in Terms(text, dictionary) : w \in Words(t)
  BY <1>1, <1>3, <1>4, WordsOfTokens
<1> QED
  BY <1>2, <1>6, <1>7 DEF Sound, keys

\* The alternatives of a term, in tokens, are its words or those of a synonym.
LEMMA AlternativesAreWords ==
  ASSUME NEW dictionary \in Dictionaries, NEW term \in Seq(Runes)
  PROVE  Alternatives(dictionary, term) = WordAlternatives(dictionary, term)
<1>1. \A s \in SynonymsOf(dictionary, term) : TokenSet(TokenizeForSearch(s)) = Words(s)
  BY KeysOfDictionary, TokensAreWords
<1>2. TokenSet(TokenizeForSearch(term)) = Words(term)
  BY TokensAreWords
<1>3. {TokenSet(TokenizeForSearch(s)) : s \in SynonymsOf(dictionary, term)}
        = {Words(s) : s \in SynonymsOf(dictionary, term)}
  BY <1>1
<1> QED
  BY <1>2, <1>3 DEF Alternatives, WordAlternatives

\* The groups of a query are the alternatives of its terms, but for one that asks for nothing.
LEMMA GroupsOfQuery ==
  ASSUME NEW text \in Seq(Runes), NEW dictionary \in Dictionaries, NEW group
  PROVE  group \in Build(text, dictionary)
           <=> /\ \E term \in Terms(text, dictionary) : group = WordAlternatives(dictionary, term)
               /\ group # {{}}
<1>1. Build(text, dictionary)
        = {Alternatives(dictionary, term) : term \in Terms(text, dictionary)} \ {{{}}}
  BY DEF Build, Terms
<1>2. \A term \in Terms(text, dictionary) :
        Alternatives(dictionary, term) = WordAlternatives(dictionary, term)
  BY TermsOfQuery, AlternativesAreWords
<1> QED
  BY <1>1, <1>2

\* The tokens of what is parsed are its words, and their lexemes can be told.
LEMMA ParsedTokens ==
  ASSUME NEW text \in ParsedTexts
  PROVE  /\ text \in Seq(Runes)
         /\ TokenizeForSearch(text) \in LexTokens
         /\ TokenSet(TokenizeForSearch(text)) = Words(text)
         /\ \A w \in Words(text) : Lexemes(w) \in Seq(Lexeme)
<1> DEFINE tokens == TokenizeForSearch(text)
<1>1. text \in Seq(Runes)
  BY TextsAssumption DEF ParsedTexts
<1>2. TokenSet(tokens) = Words(text)
  BY <1>1, TokensAreWords
<1>3. tokens \in Tokens
  <2>1. 1 \in 1..(Len(text) + 1)
    BY <1>1
  <2> QED
    BY <1>1, <2>1, KeylessUnfold DEF TokenizeForSearch, TokenizeWithDictionary
<1>4. \A w \in Words(text) : Lexemes(w) \in Seq(Lexeme)
  BY LexemesAssumption DEF Lexeme
<1> HIDE DEF tokens
<1>5. tokens \in LexTokens
  BY <1>2, <1>3, <1>4 DEF LexTokens, TokenSet
<1> QED
  BY <1>1, <1>2, <1>4, <1>5 DEF tokens

\* The lexemes a document is indexed with are those of its words, each word's in a row.
LEMMA VectorOfWords ==
  ASSUME NEW d \in Documents
  PROVE  /\ SearchVector[d] = LexemesOf(TokenizeForSearch(d))
         /\ SearchVector[d] \in Seq(Lexeme)
         /\ TokenSet(SearchVector[d]) = LexemeSet(Words(d))
         /\ \A w \in Words(d) : Occurs(Lexemes(w), SearchVector[d])
         /\ DocumentWords[d] = Words(d)
<1>1. SearchVector[d] = LexemesOf(TokenizeForSearch(d))
  BY DEF SearchVector, FtsText
<1>2. d \in ParsedTexts
  BY DEF ParsedTexts
<1>3. TokenizeForSearch(d) \in LexTokens /\ TokenSet(TokenizeForSearch(d)) = Words(d)
  BY <1>2, ParsedTokens
<1>4. \A w \in Words(d) : Occurs(Lexemes(w), LexemesOf(TokenizeForSearch(d)))
  BY <1>3, TokenOccurs
<1>5. /\ LexemesOf(TokenizeForSearch(d)) \in Seq(Lexeme)
      /\ TokenSet(LexemesOf(TokenizeForSearch(d))) = LexemeSet(Words(d))
  BY <1>3, LexemesOfTokens
<1> QED
  BY <1>1, <1>4, <1>5 DEF DocumentWords

\* A document satisfies a query if in each group there is an alternative PostgreSQL does not
\* drop, all of whose words it has.
LEMMA FoundByAlternatives ==
  ASSUME NEW d \in Documents, NEW query, query # {},
         \A group \in query : \E alternative \in group :
           Runs(alternative) # {} /\ alternative \subseteq Words(d)
  PROVE  Finds(query, SearchVector[d])
<1> DEFINE Left(group) == {Runs(alternative) : alternative \in group} \ {{}}
<1>1. ASSUME NEW group \in query
      PROVE  \E runs \in Left(group) : \A run \in runs : Occurs(run, SearchVector[d])
  <2>1. PICK alternative \in group : Runs(alternative) # {} /\ alternative \subseteq Words(d)
    OBVIOUS
  <2>2. \A run \in Runs(alternative) : Occurs(run, SearchVector[d])
    BY <2>1, VectorOfWords DEF Runs
  <2>3. Runs(alternative) \in Left(group)
    BY <2>1
  <2> QED
    BY <2>2, <2>3
<1>2. Parsed(query) = {Left(group) : group \in query} \ {{}}
  BY DEF Parsed
<1> HIDE DEF Left
<1>3. \A parsed \in Parsed(query) :
        \E runs \in parsed : \A run \in runs : Occurs(run, SearchVector[d])
  BY <1>1, <1>2
<1>4. PICK group \in query : TRUE
  OBVIOUS
<1>5. Left(group) \in Parsed(query)
  BY <1>1, <1>2
<1> QED
  BY <1>3, <1>5 DEF Finds

\* Of a group with a word of lexemes, a document that satisfies the query has an alternative
\* that is not dropped.
LEMMA FoundHasAlternative ==
  ASSUME NEW d \in Documents, NEW query, Finds(query, SearchVector[d]),
         NEW group \in query, NEW some \in group, Runs(some) # {}
  PROVE  \E alternative \in group :
           /\ Runs(alternative) # {}
           /\ \A run \in Runs(alternative) : Occurs(run, SearchVector[d])
<1> DEFINE left == {Runs(alternative) : alternative \in group} \ {{}}
<1>1. left # {}
  OBVIOUS
<1>2. left \in Parsed(query)
  <2>1. left \in {{Runs(alternative) : alternative \in g} \ {{}} : g \in query}
    OBVIOUS
  <2> HIDE DEF left
  <2> QED
    BY <1>1, <2>1 DEF Parsed
<1>3. PICK runs \in left : \A run \in runs : Occurs(run, SearchVector[d])
  BY <1>2 DEF Finds
<1> QED
  BY <1>3

\* Words whose lexemes occur in a document, each in a row, have no other lexemes.
LEMMA LexemesWithin ==
  ASSUME NEW d \in Documents, NEW words,
         \A w \in words : Lexemes(w) \in Seq(Lexeme),
         \A run \in Runs(words) : Occurs(run, SearchVector[d])
  PROVE  LexemeSet(words) \subseteq LexemeSet(DocumentWords[d])
<1> SUFFICES ASSUME NEW w \in words, NEW lexeme \in TokenSet(Lexemes(w))
             PROVE  lexeme \in LexemeSet(DocumentWords[d])
  BY DEF LexemeSet
<1>1. Lexemes(w) # <<>> /\ Lexemes(w) \in Seq(Lexeme)
  BY DEF TokenSet
<1>2. Occurs(Lexemes(w), SearchVector[d])
  BY <1>1 DEF Runs
<1>3. TokenSet(Lexemes(w)) \subseteq TokenSet(SearchVector[d])
  BY <1>1, <1>2, VectorOfWords, OccursWithin
<1> QED
  BY <1>3, VectorOfWords

\* Words with a lexeme are not dropped, words without one are.
LEMMA RunsOfWords ==
  ASSUME NEW words, \A w \in words : Lexemes(w) \in Seq(Lexeme)
  PROVE  Runs(words) # {} <=> LexemeSet(words) # {}
<1>1. ASSUME NEW w \in words PROVE Lexemes(w) # <<>> <=> TokenSet(Lexemes(w)) # {}
  <2>1. Lexemes(w) # <<>> => 1 \in DOMAIN Lexemes(w)
    OBVIOUS
  <2>2. Lexemes(w) = <<>> => TokenSet(Lexemes(w)) = {}
    BY TokenSetOfOne
  <2> QED
    BY <2>1, <2>2 DEF TokenSet
<1>2. Runs(words) # {} <=> \E w \in words : Lexemes(w) # <<>>
  BY DEF Runs
<1>3. LexemeSet(words) # {} <=> \E w \in words : TokenSet(Lexemes(w)) # {}
  BY DEF LexemeSet
<1> QED
  BY <1>1, <1>2, <1>3

(***************************************************************************)
(* The query that is built and its answer.                                 *)
(***************************************************************************)
TextInv ==
  /\ raw \in Texts /\ synonyms \in Dictionaries
  /\ phase # "received" => tsquery = Build(raw, synonyms)
  /\ phase = "answered" =>
       /\ ~Malformed(tsquery)
       /\ answer = {d \in Documents : tsquery = {} \/ Finds(tsquery, SearchVector[d])}

\* The query is built once, from the text and the dictionary of the request, and answered once.
LEMMA TextInvInductive ==
  /\ TextInit => TextInv
  /\ TextInv /\ [TextNext]_textVars => TextInv'
<1>1. TextInit => TextInv
  BY DEF TextInit, TextInv
<1>2. ASSUME TextInv, [TextNext]_textVars PROVE TextInv'
  <2>1. CASE BuildQuery
    <3>2. phase' # "answered"
      BY <2>1 DEF BuildQuery
    <3> QED
      BY <1>2, <2>1, <3>2 DEF TextInv, BuildQuery
  <2>2. CASE Answer
    <3>1. phase' = "answered" =>
            /\ ~Malformed(tsquery)
            /\ answer' = {d \in Documents : tsquery = {} \/ Finds(tsquery, SearchVector[d])}
      BY <2>2 DEF Answer
    <3>2. raw' = raw /\ synonyms' = synonyms /\ tsquery' = tsquery /\ phase = "built"
      BY <2>2 DEF Answer
    <3> QED
      BY <1>2, <3>1, <3>2 DEF TextInv
  <2>3. CASE UNCHANGED textVars
    BY <1>2, <2>3 DEF TextInv, textVars
  <2> QED
    BY <1>2, <2>1, <2>2, <2>3 DEF TextNext
<1> QED
  BY <1>1, <1>2

\* It holds of every state: what the theorems below rest on.
LEMMA TextInvariant == TextSpec => []TextInv
<1>1. TextInit => TextInv
  BY TextInvInductive
<1>2. TextInv /\ [TextNext]_textVars => TextInv'
  BY TextInvInductive
<1> QED
  BY <1>1, <1>2, PTL DEF TextSpec

\* The text of a request is one of those that are parsed.
LEMMA TextIsRunes ==
  ASSUME TextInv
  PROVE  raw \in Seq(Runes) /\ raw \in ParsedTexts
  BY TextsAssumption DEF TextInv, ParsedTexts

\* A document with all the words of a query is found, whatever the dictionary and whatever
\* lexemes PostgreSQL makes of the words, as long as it makes some of each: the keys
\* tokenizeWithDictionary cuts the query at (query_pipeline.go) take no document away.
THEOREM WordsAreFound == TextSpec => []FoundByItsWords
<1>1. TextInv => FoundByItsWords
  <2> SUFFICES ASSUME TextInv, phase = "answered",
                      \A w \in SoughtWords(raw) : Lexemes(w) # <<>>,
                      NEW d \in Documents, SoughtWords(raw) \subseteq DocumentWords[d]
               PROVE  d \in answer
    BY DEF FoundByItsWords
  <2>1. raw \in Seq(Runes) /\ synonyms \in Dictionaries
    BY TextIsRunes DEF TextInv
  <2>2. /\ tsquery = Build(raw, synonyms) /\ ~Malformed(tsquery)
        /\ answer = {e \in Documents : tsquery = {} \/ Finds(tsquery, SearchVector[e])}
    BY DEF TextInv
  <2>3. ASSUME NEW group \in tsquery
        PROVE  \E alternative \in group : Runs(alternative) # {} /\ alternative \subseteq Words(d)
    <3>1. PICK term \in Terms(raw, synonyms) : group = WordAlternatives(synonyms, term)
      BY <2>1, <2>2, GroupsOfQuery
    <3>2. Words(term) \in group
      BY <3>1 DEF WordAlternatives
    <3>3. Words(term) # {}
      BY <2>2, <3>2 DEF Malformed
    <3>4. Words(term) \subseteq SoughtWords(raw)
      BY <2>1, TermsOfQuery
    <3>5. Runs(Words(term)) # {}
      BY <3>3, <3>4 DEF Runs
    <3>6. Words(term) \subseteq Words(d)
      BY <3>4, VectorOfWords
    <3> QED
      BY <3>2, <3>5, <3>6
  <2>4. tsquery # {} => Finds(tsquery, SearchVector[d])
    BY <2>3, FoundByAlternatives
  <2> QED
    BY <2>2, <2>4
<1> QED
  BY <1>1, TextInvariant, PTL

\* A document that is found has every lexeme of the words of the query, or every lexeme of a
\* synonym of one of its keys, whatever PostgreSQL makes of the tokens (query_pipeline.go, Build:
\* the alternatives of a group, the words of each; service.go, to_tsvector and to_tsquery).
THEOREM FoundHasAReason == TextSpec => []FoundForAReason
<1>1. TextInv => FoundForAReason
  <2> SUFFICES ASSUME TextInv, phase = "answered", NEW d \in answer,
                      ~(LexemeSet(SoughtWords(raw)) \subseteq LexemeSet(DocumentWords[d]))
               PROVE  \E key \in Keys(synonyms) : \E s \in synonyms[key] :
                        /\ LexemeSet(Words(s)) # {}
                        /\ LexemeSet(Words(s)) \subseteq LexemeSet(DocumentWords[d])
    BY DEF FoundForAReason
  <2>1. raw \in Seq(Runes) /\ raw \in ParsedTexts /\ synonyms \in Dictionaries
    BY TextIsRunes DEF TextInv
  <2>2. /\ tsquery = Build(raw, synonyms)
        /\ d \in Documents /\ (tsquery = {} \/ Finds(tsquery, SearchVector[d]))
    BY DEF TextInv
  <2>3. PICK w \in SoughtWords(raw) : ~(TokenSet(Lexemes(w)) \subseteq LexemeSet(DocumentWords[d]))
    BY DEF LexemeSet
  <2>4. PICK term \in Terms(raw, synonyms) : w \in Words(term)
    BY <2>1, TermsOfQuery
  <2>5. \A v \in Words(term) : Lexemes(v) \in Seq(Lexeme)
    <3>1. Words(term) \subseteq Words(raw)
      BY <2>1, TermsOfQuery DEF SoughtWords
    <3> QED
      BY <2>1, <3>1, ParsedTokens
  <2>6. ~(LexemeSet(Words(term)) \subseteq LexemeSet(DocumentWords[d]))
    BY <2>3, <2>4 DEF LexemeSet
  <2>7. Runs(Words(term)) # {}
    BY <2>5, <2>6, RunsOfWords
  <2> DEFINE group == WordAlternatives(synonyms, term)
  <2>8. Words(term) \in group
    BY DEF WordAlternatives
  <2>9. group \in tsquery
    <3>1. group # {{}}
      BY <2>4, <2>8
    <3> HIDE DEF group
    <3>2. \E t \in Terms(raw, synonyms) : group = WordAlternatives(synonyms, t)
      BY DEF group
    <3> QED
      BY <2>1, <2>2, <3>1, <3>2, GroupsOfQuery
  <2>10. PICK alternative \in group :
           /\ Runs(alternative) # {}
           /\ \A run \in Runs(alternative) : Occurs(run, SearchVector[d])
    <3> HIDE DEF group
    <3> QED
      BY <2>2, <2>7, <2>8, <2>9, FoundHasAlternative
  <2>11. alternative # Words(term)
    BY <2>2, <2>5, <2>6, <2>10, LexemesWithin
  <2>12. PICK s \in SynonymsOf(synonyms, term) : alternative = Words(s)
    BY <2>10, <2>11 DEF WordAlternatives
  <2>13. term \in Keys(synonyms) /\ s \in synonyms[term]
    BY <2>12 DEF SynonymsOf
  <2>14. \A v \in Words(s) : Lexemes(v) \in Seq(Lexeme)
    <3>1. s \in ParsedTexts
      BY <2>1, <2>13 DEF ParsedTexts, Keys
    <3> QED
      BY <3>1, ParsedTokens
  <2>15. LexemeSet(Words(s)) # {}
    BY <2>10, <2>12, <2>14, RunsOfWords
  <2>16. LexemeSet(Words(s)) \subseteq LexemeSet(DocumentWords[d])
    BY <2>2, <2>10, <2>12, <2>14, LexemesWithin
  <2> QED
    BY <2>13, <2>15, <2>16
<1> QED
  BY <1>1, TextInvariant, PTL

\* A text without words is refused before it reaches the database, and no other; the query of
\* any other can be parsed, as long as every key has a word (query_pipeline.go, Build).
THEOREM OnlyWordlessIsRefused == TextSpec => []SearchableOrRefused
<1>1. TextInv => SearchableOrRefused
  <2> SUFFICES ASSUME TextInv PROVE SearchableOrRefused
    OBVIOUS
  <2>1. raw \in Seq(Runes) /\ synonyms \in Dictionaries
    BY TextIsRunes DEF TextInv
  <2>2. ClauseRefused(raw) <=> Words(raw) = {}
    <3>1. TokenSet(TokenizeForSearch(raw)) = Words(raw)
      BY <2>1, TokensAreWords
    <3>2. TokenizeForSearch(raw) \in Tokens
      <4>1. 1 \in 1..(Len(raw) + 1)
        BY <2>1
      <4> QED
        BY <2>1, <4>1, KeylessUnfold DEF TokenizeForSearch, TokenizeWithDictionary
    <3>3. ASSUME NEW tokens \in Tokens PROVE tokens = <<>> <=> TokenSet(tokens) = {}
      <4>1. tokens # <<>> => 1 \in DOMAIN tokens
        BY DEF Tokens
      <4>2. tokens = <<>> => TokenSet(tokens) = {}
        BY TokenSetOfOne
      <4> QED
        BY <4>1, <4>2 DEF TokenSet
    <3> QED
      BY <3>1, <3>2, <3>3 DEF ClauseRefused
  <2>3. ASSUME phase # "received", \A key \in Keys(synonyms) : Words(key) # {}
        PROVE  ~Malformed(tsquery) /\ (tsquery = {} <=> SoughtWords(raw) = {})
    <3>1. tsquery = Build(raw, synonyms)
      BY <2>3 DEF TextInv
    <3>2. \A term \in Terms(raw, synonyms) : Words(term) # {} /\ Words(term) \subseteq SoughtWords(raw)
      BY <2>1, <2>3, TermsOfQuery
    <3>3. ASSUME NEW group \in tsquery PROVE {} \notin group
      <4>1. PICK term \in Terms(raw, synonyms) : group = WordAlternatives(synonyms, term)
        BY <2>1, <3>1, GroupsOfQuery
      <4> QED
        BY <3>2, <4>1 DEF WordAlternatives
    <3>4. ASSUME NEW term \in Terms(raw, synonyms) PROVE tsquery # {}
      <4> DEFINE group == WordAlternatives(synonyms, term)
      <4>1. Words(term) \in group /\ Words(term) # {}
        BY <3>2 DEF WordAlternatives
      <4>2. group # {{}}
        BY <4>1
      <4>3. \E t \in Terms(raw, synonyms) : group = WordAlternatives(synonyms, t)
        OBVIOUS
      <4> HIDE DEF group
      <4>4. group \in tsquery
        BY <2>1, <3>1, <4>2, <4>3, GroupsOfQuery
      <4> QED
        BY <4>4
    <3>5. Terms(raw, synonyms) = {} => tsquery = {}
      BY <2>1, <3>1, GroupsOfQuery
    <3>6. SoughtWords(raw) = {} <=> Terms(raw, synonyms) = {}
      BY <2>1, <3>2, TermsOfQuery
    <3> QED
      BY <3>3, <3>4, <3>5, <3>6 DEF Malformed
  <2> QED
    BY <2>2, <2>3 DEF SearchableOrRefused
<1> QED
  BY <1>1, TextInvariant, PTL

\* A text that is a key is one token.
THEOREM KeyIsOneToken ==
  ASSUME NEW text \in Seq(Runes), NEW keys \in Dictionary, text \in keys
  PROVE  TokenizeWithDictionary(text, keys) = <<text>>
<1> DEFINE n == Len(text)
           from == TokensFrom(text, keys)
<1>0. text # <<>> /\ n \in Nat \ {0} /\ 1 \in 1..n
  BY EmptySeq DEF Dictionary
<1>1. MatchesAt(text, text, 1)
  <2>1. SubSeq(text, 1, n) = text
    BY SubSeqFull
  <2>2. StandsAt(text, text, 1)
    BY <1>0, <2>1 DEF StandsAt
  <2> QED
    BY <1>0, <2>2 DEF MatchesAt, OnBoundary
<1>2. \E key \in keys : KeyStep(text, keys, 1, key)
  <2>1. MatchingAt(text, keys, 1) # {}
    BY <1>1 DEF MatchingAt
  <2> DEFINE key == Longest(MatchingAt(text, keys, 1))
  <2>2. key \in MatchingAt(text, keys, 1)
        /\ \A other \in MatchingAt(text, keys, 1) : Len(other) <= Len(key)
    BY <1>0, <2>1, LongestMatches
  <2>3. TokenAt(text, keys, 1) = <<key>> /\ NextAt(text, keys, 1) = 1 + Len(key)
    BY <2>1 DEF TokenAt, NextAt
  <2> HIDE DEF key
  <2> QED
    BY <2>2, <2>3 DEF KeyStep, MatchingAt
<1>3. PICK key \in keys : KeyStep(text, keys, 1, key)
  BY <1>2
<1>4. /\ Len(key) \in 1..(n + 1 - 1) /\ key = SubSeq(text, 1, 1 + Len(key) - 1)
  BY <1>0, <1>3, KeyStands DEF KeyStep
<1>5. n <= Len(key)
  BY <1>1, <1>3 DEF KeyStep
<1>6. Len(key) = n /\ 1 + Len(key) - 1 = n
  BY <1>0, <1>4, <1>5
<1>7. key = text
  BY <1>4, <1>6, SubSeqFull
<1>8. from[1] = <<text>> \o from[n + 1]
  <2>1. from[1] = TokenAt(text, keys, 1) \o from[NextAt(text, keys, 1)]
    BY <1>0, TokensUnfold
  <2>2. TokenAt(text, keys, 1) = <<text>> /\ NextAt(text, keys, 1) = n + 1
    BY <1>0, <1>3, <1>6, <1>7 DEF KeyStep
  <2> QED
    BY <2>1, <2>2
<1>9. from[n + 1] = <<>>
  BY TokensUnfold
<1>10. <<text>> \o <<>> = <<text>>
  BY ConcatEmptySeq
<1> QED
  BY <1>8, <1>9, <1>10 DEF TokenizeWithDictionary

\* A search for a key finds what its synonyms name: of the keys that match the longest is taken
\* (query_pipeline.go, tokenizeWithDictionary).
THEOREM KeysExpand == TextSpec => []KeysAreExpanded
<1>1. TextInv => KeysAreExpanded
  <2> DEFINE x == NormalizeQueryText(raw)
  <2> SUFFICES ASSUME TextInv, phase = "answered", x \in Keys(synonyms),
                      NEW d \in Documents, NEW s \in synonyms[x],
                      LexemeSet(Words(s)) # {}, Words(s) \subseteq DocumentWords[d]
               PROVE  d \in answer
    BY DEF KeysAreExpanded
  <2>1. raw \in Seq(Runes) /\ synonyms \in Dictionaries
    BY TextIsRunes DEF TextInv
  <2>2. /\ tsquery = Build(raw, synonyms)
        /\ answer = {e \in Documents : tsquery = {} \/ Finds(tsquery, SearchVector[e])}
    BY DEF TextInv
  <2>3. Terms(raw, synonyms) = {x}
    <3>1. x \in Seq(Runes) /\ Keys(synonyms) \in Dictionary
      BY <2>1, NormalizedEmbeds, KeysOfDictionary
    <3> HIDE DEF x
    <3>2. TokenizeWithDictionary(x, Keys(synonyms)) = <<x>>
      BY <3>1, KeyIsOneToken
    <3> QED
      BY <3>2, TokenSetOfOne DEF Terms, x
  <2> HIDE DEF x
  <2>4. Runs(Words(s)) # {}
    <3>1. s \in ParsedTexts
      BY <2>1 DEF ParsedTexts, Keys
    <3> QED
      BY <3>1, ParsedTokens, RunsOfWords
  <2>5. Words(s) # {} /\ Words(s) \subseteq Words(d)
    BY <2>4, VectorOfWords DEF Runs
  <2>6. ASSUME NEW group \in tsquery
        PROVE  \E alternative \in group : Runs(alternative) # {} /\ alternative \subseteq Words(d)
    <3>1. group = WordAlternatives(synonyms, x)
      BY <2>1, <2>2, <2>3, GroupsOfQuery
    <3>2. s \in SynonymsOf(synonyms, x)
      BY DEF SynonymsOf
    <3>3. Words(s) \in group
      BY <2>5, <3>1, <3>2 DEF WordAlternatives
    <3> QED
      BY <2>4, <2>5, <3>3
  <2>7. tsquery # {} => Finds(tsquery, SearchVector[d])
    BY <2>6, FoundByAlternatives
  <2> QED
    BY <2>2, <2>7
<1> QED
  BY <1>1, TextInvariant, PTL

\* A phrase clause finds its text wherever it stands in a document as whole words, whatever
\* PostgreSQL makes of the tokens: those of a part are a part of the tokens, and so are their
\* lexemes (query_pipeline.go, TokenizeForSearch; query_filters.go, phraseto_tsquery).
THEOREM PhrasesFound == TextSpec => []PhrasesAreFound
<1>1. TextInv => PhrasesAreFound
  <2> SUFFICES ASSUME TextInv, LexemeSet(Words(raw)) # {},
                      NEW d \in Documents, NEW i \in 0..(Len(d) - Len(raw)),
                      raw = SubSeq(d, i + 1, i + Len(raw)),
                      NoWordAcross(d, i), NoWordAcross(d, i + Len(raw))
               PROVE  FindsPhrase(TokenizeForSearch(raw), SearchVector[d])
    BY DEF PhrasesAreFound
  <2>1. raw \in ParsedTexts /\ d \in ParsedTexts /\ raw \in Seq(Runes) /\ d \in Seq(Runes)
    BY TextIsRunes, TextsAssumption DEF ParsedTexts
  <2>2. Within(raw, d, i)
    BY DEF Within
  <2>3. Occurs(TokenizeForSearch(raw), TokenizeForSearch(d))
    BY <2>1, <2>2, PhraseFound
  <2>4. /\ TokenizeForSearch(raw) \in LexTokens /\ TokenizeForSearch(d) \in LexTokens
        /\ TokenSet(TokenizeForSearch(raw)) = Words(raw)
    BY <2>1, ParsedTokens
  <2>5. Occurs(LexemesOf(TokenizeForSearch(raw)), SearchVector[d])
    BY <2>3, <2>4, LexemesOccur, VectorOfWords
  <2>6. LexemesOf(TokenizeForSearch(raw)) # <<>>
    <3>1. TokenSet(LexemesOf(TokenizeForSearch(raw))) # {}
      BY <2>4, LexemesOfTokens
    <3> QED
      BY <3>1, TokenSetOfOne
  <2> QED
    BY <2>5, <2>6 DEF FindsPhrase
<1> QED
  BY <1>1, TextInvariant, PTL
===============================================================================
