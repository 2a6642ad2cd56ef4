------------------------------ MODULE SearchPages ------------------------------
(***************************************************************************)
(* A client walks through the pages of a search while the index changes.   *)
(* Each page is computed in one read-only snapshot of the index; what       *)
(* connects the pages is the signed cursor alone.  The service keeps no    *)
(* state of a walk, so any replica may serve the next page.                *)
(*                                                                         *)
(* What a row contains is an abstract value: which queries it matches      *)
(* under which configuration, its sort time and its score at a given time  *)
(* are constant functions.                                                 *)
(***************************************************************************)
EXTENDS Integers, FiniteSets

CONSTANTS
  Docs,        \* the (entity_type, entity_id) pairs
  Position,    \* their order: entity_type, entity_id
  Contents,    \* what a row of search_index may contain
  Queries,     \* search conditions other than sort, limit and cursor
  Configs,     \* runtime configurations, equal when their hashes are
  Replicas,    \* processes, each with a configuration of its own
  Matches,     \* Matches[q][c]: contents that query q finds under c
  SortTime,    \* SortTime[x]: coalesce(updated_at, created_at, indexed_at)
  Score,       \* Score[q][s][c][x][t]: the score of x computed for time t
  None,        \* no row, no cursor, no request
  MaxLimit,    \* largest page (100)
  MaxTime,     \* bound: clock
  MaxWrites,   \* bound: writes of documents
  MaxSwitches  \* bound: switches of the generation

Sorts == {"relevance", "popular", "latest"}
Times == 0..MaxTime
Limits == 1..MaxLimit
Generations == 0..MaxSwitches

ASSUME PagesAssumption ==
  /\ IsFiniteSet(Docs)
  /\ Position \in [Docs -> Int]
  /\ \A d, e \in Docs : Position[d] = Position[e] => d = e
  /\ Matches \in [Queries -> [Configs -> SUBSET Contents]]
  /\ SortTime \in [Contents -> Int]
  /\ Score \in [Queries -> [Sorts -> [Configs -> [Contents -> [Times -> Int]]]]]
  /\ None \notin Contents
  /\ MaxLimit \in Nat \ {0}
  /\ MaxTime \in Nat /\ MaxWrites \in Nat /\ MaxSwitches \in Nat

Key == [score : Int, time : Int, pos : Int]

Cursor == [key : Key, query : Queries, sort : Sorts, scoredAt : Times,
           generation : Generations, config : Configs]

Request == [query : Queries, sort : Sorts, limit : Limits, config : Configs,
            cursor : Cursor \cup {None}]

Walk == [query : Queries, sort : Sorts, config : Configs]
View == [generation : Generations, config : Configs]

ASSUME NoneAssumption == None \notin Cursor /\ None \notin Request /\ None \notin Walk

VARIABLES
  rows, generation,  \* the active generation
  config,            \* the configuration of each replica
  now,
  request,           \* the search under way
  cursor,            \* the client's next_cursor
  \* ghosts: the walk of the client
  walk,              \* query, sort and configuration of its first page
  ended,             \* its last page had no next_cursor
  shown,             \* documents it was shown
  repeated,          \* documents it was shown more than once
  steady,            \* documents whose rows have not changed since it began
  views,             \* generation and configuration of its pages
  writes             \* bound

indexVars == <<rows, generation, writes>>
walkVars == <<walk, ended, shown, repeated, views>>
vars == <<indexVars, config, now, request, cursor, walkVars, steady>>

Init ==
  /\ rows \in [Docs -> Contents \cup {None}]
  /\ generation = 0
  /\ config \in [Replicas -> Configs]
  /\ now = 0
  /\ request = None /\ cursor = None
  /\ walk = None
  /\ ended = FALSE
  /\ shown = {} /\ repeated = {} /\ steady = {} /\ views = {}
  /\ writes = 0

-------------------------------------------------------------------------------
(***************************************************************************)
(* What happens around a walk.                                             *)
(***************************************************************************)
Tick ==
  /\ now < MaxTime
  /\ now' = now + 1
  /\ UNCHANGED <<indexVars, config, request, cursor, walkVars, steady>>

\* A transaction of a worker, a job or a route: it stores or removes a row.
WriteDoc(d, x) ==
  /\ writes < MaxWrites
  /\ writes' = writes + 1
  /\ rows' = [rows EXCEPT ![d] = x]
  /\ steady' = steady \ {d}
  /\ UNCHANGED <<generation, config, now, request, cursor, walkVars>>

\* Another generation, its rows rebuilt from the main database.
Switch(new) ==
  /\ generation < MaxSwitches
  /\ generation' = generation + 1
  /\ rows' = new
  /\ steady' = {d \in steady : new[d] = rows[d]}
  /\ UNCHANGED <<writes, config, now, request, cursor, walkVars>>

\* Update and Patch of runtimeConfigStore.
UpdateRuntimeConfig(r, c) ==
  /\ config' = [config EXCEPT ![r] = c]
  /\ UNCHANGED <<indexVars, now, request, cursor, walkVars, steady>>

-------------------------------------------------------------------------------
(***************************************************************************)
(* The order of results and the predicate of the next page.                *)
(***************************************************************************)
\* buildSearchSQLPlan: the score of SortLatest is constant.
SortScore(q, s, c, x, t) == IF s = "latest" THEN 0 ELSE Score[q][s][c][x][t]

KeyOf(d, q, s, c, t) ==
  [score |-> SortScore(q, s, c, rows[d], t), time |-> SortTime[rows[d]], pos |-> Position[d]]

\* ORDER BY sort_score DESC, sort_time DESC, entity_type ASC, entity_id ASC
OrderedBefore(a, b) ==
  \/ a.score > b.score
  \/ a.score = b.score /\ a.time > b.time
  \/ a.score = b.score /\ a.time = b.time /\ a.pos < b.pos

keysetWithoutTies(key, k) ==  \* mutant: the tie-breaker is left out
  \/ k.score < key.score
  \/ k.score = key.score /\ k.time < key.time

keysetPredicate(key, k) ==
  \/ k.score < key.score
  \/ k.score = key.score /\ k.time < key.time
  \/ k.score = key.score /\ k.time = key.time /\ k.pos > key.pos

\* appendSearchFilters and appendClauses put conditions on the row alone; those on text
\* depend on the configuration's synonyms.
Matching(q, c) == {d \in Docs : rows[d] # None /\ rows[d] \in Matches[q][c]}

(***************************************************************************)
(* The rows a page is taken from, and the page: LIMIT n of them in order;  *)
(* last is its last row.  One more row than n tells whether more follow.   *)
(***************************************************************************)
Remaining(q, s, c, t, cur) ==
  {d \in Matching(q, c) : cur = None \/ keysetPredicate(cur.key, KeyOf(d, q, s, c, t))}

IsPage(page, last, rest, n, q, s, c, t) ==
  /\ page \subseteq rest
  /\ Cardinality(page) <= n
  /\ page # rest => Cardinality(page) = n
  /\ \A d \in page, e \in rest \ page :
       OrderedBefore(KeyOf(d, q, s, c, t), KeyOf(e, q, s, c, t))
  /\ page = {} \/ last \in page
  /\ \A d \in page \ {last} : OrderedBefore(KeyOf(d, q, s, c, t), KeyOf(last, q, s, c, t))

-------------------------------------------------------------------------------
(***************************************************************************)
(* A search: SearchWithSnapshot.                                           *)
(***************************************************************************)
\* The client has no walk, or gives up the one it had.
NoWalk ==
  /\ cursor' = None
  /\ walk' = None /\ ended' = FALSE
  /\ shown' = {} /\ repeated' = {} /\ views' = {} /\ steady' = {}

\* The request arrives at replica r, which captures its configuration.
BeginSearch(r, q, s, n, cur) ==
  /\ request = None
  /\ request' = [query |-> q, sort |-> s, limit |-> n, config |-> config[r], cursor |-> cur]
  /\ \/ cur = None /\ NoWalk
     \/ cur # None /\ cur = cursor /\ UNCHANGED <<cursor, walkVars, steady>>
  /\ UNCHANGED <<indexVars, config, now>>

AnyCursor == TRUE  \* mutant: a valid signature is enough

\* The cursor belongs to this search, configuration and generation.
CursorFits ==
  LET cur == request.cursor
  IN  cur # None =>
        /\ cur.config = request.config
        /\ cur.sort = request.sort
        /\ cur.generation = generation
        /\ cur.query = request.query

\* ErrCursorMismatch: the client has to begin again.
RefuseCursor ==
  /\ request # None
  /\ ~CursorFits
  /\ request' = None
  /\ NoWalk
  /\ UNCHANGED <<indexVars, config, now>>

\* A cursor keeps the time its walk is scored for.
ScoredNow(cur) == now  \* mutant: every page is scored for its own time

ScoringTime(cur) == IF cur = None THEN now ELSE cur.scoredAt

NextCursor(q, s, c, t, last) ==
  [key |-> KeyOf(last, q, s, c, t), query |-> q, sort |-> s, scoredAt |-> t,
   generation |-> generation, config |-> c]

\* One repeatable-read transaction: generation, page, and the cursor when
\* more rows follow.
ServePage(page, last) ==
  LET cur == request.cursor
      q == request.query
      s == request.sort
      c == request.config
      t == ScoringTime(cur)
      rest == Remaining(q, s, c, t, cur)
      view == [generation |-> generation, config |-> c]
  IN  /\ request # None
      /\ CursorFits
      /\ IsPage(page, last, rest, request.limit, q, s, c, t)
      /\ cursor' = IF page = rest THEN None ELSE NextCursor(q, s, c, t, last)
      /\ ended' = (page = rest)
      /\ request' = None
      /\ IF cur = None
           THEN /\ walk' = [query |-> q, sort |-> s, config |-> c]
                /\ shown' = page /\ repeated' = {}
                /\ steady' = Docs
                /\ views' = {view}
           ELSE /\ shown' = shown \cup page
                /\ repeated' = repeated \cup (shown \cap page)
                /\ views' = views \cup {view}
                /\ UNCHANGED <<walk, steady>>
      /\ UNCHANGED <<indexVars, config, now>>

\* The search fails or times out: the client still has its cursor.
FailSearch ==
  /\ request # None
  /\ request' = None
  /\ UNCHANGED <<indexVars, config, now, cursor, walkVars, steady>>

Next ==
  \/ Tick
  \/ \E d \in Docs, x \in Contents \cup {None} : WriteDoc(d, x)
  \/ \E new \in [Docs -> Contents \cup {None}] : Switch(new)
  \/ \E r \in Replicas, c \in Configs : UpdateRuntimeConfig(r, c)
  \/ \E r \in Replicas, q \in Queries, s \in Sorts, n \in Limits, cur \in {None, cursor} :
       BeginSearch(r, q, s, n, cur)
  \/ RefuseCursor
  \/ \E page \in SUBSET Docs, last \in Docs : ServePage(page, last)
  \/ FailSearch

Spec == Init /\ [][Next]_vars

-------------------------------------------------------------------------------
TypeOK ==
  /\ rows \in [Docs -> Contents \cup {None}]
  /\ generation \in Generations
  /\ config \in [Replicas -> Configs]
  /\ now \in Times
  /\ request \in Request \cup {None}
  /\ cursor \in Cursor \cup {None}
  /\ walk \in Walk \cup {None}
  /\ ended \in BOOLEAN
  /\ shown \subseteq Docs /\ repeated \subseteq Docs /\ steady \subseteq Docs
  /\ views \subseteq View
  /\ writes \in 0..MaxWrites

(***************************************************************************)
(* A document whose row does not change during a walk is shown by it once, *)
(* if the search finds it, and never otherwise - whatever happens to other *)
(* rows, to the clock, to configurations and to the size of pages          *)
(* (keysetPredicate, next_cursor, ErrCursorMismatch).                      *)
(***************************************************************************)
EachOnce ==
  /\ repeated \cap steady = {}
  /\ walk # None => steady \cap shown \subseteq Matching(walk.query, walk.config)
  /\ ended => steady \cap Matching(walk.query, walk.config) \subseteq shown

(***************************************************************************)
(* The pages of a walk come from one generation and are scored with one    *)
(* configuration (README "Cursor": a cursor is bound to its sort, query,   *)
(* generation and runtime configuration).                                  *)
(***************************************************************************)
OneView == \A a, b \in views : a = b
===============================================================================
