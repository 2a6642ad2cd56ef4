# A verification development of nexusindex

nexusindex keeps a PostgreSQL search index in step with a main database and serves
searches from it. This directory holds TLA+ models of the parts of the service in which
several processes meet, TLC configurations that check them on small instances, and proofs,
checked by TLAPS, that the main invariants hold for every value of the constants.

Source paths below are relative to the root of the repository; line numbers are in
`PROJECT.json` under `map`.

## 1. The system

### Components

| component | state | operations | meets |
|---|---|---|---|
| Outbox worker (`internal/indexer/worker.go`) | in the process: a batch of claimed events. In the outbox table: `processed_at`, `attempts`, `locked_at`, `next_attempt_at` | claim, merge, fetch, write, mark failed, acknowledge, release | other workers through the outbox, the index through the switch lock, the cache through the mutation fence |
| Version gate and index writes (`service.go` 638-790) | rows of `search_index` with `source_version` | versioned upsert, tombstone, the unversioned writes of the HTTP routes | every writer of the index |
| Full rebuild (`rebuild.go`, `service.go` 532-636) | watermark, catch-up cursor, a shadow generation | watermark, build, catch-up by pages, tail and switch under the lock | workers, source transactions, generations |
| Entity rebuild (`service.go` 586-604) | version and document read | read, read, gated write | workers and full rebuilds |
| Generation lifecycle and jobs (`generation.go`, `service.go` 484-585, `main.go`) | `index_generations`, `index_sync_log`, one advisory session lock per job, one flag and one connection pool per process | start, admission, lease, recovery, insert, activation, failure, report | replicas through the index database |
| Mutation fence (`server/http.go` 716-830) | two shared counters per namespace, cache entries | run a mutation, capture a scope, look up, store | every mutation and every search on every replica |
| Tiered cache (`server/cache.go`) | L1 map with expiries, L2 store | get, set, evict, promote | the fence above it |
| Search query and cursors (`query_*.go`, `cursor.go`, `service.go` 180-445) | none; cursors travel with the client | tokenize, expand synonyms, build a tsquery; one read-only transaction per page | switches of generations, the configuration's dictionary |
| Tag index (`service.go` 448-514, 827-897, `rebuild.go` 258-285) | counts per tag and generation | recompute for the tags of a write; read a page of tags | writers of the index, the switch |
| Runtime configuration (`runtime.go`) | a copy-on-write snapshot | read, merge, replace | searches and cursors |
| Migrations (`migrations/runner.go`, `main.go`) | version table, an advisory lock | apply what is missing, under the lock; check at the start of the service | other runs of `migrate up`, process start, the forum's own migrations |
| HTTP routes, process start, source adapter, EdgeCache client | none of their own | call the components above | |
| TypeScript client, stability tool | outside the service | | |

The components touch in four places. A **source transaction** (of the application, not of
this program) changes a document and inserts an event with the next `event_order`. **Workers**
turn events into gated writes to the active generation. A **full rebuild** reads documents and
events into a shadow generation and makes it the active one under the switch lock. The **mutation
fence** stands around each of those writes and around the switch, and searches consult it
before they use the cache.

### What is hard here

* Orders are allocated before commit, so a smaller order can become visible after a larger one.
* A document is fetched outside the lock under which it is stored, by workers, entity jobs and
  rebuilds at once; only `source_version` decides which snapshot wins.
* Leases lapse while their holder works; commits succeed and report an error; processes die with
  a batch, with half a rebuild or between the two bumps of the fence.
* A rebuild that a replica takes for dead may be alive, and one that lives may have lost its lease.
* Each connection of the pool that waits for another one can stop a whole replica.
* The schema is checked once, at the start; whoever migrates later does so beneath running processes.
* A query is cut at the keys of a dictionary and a document is not, yet they have to meet.

The properties that make each component correct are the ones its section below states. The
hazards, each at its line and with the properties that guard it, are listed in
`PROJECT.json`.

## 2. Modules

| module | what it is |
|---|---|
| `SearchRows` | rows of the index and the version gate, the merge of a batch, `max(event_order)` |
| `EventualIndex` | abstract: an index that follows a source and owes it some documents |
| `IndexSync` | outbox, workers, entity jobs and the full rebuild over one main database and one index |
| `IndexSyncProofs` | its inductive invariant and theorems, the refinement among them |
| `MutationFence` | mutations, the shared counters and searches, over all replicas |
| `MutationFenceProofs` | its inductive invariant and theorems |
| `Generations` | full rebuild jobs of several replicas, generations, leases, recovery |
| `GenerationsProofs` | its inductive invariant and theorems |
| `SearchPages` | a client's walk through the pages of a search |
| `QueryText` | tokenizer, synonyms and tsquery of a search, and the match with documents |
| `SearchProofs` | the invariants and theorems of `SearchPages` and of `QueryText` |
| `CacheContract` | abstract: what a search relies on when it uses the cache |
| `TieredCache` | the two cache tiers of several replicas, with a clock |
| `TieredCacheProofs` | its inductive invariant and theorems, the refinement among them |
| `TagIndex` | counts per tag beside the rows they count, over generations |
| `TagIndexProofs` | its inductive invariant and theorems |
| `RuntimeConfig` | the configuration of each replica, its sources, and searches under it |
| `RuntimeConfigProofs` | its inductive invariant and theorems |
| `Migrations` | runs of `migrate up` from several binaries, and the checks at the service's start |
| `MigrationsProofs` | its inductive invariant and theorems |
| `MC...` | the instances for TLC: model values and symmetry |

`IndexSync` composes four components in one module, as they share the outbox and the rows, and
implements `EventualIndex`.
`Generations` looks at the same full rebuild from the other side: there, what a rebuild stores is
one step (`Fill`), and what counts is which replica believes what of it. `MutationFence` sees
every change of the index as one commit between two bumps, and the cache as everything that was ever
stored; `TieredCache` opens that box and implements `CacheContract`, which grants less: a value
is found only under the key it was stored under. `TagIndex` sees the same writes and switches as `IndexSync`, but
statement by statement inside their transactions, and `RuntimeConfig` what `SearchPages` takes as an
arbitrary change of configuration. `QueryText` is what `SearchPages` leaves open about which rows a query
finds. `Migrations` stands before all of them: it ends where a process starts to serve.

### SearchRows and IndexSync

A document is the `event_order` of the last transaction that changed it (`rev`) and whether it
exists (`live`). A row of the index is `[ver, rev, live]`: `ver` is the column `source_version`,
`rev` the transaction whose effect the row's content shows, `live` is false for the status `deleted`.
`rev` is a ghost for the content: no step of the program reads it, the properties do.
`GatedWrite` is the `ON CONFLICT DO UPDATE ... WHERE` of a versioned write: equal versions replace,
newer rows stay.

| variables | code |
|---|---|
| `source`, `lastOrder`, `evt`, `open`, `committed` | the main database: documents, the sequence, event rows of transactions in flight and committed |
| `done`, `attempts`, `lock` | the columns of an event; `lock[o]` is the worker whose claim wrote `locked_at` |
| `claim`, `left`, `completed` | a worker's local slices: the claimed batch, the merged events not yet processed, the events to acknowledge |
| `pend` | what a worker or an entity job has fetched and not yet stored |
| `want`, `over` | an entity job's version read, and the jobs that ended |
| `active`, `gen` | rows of the active generation and how often it was switched |
| `phase`, `shadow`, `unbuilt`, `page`, `watermark`, `upper`, `cursor`, `todo` | the rebuild in progress |
| `stale` | ghost: writers that fetched before the rebuild took its watermark and have not stored yet |

| actions | code |
|---|---|
| `BeginSource`, `CommitSource`, `AbortSource` | the application (external) |
| `ClaimEvents` | `claimEvents`, `mergeLatestEvents` |
| `FetchForEvent`, `ApplyEvent`, `FailEvent` | `processEvent`, `writeActive`, `markFailed` and its own failure |
| `AckEvents`, `ReleaseClaim`, `CrashWorker` | `markProcessed`, the deferred release, the death of the process |
| `ReplayEvent` | an operator resets the attempts of a quarantined event (external) |
| `EntityVersion`, `EntityFetch`, `EntityWrite` | `runEntityRebuild` |
| `StartRebuild`, `BuildRead`, `BuildStore` | the watermark, `rebuildEntityTypeInto` |
| `StartCatchUp`, `CatchUpPage`, `CatchUpApply`, `CatchUpDone` | `CatchUp`, `catchUpThrough`, `applyEventFrom` |
| `Activate`, `DeferActivation` | `activateTail` and its retry loop |
| `FailRebuild` | any error of the rebuild, its death included |

Each statement or short transaction is a step. `Activate` is one step although it is several
statements, because it holds the switch lock and the outbox in SHARE mode throughout: no
event can be inserted or leased and no other write to the index can commit in between.

There is no clock. A retry delay or a fresh lease only makes an event unclaimable for a while, so
`ClaimEvents` takes any set of claimable events; a lease that lapses under its holder costs
one fault of the bound.

Properties:

* `NoLostUpdate` - a document whose active row does not show the source has an unprocessed event.
  It ties the acknowledgement of events to the content of the index across takeovers, retries,
  merges, rebuilds and switches.
* `SwitchIsCurrent` - at a switch the new generation shows every document as the source has it,
  but for documents whose last event is quarantined.
* `ProcessedStaysIndexed` - what a processed event did is not undone. It does **not** hold (section 5).
* `Converges` - once the source stops changing, every document becomes and stays current or its
  last event is quarantined.

* `FollowsTheSource` - `IndexSync` implements `EventualIndex`. The mapping shows of a document the
  `rev` of its row, or nothing if there is none or it is deleted, both for the main database and for the active
  generation; the index *owes* the documents with an unprocessed event. So every step of every worker, job, rebuild
  and switch either is a source transaction that makes the index owe a document, or leaves each
  document that is not owed shown as it is; a debt is only settled by showing the document.

Two constants name behaviours under which `NoLostUpdate` fails:

* `StallSpansRebuild`: a write is fetched before a rebuild's watermark and stored after its switch.
  A worker's operations are bounded by `RequestTimeout`, and a rebuild is usually longer. Entity
  jobs run under `context.Background()` (`service.go:536`), and nothing in the code orders the two. The run
  `sync_resurrection` sets it (section 5).
* `ReplayAnyTime`: a quarantined event is replayed while a rebuild is past its build. No run sets it; with
  one document, two workers and one fault TLC finds a lost update (section 5).

### MutationFence

| variables | code |
|---|---|
| `started`, `completed` | the two shared counters, 0 while a key is missing |
| `index` | the number of index commits so far, standing for the content |
| `mpc`, `late` | where `runMutation` is; whether a commit it gave up on may still happen |
| `rpc`, `seen`, `floor`, `answer` | where a request is, the counters it read, `index` when it began (ghost), what it will answer |
| `cache` | every entry ever stored: the version in its key and its content |

| actions | code |
|---|---|
| `PrepareStarted`, `PrepareCompleted`, `OpenFence`, `RefuseMutation` | the precommit phase |
| `Operate`, `FailOperation`, `LoseOperation`, `CommitLate` | `operation()`: it commits, fails, or gives up on a commit the database carries out later |
| `CloseFence`, `FailCompletion`, `CrashMutator` | the completion phase and its failures |
| `BeginRequest`, `ReadCompleted`, `EnableCache` | `withCacheScope`, `stableMutationVersion` |
| `Lookup`, `Query`, `Store`, `EndRequest` | `getCached`, the search, `setCached`, the end |

A lookup may return any entry ever stored under the key, and may miss. That covers both
tiers, any expiry, eviction and any loss of a write. The namespace version and the configuration hash are part
of the key too; they can only make a hit rarer and are left out. A crash of a replica that
runs several threads is several crashes of one thread.

Properties:

* `NoStaleHit` - a hit shows at least what the index showed when the request began. The guard
  `InTime` excepts runs in which an operation gave up on a commit that the database carried out
  later: then an entry stored in between is stale until its TTL ends, which the model does not have.
* `ClosedDuringWrites` - no request enables the cache while a mutation is between its bumps.
* `CacheReturns` - without faults the counters end equal, so that the cache is used again, though
  operations may have failed.

### Generations

A job has at most one generation, so both bear the job's name.

| variables | code |
|---|---|
| `status` | `index_generations.status` |
| `row` | `index_sync_log.status` of the job |
| `at`, `home`, `verdict` | the job's goroutine: where it is, in which process, what it will report |
| `lease` | jobs whose session holds `pg_advisory_lock(-jobID)` |
| `expired` | jobs past the thirty minutes of their context |
| `running`, `up` | `fullRebuildRunning` per process; the processes that run |

The actions follow `StartFullRebuild` and `runFullRebuild` line by line: `StartJob`, `Admit` or
`Reject`, `Lease`, `RecoverFirst` and `CreateBuilding` (two transactions), `ErrRebuildInProgress`,
`Fill`, `Activate` or `ActivateRefused`, `MarkFailed`, `FinishJob`, `Unlock`, `ClearRunning`, each
with its failure, and `ActivateUnheard` for a switch that commits and reports an error. `Expire`,
`LoseLease`, `Crash`, `ReapSession` and `Restart` are what happens to them. A statement
needs a connection besides those that leases occupy (`FreeConnection`); the constant
`PoolSize` is at least 2, as `main.go` makes it.

`GenerationStore.Activate` and `Rollback` have no caller in the service and are not modelled.

Properties:

* `OneActive` - exactly one generation is active and at most one is being built.
* `FailedStaysFailed` - a generation given up as failed never serves, though its job may go on.
* `LeasedJobsAreLeftAlone` - recovery never fails the generation of a job that holds its lease.
* `SuccessWasActivated` - a job reported successful did switch.
* `JobsEnd` - every job ends or its process dies; jobs do not wait for each other's connections.

A job reported *failed* may serve, see the note in section 5.

### SearchPages

| variables | code |
|---|---|
| `rows`, `generation` | the active generation |
| `config`, `now` | the runtime configuration of each replica, the clock |
| `request` | the search under way, with the configuration its replica captured (`withCacheScope`) |
| `cursor` | the client's `next_cursor` |
| `walk`, `ended`, `shown`, `repeated`, `steady`, `views` | ghosts: the first page's search, whether the last page was served, what the client was shown (twice), which rows have not changed since, where the pages came from |

What a row contains is an abstract value; which queries find it, its sort time and its score are
constant functions of it, so the theorems hold for any ranking. A search is two steps, since it captures the
configuration before its transaction begins: `BeginSearch`, then `ServePage` or `RefuseCursor` or
`FailSearch`. `WriteDoc`, `Switch`, `UpdateRuntimeConfig` and `Tick` happen in between. `IsPage` says which
set of rows `ORDER BY ... LIMIT` returns; `keysetPredicate` is the predicate of the next page.

Properties:

* `EachOnce` - a row that does not change during a walk is shown once if the search finds it and never otherwise.
* `OneView` - the pages of a walk come from one generation and one configuration.

### TieredCache

| variables | code |
|---|---|
| `now` | the clock, in fractions of a second (`Second` ticks each) |
| `l1`, `l2` | the map of each replica with `expiresAt`; the shared store with its own expiries |
| `get` | a lookup: what it asked L2 for and when, and the answer |
| `store`, `by` | each value that is stored: where `SetBatch` is with it, and for which request; `dies` is the last lifetime given to it (ghost) |
| `slots` | taken slots of `l2Writes` |

A lookup is `MissL1`, `AnswerL2` or `MissL2`, and `FinishGet`, which promotes; a hit in L1 changes nothing. A
store is a batch of one. A batch puts all its entries into L1 (`WarmL1`), then its goroutines take them one by
one (`ClaimEntry`), wait for a slot (`TakeSlot`) and write (`ApplyL2`, `EndWrite`); its context may end at any time
(`EndContext`), and a write that is applied may still be reported as failed. L2 answers with whole seconds (`WholeSeconds`), as
the comment at `server/cache.go:137` says. Entries that expire at the same time are evicted in any order, since the code ranges
over a map.

Properties:

* `KeepsTheContract` - every step is one of `CacheContract`. Its cache *holds* a value under a key as long as a tier, a
  write under way or an answer of L2 has a copy, and *finds* it as long as a lookup that begins now would.
  `Honest`: what is found is held, under this key, and its lifetime has not ended, however slow the round trip that
  promoted it. Only `Put` adds to what is held: what has gone from both tiers and from everything under way never
  comes back. The lifetime of a value is fixed once the write ends; before that it may become longer (`Prolong`), as
  `SetBatch` counts it from L1 first and from L2 again when the write gets there.
* `LifetimeHolds`, a part of the inductive invariant - nothing in memory outlives the last lifetime its value was stored with.
* `OwnLimitHolds` - a replica keeps no entry for longer than it is itself configured to, also one that a replica with
  another configuration stored.
* `WithinLimits` - L1 stays within its limit; a slot is taken exactly by a write under way, so none is lost.
* `EvictsTheNextToExpire` - a live entry leaves L1 only for a new key at the limit, one at a time, and only if
  none expires before it.

### TagIndex

| variables | code |
|---|---|
| `active`, `shadow`, `phase` | the active generation, the one a rebuild fills, how far it is |
| `search_index`, `tag_index` | committed rows, reduced to their tags and whether they are shown, and committed counts |
| `switchLock`, `genLock` | `generationSwitchLockKey` and the lock on a row of `index_generations` |
| `tx` | the open transaction of each process: its stage, generation, selected tags and uncommitted rows and counts |

A write is `BeginWrite`, `WriteRow` (or `RefuseRow`), `LockGeneration`, `CountTags`, `Commit`; `RebuildTags` is the same
without the switch lock and without a row; the rebuild stores rows (`StoreRow`), counts all tags twice
(`BeginRecount`, `CommitRecount`) and then only those its tail touches (`BeginTail`, `TailRow`, `TouchedTags`, `EndTail`,
`Activate`). A statement sees what was committed when it started and what its own transaction wrote (`View`), as
under READ COMMITTED.

A tags request reads the active generation (`ReadActive`) and then the total and the page of it, in statements of
their own, whenever they come (`EndRead`); `reading` is the generation it reads.

* `ReadersSeeTheirRows` - the counts of the generation a request reads are those of its rows, also if it was
  switched away in between. For the active generation this is `TagsMatchRows`, a conjunct of the inductive invariant: it
  holds in every state, beside a standalone recount and right after a switch, which counts only some of
  the tags. That no one cleans up retired generations is part of it.

### RuntimeConfig

| variables | code |
|---|---|
| `file` | the content of `NEXUSINDEX_RUNTIME_CONFIG_FILE` |
| `snapshot`, `mutex` | `runtimeConfigStore` of each replica: value and lock |
| `task`, `seen` | a request to `/api/config` or `/api/config/reload`, and the snapshot it read under the lock |
| `scope`, `found` | a search: the snapshot it captured, what it will answer |
| `cache` | every entry ever stored, by the configuration in its key |
| `origin` | ghost: the content of the file a snapshot comes from, until a patch |

A configuration is a function of the number settings and a dictionary of synonyms; `Merge`, `Clamp` and `Normalized`
follow `runtime.go`, with "not set" apart from zero, and with every result an iteration over a map may have. A
reload reads the file before it enters the fence, as the code does. A crash loses the patches of a replica,
not the shared cache.

* `SameFileSameConfig` - replicas that loaded one content of the file serve one configuration. It
  excepts a file that writes one term in two ways: `Merge` ranges over a map, and the last one wins.
* `SearchesAreUniform` - an answer and a cache entry were computed entirely under the configuration in their key.
* `OnlyNamedSettingsChange` - a patch changes only what it names, patches at the same time included.
* `VersionsNeverRepeat` - no version of a process names two snapshots.

### Migrations

| variables | code |
|---|---|
| `installed` | the rows of `nexusindex_schema_migrations` |
| `schema` | the migrations whose SQL took effect, in order: what the database really looks like (ghost) |
| `holder`, `session` | who has `pg_advisory_lock`; whether the database still has a run's connection |
| `migrator`, `next` | where a run of `migrate up` is, and the version it applies next |
| `binary` | the build that is run at each place, with the manifest embedded in it |
| `service`, `outbox` | how far a process is with its start; the form of the forum's outbox table |

A run is `BeginUp`, `Lock`, `PlanUp` (or `Refuse`, if the rows are not the first ones of its manifest), for each
missing migration `ExecSQL`, `InsertRow` and `Commit`, and `FinishUp`. It may fail at each point (`FailUp`), or die
(`CrashUp`, `CrashInCommit`), after which its session and the lock live until `EndSession`; a session that still waits
gets the lock although its process is gone (`GrantToDead`). The service checks (`ValidateSchemaVersion`,
`ValidateMainOutboxSchema`) and serves; nothing is locked between the two or after.

* `SchemaIsRecorded` - what the rows say was applied is what was applied, once each and in order.
* `OneHistory` - whoever was told that its schema is installed has it for good, next to newer binaries and binaries
  with edited migrations.
* `NoFalseRefusal` - a run is refused only because of manifests, never because of another run beside it.
* `UpEnds` - no run waits for ever, whoever dies with the lock.

### QueryText

A text is a sequence of runes of which only the class matters (Han, letter, mark, trailing `.-_`, blank,
slash, other), with two letters to tell words apart. Of the Han runes those that are neither letter nor digit, such
as 〇, are a class of their own (`HanSymbols`): the tokenizer keeps them, normalization blanks them (section 5). The variables are a request's text and dictionary, where the
search is, its tsquery and what it found; the actions are `BuildQuery` and `Answer`. The weight is in the
operators, which follow `query_pipeline.go`: `NormalizeQueryText` (what is blanked, which blanks are kept, what is
written), `TokenizeWithDictionary` (a token and the next position at each position; longest key first, keys on word boundaries but for Han), `Build` with its groups and alternatives, and `FtsText` for documents.

PostgreSQL parses the tokens once more, for documents (`to_tsvector`, `service.go:752`) and for queries (`to_tsquery`,
`service.go:256`; `phraseto_tsquery`, `query_filters.go:172`). To its parser `.`, `-` and `_`, which are one class to the tokenizer, are
different: `foo-bar` is indexed as `foo-bar`, `foo` and `bar`, `foo_bar` as `foo` and `bar`, and a symbol may be nothing at all,
depending on the locale of the database. What it makes of a token is the constant `Lexemes(_)`, of which nothing is assumed but
that it depends on the token alone: tokens are set apart by blanks. `SearchVector` has the lexemes of a document's tokens in
a row, `Finds` asks for the lexemes of each token of a query in a row (`to_tsquery` joins them with `<->` since
PostgreSQL 14, and README.md:43 asks for 15) and leaves out tokens, alternatives and groups without any, and
`FindsPhrase` asks for the lexemes of all tokens in a row. A search for `foo` does find `foo-bar`; no property here says
otherwise.

The properties compare this with `Words`, a definition of words that reads no text from left to right:

* `FoundByItsWords` - who has all words of the query, Han symbols aside, is found, under every dictionary, if PostgreSQL
  makes a lexeme of each of them.
* `FoundForAReason` - who is found has every lexeme of those words, or every lexeme of one synonym of a key. It is said
  of lexemes, not of words, because a document with the word `foo-bar` has the lexemes of the words `foo` and `bar`.
* `SearchableOrRefused` - exactly the texts without words are refused, and every other query can be parsed; a
  query may not lean on Han symbols, a clause may.
  It excepts dictionaries with a key without any word (section 5).
* `KeysAreExpanded` - who searches for a key finds what its synonyms name, also when keys overlap.
* `PhrasesAreFound` - a phrase that stands in a document as whole words is found there, if it has a lexeme.

## 3. Runs

Every constant of a run that is not a parameter of the program is a bound: `MaxOrder` (source
transactions), `MaxRebuilds`, `MaxMutations`, `MaxFaults`, `MaxWrites`, `MaxSwitches`, `MaxGen`, `MaxTime`,
`MaxRequests`, and the sizes of the sets.

| run | instance | shows |
|---|---|---|
| `sync_cutover` | 2 documents, 3 events, no workers, 1 entity job, pages and tails of 2, 1 fault | the switch misses no event whatever the order of commits and the paging, with an entity job beside it; the inductive invariant holds with two documents |
| `sync_converges` | 1 document, 2 events, 2 workers with batches of 2, 1 rebuild with deferred activation (`TailLimit` 0), 1 fault | the inductive invariant, safety, the refinement of `EventualIndex` and convergence, with a rebuild beside two workers, with takeovers, failures, quarantine and crashes |
| `fence_hits` | 2 mutators, 2 requests, 2 mutations, 1 fault | the fence, its inductive invariant and its liveness |
| `gen_jobs` | 2 replicas, 2 jobs, 2 connections, 3 faults | the lifecycle, its inductive invariant and the end of jobs |
| `pages_walk` | 3 documents, 2 kinds of rows, pages of 1 or 2, 2 configurations, 2 times, 1 write, 1 switch | a walk shows each unchanged row once |
| `cache_tiers` | 2 replicas with different lifetimes, 3 keys, 3 stores, 1 reader, 2 writers, an L1 of 2, 1 slot, half seconds up to time 2 | the limits of the tiers, the refinement of `CacheContract` and the inductive invariant |
| `tags_match` | 2 documents, 2 tags, 2 writers, 1 recount, 1 reader, 2 rebuilds, 3 rows written | the counts match in every state and for a reader that a switch overtakes; the inductive invariant |
| `migrations_up` | 2 places to migrate, 1 service, 3 binaries (a release of 2 migrations, an upgrade of 3, a build of the upgrade with an edited migration), any number of runs, failures and crashes | the four properties of the migrations and the inductive invariant |
| `query_text` | every query of up to 4 runes over 8, and of 3 over two letters and `.-_`; 11 documents, with a compound of `-`, one of `_` and one of `.` among them; the lexemes PostgreSQL makes of these words; every dictionary of up to two of 10 keys that overlap, contain each other or have no word | the five properties of the search text |
| `config_served` | 2 replicas, 2 administrators, 1 search, 2 settings of which the environment fixes one (badly), one term with two spellings, 2 files, 2 patches, 2 requests, any number of crashes and restarts | the four properties of the configuration and the inductive invariant |
| `sync_resurrection`, `sync_processed_lost` | the smallest instance of each | the disagreements of section 5 |

Why the bounds are enough to be of interest:

* Two workers and two events of one document give the overtaking, takeover and merge cases. With one attempt a
  failure is a quarantine at once; a retry before it is one more claim, and the theorems hold for any number.
* Three events of two documents put two events of one document on both sides of the boundary of a page of
  two, let commits come in any order, and leave one event for the tail. `TailLimit = 0` forces the
  retry of activation, `TailLimit = 2` a merged tail.
* One rebuild suffices for what concerns one switch: a second one starts from the state the first
  left, as the constants of the proofs make no difference between them.
* One fault at a time is what a safety argument has to survive at each point. The lifecycle runs with
  three, as its interesting histories need them (a lost lease, a recovery by the other replica,
  and a failure of the report).
* Three documents of two kinds give equal scores on both sides of the border of a page, and a page whose cursor
  comes from a page that had a cursor. One query suffices in the run, since a cursor of another sort meets the same guard as
  one of another query; the theorems have any number.
* Two requests are needed so that one stores what the other finds, two mutations so that the
  counters can agree again by accident - the case the order of the two bumps is there to prevent.
* An L1 of two among three keys evicts, and two replicas of which one keeps an entry twice as long let a promotion meet
  both limits; half seconds make a lifetime that L2 has to round. Two writers and one slot make one of them wait.
* Two generations after the first let a recount outlive the one it read, and three rows
  are enough for one in the build, one in the tail and one beside them.
* Two runs of `migrate up` compete, and a third one would only wait as well; three binaries give a history that
  goes on, one that ends early and one that contradicts both. Up to three migrations leave a crash between two of them.
* Four runes hold two words and what separates them, a key and a longer key that begins alike, or a
  key that ends in the middle of a word. Two keys are what it takes for one to get in the way of another.
* Two patches that name different settings, one beyond its limit, are what a lost update needs; two files and a
  crash bring replicas apart and together again.

The bounds limit only TLC. The theorems hold for every value of the constants.

Deadlock is checked in all runs but `gen_jobs`, where the system stops when all jobs have ended, and
`query_text`, where a search ends with its answer. In `IndexSync` the state in which nothing is left to do
stutters explicitly (`Resting`), so that any other stop is an error. In the other modules a request can
always begin or end.

### Fairness

* `IndexSync`: a source transaction in flight ends, and a worker whose step stays possible takes it,
  because `Worker.loop` polls for ever and each call in it has a timeout. Nothing is assumed of rebuilds, entity jobs,
  operators or faults; `Converges` holds though a rebuild may stop anywhere.
* `MutationFence`: a mutation that has begun goes on, as every call in it has a timeout. It is not assumed that a
  mutation begins, nor anything of requests.
* `Generations`: the goroutine of a job takes a step as long as one of its calls can return without a
  fault. In particular it waits for a connection only as long as none is free.
* `Migrations`: a run takes its next step, the database ends the sessions of the dead, and it serves those who wait for
  the advisory lock in order (strong fairness of `Lock`). It is not assumed that a run succeeds.

## 4. Proofs

All theorems are of the form `Spec => []P`, `Spec => [][A]_vars` or, for the refinement, `Spec => FollowsTheSource`, or say
what an operator of `QueryText` makes of any text. They are proved from the assumptions on the constants that the modules name, without bounds on the sets.

**IndexSync** (`BaseCorrect`, `SwitchCorrect`, `IndexCorrect`, `NoUpdateIsLost`, `IndexFollowsSource`). `NoLostUpdate` is not
inductive: a prepared write, a batch that waits to be acknowledged and a shadow
generation each carry a promise about what will be in the index later. `IInv` names them:

* `BaseInv` says how orders, events, transactions and the source hang together (`SourceInv`), what a
  lease and a batch can be (`OutboxInv`, `WorkerInv`: a merged event is the newest of its document in the
  batch), that a prepared write claims no newer version than it has seen (`WriteInv`: `ver <= rev`), and what
  each phase of a rebuild has finished (`PhaseInv`: watermark and upper bound are commit boundaries, no
  open transaction has a smaller order);
* `ShadowInv` says that a document whose last event is before the watermark, or has been replayed, is in
  the shadow generation as the source has it - or missing there if it was deleted before - and that no write
  prepared since the rebuild began would bring such a document back;
* `ActiveInv` says that a document whose last event is processed, or written and about to be acknowledged
  under a lease that still holds, is shown as the source has it.

The one place where rows may claim more than they show is the build (`ver > rev`, section 5, item 2): there
the row's version belongs to an event that catch-up will replay, and equal versions replace.

`BaseCorrect` (`Spec => []BaseInv`) assumes nothing of stalls and replays. `SwitchCorrect` needs `BaseInv` and `ShadowInv` and assumes only `~ReplayAnyTime`. `IndexCorrect`,
`NoUpdateIsLost` and `IndexFollowsSource` assume `~StallSpansRebuild` as well; section 5 has a counterexample for
each, so the assumptions cannot be dropped.

The refinement follows from `IInv`: a step that changes the source is the commit of a transaction, which leaves the active
rows alone and adds its event (`CommitChanges`); every other step leaves the source alone and only shrinks
what is owed (`OwedShrinks`), and after it `NoLostUpdate` says that what is not owed is shown (`FreshIsShown`).

**MutationFence** (`FenceCorrect`, `HitsAreFresh`, `ClosedHolds`). The invariant counts: the mutations in
flight are at most `GetVersion(started) - GetVersion(completed)`, faults can only make the
difference larger, and both counters only grow. So a request that sees `started`, then `completed`, then
`started` with one value knows that no mutation was in flight at the second read. A cache
entry under the version that `started` still has was read after the last commit. The
theorems are unconditional; the late commit appears as the guard of `NoStaleHit`.

**Generations** (`LifecycleCorrect`, `AlwaysOneActive`, `SuccessIsReal`, `FailedNeverReturns`,
`LeaseProtects`). `IInv` says that a process has admitted one job exactly if its `running` flag is set, that a job
has no generation before its insert, that a job which will report success has switched, and that the
baseline is never failed. All changes of a status are of four kinds (none, giving up building
generations, one insert into a free slot, one activation), and each keeps one generation active.

**SearchPages** (`WalkCorrect`, `ShownOnce`, `SharedView`). `CursorInv` is the promise a cursor hands from page to page:
the client was shown exactly those unchanged rows of its search that the cursor has passed. It uses that the keyset
predicate is the converse of the order of results and that this is a strict total order (`KeyOrder`), and that the
cursor keeps the time and the configuration of the scores.

**QueryText** (`TokensAreWords`, `WordsOfTokens`, `NormalizedWords`, `KeyIsOneToken`, `PhraseFound`;
`WordsAreFound`, `FoundHasAReason`, `OnlyWordlessIsRefused`, `KeysExpand`, `PhrasesFound`). The invariant of the behaviour,
`TextInv`, only says that the query is built once and answered once; what has to be proved is what the operators make of any
text under any dictionary, whatever `Lexemes` is.

* *Induction.* The library's induction theorems take an operator, which the provers cannot instantiate. That `<` is
  well-founded on the numbers does not, and neither do the lemmas here: a set of numbers has a least member (`Least`), so a
  set that contains `n + 1`, and `i` whenever it contains all that follow, contains `1..(n + 1)` (`Downward`; `Upward` is its
  mirror). With them the recursive functions of the tokenizer and of the normalization are shown to exist
  (`WalkExists`, `WritingExists`) before they are unfolded (`TokensUnfold`, `NormUnfold`).
* *Tokens and words.* A place is clean if no word goes on over it. Each of the four kinds of step (a key, a Han rune, a
  word, nothing) leads from a clean place to a clean place; the words that begin in between are words of its token
  (`Covers`), and its token is a key or one of the words, and has no words but those of the text (`Sound`). A key
  is cut out at clean places because of its two boundaries: without one of them `StepSound` fails. By
  induction `WordsOfTokens`, and `TokensAreWords` for documents, which are cut at no keys.
* *Normalization.* Its result is embedded in the text: places go to places in order, word runes to themselves, and word runes
  that stand side by side stood side by side before (`Embeds`). Texts so embedded have the same words (`SameWords`); a
  blank between two words is kept because the first of a row of blanks is (`BlankKept`).
* *Lexemes.* Where tokens stand among others in a row, their lexemes stand in a row among the lexemes of those
  (`LexemesOccur`), by induction over the tokens; the lexemes of tokens are those of each (`LexemesOfTokens`).
* *Search.* So a group of the query asks for the words of a term or of a synonym; a document with the words has their
  runs of lexemes (`VectorOfWords`, `FoundByAlternatives`), one that is found has the lexemes of a whole alternative
  (`FoundHasAlternative`, `LexemesWithin`), and the properties follow. `KeysExpand` needs that the longest key that
  matches at the first rune is the whole text (`KeyIsOneToken`).
* *Phrases.* The tokenizer takes the same steps in a text and within a document where the text stands as whole words
  (`SameStep`), and no token reaches over the place where it begins (`TokensBefore`). So the tokens of the document are
  those before, those of the text, and those after, and `LexemesOccur` carries this over to the lexemes.

`SearchableOrRefused` excepts dictionaries with a key without words; section 5 has the query that then cannot be parsed.

**TieredCache** (`TiersCorrect`, `LifetimesHold`, `OwnLimitsHold`, `LimitsHold`, `EvictionIsFair`, `ContractKept`). The lifetimes need a promise about answers that
are still under way: counted from the *start* of its round trip, an answer ends no later than the store it comes from, because
the store had at least that much left when it answered. The limits need that a key which enters a full map evicts
exactly one other, and that slots and writes under way are in step. For the refinement, `HeldUnder` says of one key and one
value who has a copy; no step of a lookup or a write gives a copy to anyone unless someone has one
(`GetStepHeld`, `WriteStepHeld`), a batch adds exactly its own entries (`BatchPuts`), and the lifetimes give
`Honest` (`HonestHolds`). Each action so is one of the contract (`ContractStep`).

**TagIndex** (`CountsCorrect`, `TagsHold`, `ReadersHold`). Who has counted holds the lock on its generation's row, so no one else can commit
rows there and what it counted is still what it would count when it commits; writers also hold the switch lock. For the tail
the invariant compares the rows it has put aside with those they replace: they may differ only in selected
tags, so the counts of the others are still right at the switch. Nobody writes rows to a
generation that was switched away, as writers hold the switch lock from the time they read which one is active; a recount that
outlives a switch still commits the counts of the same rows. So a reader may come late.

**RuntimeConfig** (`ConfigurationCorrect`, `ReplicasAgree`, `SearchesUniform`, `NothingElseChanges`, `VersionsIncrease`). `LockInv`:
a request that has read a snapshot holds its replica's lock, and that snapshot is still the one served. `OriginInv`: what
is served is among the results of loading its origin, of which there is one if no term is written in two ways.
`SearchInv`: answers and entries bear the configuration of their key.

**Migrations** (`MigrationsCorrect`, `SchemaRecorded`, `HistoryIsOne`, `RefusalsAreJust`). `LockedPlan`: who is at work has the
lock, and the rows are still those it planned from, so that what it commits is their continuation. A prefix of a history that
only grows stays one, which is why the service need not look again.

What stays with TLC: the liveness properties (`Converges`, `CacheReturns`, `JobsEnd`, `UpEnds`), since the prover
does not treat fairness and `ENABLED`; and that the theorems' assumptions are satisfiable, which the
runs show by evaluating every named ASSUME.

## 5. Where the code and its documents disagree

1. `sync_resurrection` - README.md:307 says that `source_version` keeps an old event from overwriting
   a newer snapshot. A new generation has no row for a document deleted before the watermark, so
   a write prepared before a rebuild and stored after its switch brings the document back.
2. `sync_processed_lost` - the build reads documents before their versions (`service.go:618`, `625`),
   the entity rebuild the other way round. A row can then refuse the catch-up of an event that is
   marked processed, and the switch undoes it until a quarantined event is replayed.

Smaller observations have no run of their own.

* README.md:319 says that when a build fails the new generation is marked failed and the old one keeps serving. A switch
  that commits and reports an error (`rebuild.go:291`, or the completion bump of the fence after it) leaves a job marked failed
  whose generation serves, and `Fail` finds no building row (`ActivateUnheard`, then `MarkFailed`, in `Generations`).
* README.md:316 says that a rebuild catches up with the events after the watermark. Catch-up skips quarantined events
  and its cursor passes over them; one that is replayed and processed while the rebuild is past its build is in
  neither generation (`ReplayAnyTime` in `IndexSync`).
* A file that writes one term in two ways may be loaded differently by each replica (`SameFileSameConfig`).
* A key of `query.synonyms` without any letter or Han rune, such as `-` or `/`, that has a synonym with a word
  gives a group with an empty alternative (`query_pipeline.go:44`). PostgreSQL refuses to parse it, so the
  search fails as an internal error instead of being refused as `invalid_query_text` (`SearchableOrRefused`).

* `normalizeQueryText` blanks a Han rune that is neither letter nor digit (`query_pipeline.go:105`), such as 〇 (U+3007),
  but the tokenizer takes every rune of the Han script for a word. Documents are indexed with it and phrase clauses find it, if PostgreSQL makes a lexeme of it, yet the text
  of a query cannot ask for it, and alone it is refused as `invalid_query_text` (`SoughtWords`).
* A query is refused as `invalid_query_text` when the tokenizer finds no word in it (`service.go:201`). One whose words are nothing
  to PostgreSQL's parser is not refused: `to_tsquery` drops it with a notice and nothing is found (`Finds`). Whether such
  words exist depends on the locale of the database.

## 6. What is not modelled

* Ranking, filters, facets, highlights and the SQL of each entity type: formatting of queries and
  PostgreSQL's work. Which rows a query finds and how they score are arbitrary functions in `SearchPages`. Of the text of a
  query, prefix and fuzzy clauses are not in `QueryText`: PostgreSQL's trigrams and prefix matching decide them. Nor are the
  limits of a tsvector (positions beyond 16383 are equal, its size is bounded), nor its four weights: a document is one text.
  Parsing, authorisation and payloads of the HTTP routes: input handling without state.
* Clocks outside `TieredCache`: retry delays and TTLs of leases. `NoLostUpdate` holds for every choice of them.
* The unversioned writes of the HTTP routes beside a rebuild: see the plan.
* Of the migrations: what their SQL does, the names and hashes of files (a definition stands for both), and
  `EnsureSchema`, which only tests call. `ValidateMainOutboxSchema` is one step with one answer.
* Of the tiered cache: `Clear`, which nothing calls, the statistics, a replica without L2, and lifetimes of zero,
  which the configuration excludes. Of the tag index: the counts per kind and category, made from the same
  rows by the same statement. `RebuildTags` has no caller outside the tests but is exported, and is modelled.
* Lock waits. `lock_timeout` and `statement_timeout` turn a wait into an error, and errors are modelled. A switch
  waits for the outbox table while it holds the switch lock (`rebuild.go:239`); workers acknowledge without that lock, so the two
  never wait for each other.
* The EdgeCache client, the TypeScript client and the stability tool: a request per call and no state, and a tool beside
  the service.
* `clearCachedSearch`, `GenerationStore.Activate` and `GenerationStore.Rollback`: no caller.
* The order of two reloads (`server/http.go:405`): the one with the older content may be stored last. No document
  promises otherwise.

Hazards that no property guards yet are in `PROJECT.json` with the reason.

## 7. Plan

Done: `SearchRows`, `IndexSync`, `MutationFence`, `Generations`, `SearchPages`, `TieredCache`, `TagIndex`,
`RuntimeConfig`, `Migrations` and their proofs, `EventualIndex` with the refinement, checked and proved,
`QueryText`, and `CacheContract` with its refinement. What would come next:

1. `MutationFence` over `CacheContract` instead of a cache of its own, so that the two compose in one proof.
2. The unversioned HTTP writes beside a rebuild, as part of `IndexSync`.
3. Prefix and fuzzy clauses in `QueryText`.
