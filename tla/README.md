# Verification of contextql-server

TLA+ models of the parts of `contextql-server` where order, failure and
concurrency decide whether it is right, TLC runs that check them on small
instances, and TLAPS proofs of what they promise for every instance. Source
paths are relative to the repository (`src/app/...` in `PROJECT.json`).

## 1. The system

| Part | State | Operations | Talks to |
|---|---|---|---|
| DeepSee service (`connectors/deepsee/mock_service.py`) | membership with scores, event log, event counter | add, remove, rescore a member; paged snapshot; paged change feed with delivery knobs | read by the client |
| DeepSee client (`client.py`, `auth.py`) | none between calls | fetch a page with bounded retries, validate it, decode a bitmap | service |
| DeepSee synchronizer (`synchronizer.py`) | committed watermark, ids of seen events | `bootstrap()`, `sync_once()` | client, membership store, state repository |
| Synchronizer state repository (`repositories/synchronizer_state.py`) | `context_sync_state`, `context_sync_events` | `load`, `commit` | SQLite connection |
| MCP and REMOTE providers (`mcp_provider.py`, `remote_provider.py`) | none | page through a snapshot; filter by membership | client |
| Context runtime repository (`repositories/context_catalog.py`) | `contexts`, snapshots, payloads, membership history | `save_context`, `drop_context`, `record_execution`, `promote_snapshot`, `prune_history`, `hydrate_runtime`, `load_contexts`, backfill | SQLite connection; called by the engine |
| SQLite connection (`db/connection.py`, `db/migrations`) | one connection, its open transaction, schema version | open, migrate, close | every service and repository, from any thread |
| Catalog service (`services/catalog_service.py`) | none of its own | create, update, delete, validate, activate, retire, refresh, read | engine DDL, connection, audit |
| Provider, identity, audit services | `providers`, `identity_maps`, `audit_log` | register, enable, disable, record health; register and copy to the engine; append, query | connection |
| Query service (`services/query_service.py`) | limits | execute, explain, preview | engine |
| Refresh scheduler (`services/refresh_scheduler.py`) | stop event, thread, lock and next due time per context | `start`, `stop`, `tick` | engine, audit |
| Lifespan (`main.py`) | phase of the process | build the services, start, serve, stop, close | all of the above |
| HTTP API (`api/`), settings, logging, provider registry, engine manager | none | translate requests; configure | services |
| contextql engine and its membership store | outside the repository | parse, resolve, refresh, stage and commit snapshots | repositories |

Interaction: FastAPI runs the handlers, which are plain functions, in a thread
pool; the scheduler adds a thread; all of them use the one SQLite connection,
opened with `check_same_thread=False`. Two repositories have locks, of their
own; the other services have none. The engine calls the runtime repository when
a refresh promotes a snapshot. Nothing in `main.py` runs a synchronizer: an
owner outside the server constructs one and calls it.

What is hard here: reading a source page by page while it changes; feeds that
repeat and reorder; publication and bookkeeping that are two commits; one
transaction shared by threads that do not know of it; crashes between
statements, also of a migration script; retries against a service that fails for
ever; a change and its audit row that are two transactions; listings read by
offset while rows are added; a background thread that must survive failures and
must stop before the database closes. `PROJECT.json` lists each such hazard at
its line, with the properties that cover it or the reason none does yet.

What makes each part right:

- synchronizer: its store is a state the source really had, the one its
  watermark names; it never counts as done what the store lacks; it never goes
  back; it catches up.
- runtime repository: what is on disk is between two promotions; memory and
  disk agree when no refresh runs; what returned is durable; a failure blocks
  nothing later; and where threads outside its lock, or a stale entry of the
  engine, spoil one of these, nothing else does.
- scheduler and lifespan: one refresh per context at a time, the next one no
  earlier than an interval after the tick of the last began, for ever, failures
  visible; the database outlives its users.
- client and providers: a query ends, its retries stay within their budget;
  what a resolve returns was true of the source, at one moment if nothing
  changed meanwhile, and evidence stays inside the request.
- start of the server: the schema is complete before anything uses it, from any
  earlier schema and after any crash; a context keeps its identifier.
- registries: a change that was answered is durable and audited, the engine has
  the identity maps that were registered, a paging client misses no row.
- catalog: engine and table agree on the latest version, replaced versions do
  not change, a deletion is final, a listing shows latest versions.

## 2. Modules

| Module | Models | Composes |
|---|---|---|
| `DeepSeeEvents` | change events and the net effect of a batch (`_fold_events`) | |
| `DeepSeeFold` | the loop of `_fold_events`, one event per step | `DeepSeeEvents` |
| `DeepSeeSource` | the service: membership, event log, pages | `DeepSeeEvents` |
| `MembershipReplica` | the abstract promise of a synchronizer | |
| `DeepSeeSynchronizer` | `bootstrap()`, `sync_once()`, failures, restarts | `DeepSeeSource`; implements `MembershipReplica` |
| `DeepSeeClient` | one operation of the client: credential, call, retries, delays, validation | |
| `DeepSeeProviders` | `resolve()` of the MCP provider, `query()` of the REMOTE provider | `DeepSeeSource`, `DeepSeeClient` |
| `QueryService` | `execute()`: a query through the engine and both providers | `DeepSeeProviders` |
| `ContextRepository` | the shared connection, promotion, pruning, state commit, plain writes, crash | |
| `RefreshScheduler` | the scheduler's ticks and the lifespan around them | |
| `CatalogLifecycle` | one context name under concurrent REST requests: versions, lifecycle states, deletion | |
| `Migrations` | `init_db()`, the scripts, the backfill of context ids | |
| `ControlPlane` | runs of the server: start, registry requests, paging clients, stop, crash | `Migrations` |
| `...Proofs` | theorems and proofs | the module they are named after |
| `MC...` | constants for TLC | the module they are named after |

An operator `X_Something` placed before `X` is a mutant of `X`: a plausible bug
in the code `X` models. Nothing uses it; each property has one that it catches
(`PROJECT.json`, "mutants").

### DeepSeeSource, DeepSeeSynchronizer

The service derives event ids and watermarks from one counter, so an event *is*
its position in `events`, its watermark is that position, and the service's
watermark is `Len(events)`. Entities are small numbers, compared as the code
sorts them; scores are numbers of which only 0 and 1 are special, because
`float(event.score or 1.0)` singles them out. The wire contract lets an event be
without a score (`Absent`). An addition then counts as 1.0; a score change
(`Scoreless`) makes the fold raise, which is `FoldRaises` in `DeepSeeFold` and
one of the causes of `CallFails` in the synchronizer: the service here never
sends one. `feed` holds the constructor's delivery knobs (`duplicate_delivery`,
`out_of_order`, `redeliver_from_start`, `bitmap_snapshot`); `Knobs` is the set
of combinations an instance considers. A cursor is an offset, as in the code,
into a list that may have changed since the previous page.

`pc` is the synchronizer's next call to another party. Locals (`cursor`,
`collected`, `lastMark`, `batch`) are lost on return and on an exception; `mark`
and `seen` are attributes; `saved` is what the state repository holds; `store`
and `storeMark` are the published snapshot. `CallFails` is any call that raises
(the client exhausted its retries, rejected a page or hit `MAX_PAGES`; staging
failed; the repository rolled back) and has no effect but to end the operation.
A new synchronizer forgets the attributes and loads `saved`. What store it is
given is its owner's affair: with `Restart` it is the old one, as in
`tests/test_hardening_runtime.py:354-375`, or one that was promoted and hydrated
by somebody else; with `RestartWithoutStore` a new and empty one, since nothing in
`synchronizer.py` promotes what it publishes. `storeLost` (auxiliary) then holds
until the next bootstrap. The synchronizer does not look: with a saved watermark
`sync_once()` runs at once and fills the empty store with deltas, and the members
from before are missing until somebody calls `bootstrap()`. `torn` and
`storeTorn` are auxiliary: they say that the pages of a bootstrap had different
watermarks; `begun` is auxiliary too, the service's watermark at the first page
of a sync.

What a delta does to the store (`ApplyDelta`) is the external membership
store's doing, modelled from how the synchronizer and its tests use it:
additions join, removals leave, a score is kept for members only.

### DeepSeeClient, DeepSeeProviders, QueryService

One query is followed from its check to its answer. `at` is its next step: of a
client operation (`token`, `call`, `sleep`), or of the engine between two
operations (`resolved`, `evidenced`). `attempt`, `token` and `slept` are the
locals of `_call_with_retry`; `tries` is auxiliary. Every page of a resolve and
every evidence fetch is an operation of its own, with its own credential and
its own retries, as in the code. Between any two steps the source may change.

The service's queue of injected failures is shared by all of its callers and
filled at any time, so the failure a call finds is a choice at each call
(`BackOff`, `GiveUp`); so are the environment variable of the credential and
what is wrong with a response (`Defects`). A rate-limit error asks for
`RetryAfter`, others for the doubled base; both are capped. Of a bitmap the client
looks at size and encoding, and not at whether it decodes: a malformed one is
passed on (`PassOnMalformed`), and it is the engine that cannot read it
(`EngineCannotDecode`). A service that lies, with a bitmap that decodes to other
ids than its members, is not modelled.

`cursor`, `ids` and `scores` are the locals of `resolve()` and then its result,
`form` says whether that is a list, a bitmap it encoded (`bitmap_threshold`) or
one it passed on. `Arranged` is what sorting does: it gives each element the place
of its rank in a total order. `Ascending` arranges ids; `Kept` arranges the
*positions* of a list by score and id, because the list may hold an id twice and
the limit counts both. `since` and `mark` are auxiliary: the watermarks of the first
and the last page, which the provider does not compare. `evidence` is the last
result of `query()` together with what was asked.

The engine is external. It resolves first, may fetch evidence (`FetchEvidence`),
may push the LIMIT and the members down or not, and returns some rows of the
members it has resolved and has evidence of (`Return`). The size check adds up
rows until the sum exceeds the limit; `TooLarge` takes the whole sum, which
exceeds it exactly when some prefix does, and refuses no answer without rows,
because the comparison is inside the loop over them.

### Migrations, ControlPlane

`executescript()` commits statement by statement, so `RunStatement` is one
statement and a crash may come between any two. A statement names the object it
adds, the objects it needs, and whether it may be repeated: `IF NOT EXISTS` and
`OR IGNORE` may, `ALTER TABLE ... ADD COLUMN` may not. Of several columns added
to one table in a row two stand for all: one added and the others not is then a
state. `schema` is the file, `script` and `statement` the place in `init_db()`.
`StartInit` is a file as one of the released schemas left it, with rows of an
older server. With the third script applied, any of the rows may have an
identifier and any lack one: an older server may have added versions to a migrated
file. The backfill is one action because it is one transaction; its UPDATE is for
all rows of a context of which one has none, those with an identifier included.
Besides crashes, the environment may refuse a statement (`EnvironmentFails`: a full
disk, a locked file; both are counted in `crashes`), which ends the start and
leaves what `executescript()` has done. A payload without its checksum
(`corrupt`) makes every hydration raise E201 (`HydrationFails`). `refused` is
auxiliary: a statement of the last start could not be executed on this file.
`Torn` is what an interruption inside the third script leaves.

`ControlPlane` adds the requests. `db` is what the shared connection sees of the
tables, `saved` what the last `commit()` left. A request is a statement
(`Register`, `RegisterMap`, or `Find` and `Update`), its commit (`CommitChange`),
the audit row (`Log`) and the audit row's commit (`CommitLog`), each an action, so
that between any two of them other requests run, and the other components commit
(`CommitElsewhere`) or roll back (`RollBackElsewhere`: a failed promotion,
`context_catalog.py:349`, or state commit, `synchronizer_state.py:65`) what is
open. Any of them may raise (`Raise`), which leaves what it has executed in the
open transaction for the next commit. `pending` is where each thread is, with the
number of its change; of a row's columns the tables keep which changes it holds
(`changed`), and the log holds the numbers of changes. Auxiliary are `answered`
(changes whose request reported success), `undone` and `unlogged` (changes, and
audit rows, that a rollback elsewhere took away) and `loaded`, the number of
identity maps when the engine was loaded. `engineMaps` is the engine's copy, made
once, at the start; of one name in two namespaces the later row wins. `reader` is
a client of `GET /providers` or `GET /audit` that asks for page after page; for
providers the count and the page are two statements. A listing is a set of rows
with a `Position` each, `ORDER BY name` or `ORDER BY id DESC`, and a page is the
rows at its positions (`PageRows`). `raced` says that a provider was added between
the count and the page, `shrunk` that a rollback took rows from the listing.

### ContextRepository

A step is one SQL statement. `conn` is the database as the connection sees it,
`disk` the committed one; `Commit` copies the first to the second and
`Rollback` the second to the first, no matter which thread asks, because the
transaction belongs to the connection. A statement outside a transaction opens
one, as Python's `sqlite3` does; `BEGIN IMMEDIATE` inside one fails. Versions,
the pointer, the rows' states, the uniqueness constraints and the partial unique
index on the current snapshot are kept; payloads and events are reduced to their
presence, and `Eventful` names the versions whose promotion has any history event.

Every operation of one context runs as a thread of its own, and all of them
interleave: the refresher (`promote_snapshot`, after which the engine publishes
the version in memory, `PublishInMemory`), the pruner, the saver
(`SQLiteSynchronizerStateRepository.commit`) and the writers. Those in `Guarded`
share the repository's lock: a thread takes it with its first statement if nobody
is `Holding` it and gives it back when it returns. The saver has a lock of its own
and the other writers, the services, have none. `save_context` is called with the
engine's entry as it is then (`CallSaveContext`) and rewrites the pointer from it
when it gets the lock (`SaveContext`), which may be after a promotion. A plain
write may raise, at its INSERT or at its commit, and leaves the transaction open
(`WriteRaises`); a transactional operation rolls back.

Three auxiliary variables name what goes wrong by design of the code, so that the
properties can say that nothing else does. `cut`: a thread outside the lock ended
the transaction while a promotion or pruning was half-way. `lost`: written rows
that a thread sharing no lock with the writer rolled back before the writer's
commit. `stale` (of a database): `save_context` wrote another pointer than the
current snapshot's. After a cut, a payload row that the stranger's commit made
durable refuses every later promotion of that version (`PRIMARY KEY`), hence
`RefreshNeverWedged` excuses it.

### RefreshScheduler

`ticker[t]` is the program counter and the locals of a thread inside `tick()`.
`now` is the tick's `current`, read once. A tick goes through the contexts in
any order (the code's order is the catalog's). The test whether a context is due
(`SkipContext`, `FindDue`), the attempt to take its lock (`LockContext`,
`LockIsTaken`), and in the finally clause the lock's release and the due time
are steps of their own, because another ticker can come between any two of them.
`escaping` is an exception on its way out of `tick()`: it ends the loop's
thread. Besides the recording of a failure it can come from the calls that read
the catalog (`TickRaises`) or draw the jitter (`JitterRaises`). `begun` is
auxiliary: when the tick began that refreshed a context last. `server` follows
`lifespan` from `scheduler.start()` to `close_db()`. An interval and its jitter
are only ever used as their sum, `Interval`. `deployment` never changes: which
contexts this server has, who besides the loop calls the public `tick()`, and
whether exceptions may escape from `tick()`.

### CatalogLifecycle

`contexts` holds the rows of one `(name, namespace)`, each with its context's id
and lifecycle state, `dropped` the versions whose row is dropped; `entry` is the
engine's copy of the latest version. A request begins with `get()` and its
check (`Update`, `Validate`, `Activate`, `Retire`, `Delete`; `Create` has none)
and then sends its engine statements one by one: `CreateContext`, `AlterField`
once per given field, `ValidateContext`, `SetState` to the state its handler
names, `Drop`, and `Audit`. A statement that changes the context is two actions:
the engine changes its entry (`Enter`), then the repository saves it (`Save`,
which is `save_context`, or `Mark`, which is `drop_context`). Between any two
actions other requests run, one may raise (`Raise`) and the process may restart
(`Restart`: the engine loads its entries with `load_contexts`). A save that fails
leaves the changed entry in the engine, which `unsaved` (auxiliary) says until
the next save or restart.

A dropped name may be created again, with a new id; but `create` makes version 1
and `UNIQUE(name, namespace, version)` (`001_initial.sql:28`) refuses its row while
the dropped context's is there (`InsertIsRefused`), so the new context lives in the
engine's entry and, from version to version, in the rows the old one did not have.
`deleted` (auxiliary) are the ids whose drop was saved.

What a statement does to the entry is external, taken from how
`tests/test_catalog.py:46-59` and `170-190` use it: CREATE makes version 1,
ALTER of a field the next version, SET STATE keeps the version. Whether CREATE
and ALTER leave a context draft or active is left open. So is whether DROP
refuses a context that has been activated since `delete()` looked. That the engine
carries out one statement on a name at a time, its save included (`Busy`), is
assumed of it. What goes wrong inside a save is `ContextRepository`'s subject, a
`commit()` that raises among it.

## 3. Runs

| Run | Shows | Bounds |
|---|---|---|
| `DeepSeeFold` | the loop equals the net-effect operators | all batches of up to 4 events, 2 entities, scores 0, 1, 2 or none |
| `SyncFeed` | `StoreMatchesSource` and the other promises, refinement of `MembershipReplica`, catching up | 1 entity, 2 scores, page size 1, 4 events, 1 failure or restart, all 8 feed modes, bitmap snapshots |
| `SyncAnySource` | for re-additions, zero scores and id-list pages too, the set of members is right and each score was given in the present membership | 2 entities, page size 1, 3 events, 1 failure or restart |
| `SyncTornBootstrap`, `SyncZeroScore` | two ways in which a sync does not equal a rebuild | as small as the counterexample allows |
| `QueryPath` | what a resolve and its evidence say of the source, the budget of retries, and that every query ends | 4 entities of which 2 are members at first, 2 scores, page size 1, 2 events, 2 retries, 3 pages at most, LIMIT none, 1, 2 or 3 |
| `RepositoryThreads` | atomic promotion, agreement of disk and memory, durability, progress, but for what the shared connection and a stale entry spoil | all threads interleave: refresher, pruner, saver and 2 writers, one of them under the lock; 2 versions, of which the second has history events, 1 write per thread, 2 faults |
| `RepositoryTornPromotion` | what the shared transaction breaks | 2 versions, 1 write per thread, 1 fault |
| `SchedulerDeployments` | exclusion, spacing, visible failures, progress and shutdown | clock to 4; the loop alone with 2 contexts of intervals 2 and 3; 1 context and a second ticker; the same with exceptions that escape |
| `CatalogRequests` | agreement of engine and table, frozen history, final deletion | 2 requests at a time (symmetric), updates of up to 2 fields, 3 versions, 2 contexts of the name |
| `CatalogFilteredList` | the listing's filter picks replaced versions | 1 request, 2 versions |
| `ServerLife` | the start from any schema, context ids, answered changes and their audit rows, engine maps, listings, and that the server serves again | files of all four schemas (0 to 3), any rows identified in the last, a payload damaged or not; 2 versions of one context and another context, 2 providers, 1 map name in 2 namespaces, 2 threads, page limit 1, 2 changes, commits and rollbacks of other components, 1 crash or failure of the environment |

Why the bounds are enough. With page size 1 every event and every member is a
page of its own, so each interleaving of the source with the pages occurs with
few events; four events are enough for a removal, a re-addition and two score
changes of one entity inside one batch or across two. Entities do not interact
in a delta; two are needed only where rank decides the page of a member. One
fault suffices for a failure or restart at each point, and for the replay after
it. In the repository two versions give a snapshot to supersede and to prune and
one to promote beside it; one write per thread is enough for a row between its
statement and its commit while every other thread passes; and two faults give a
failure during recovery from one (three versions with one fault pass as well).
The clock's bound lets each context come due again after its first refresh, and
one of them a third time. Two requests interleave pairwise: an update, or a change
of state, with a deletion or another update; three versions hold the creation and
two alterations of one update or of two, and two contexts let a name be created
again after its deletion (three requests with updates of one field, and three
contexts of two requests, pass as well).

For a query, two members and two entities that may join, one below and one above
them, give a removal below a member, an addition below one, and a change of
score between pages; at page size 1 two of these can come before and after any
page. Three pages hold a member, the same member again after another has come in
below it, and the next one, so that a limit of two is used up by one member;
four members make the cursor chain reach `MaxPages = 3`. The delays are chosen
so that the base (2), its double and the server's wish (5) lie on both sides of
the cap (3), and rows of 3, 4 and 5 bytes put the encoded size on both sides of
the limit of 10. For the server's life, one crash or refusal can come at each
statement of a start and at each step of a request; a second one finds a file in
the same states. Two changes are a registration and a change of its row, two
changes that overlap, or both maps; commits and rollbacks of the other
components are not bounded. Two names and page limit 1 make every row a page of
its own.

The scope of `SyncFeed` is what the code needs to keep its promise: bitmap
snapshots, a source that adds only non-members, no zero score. Two violation
runs lift the first and the last of these and are findings of `PROJECT.json`.
When the second is lifted, a member that is added again without a removal keeps
the score of an older `score_changed` event of the same batch
(`synchronizer.py:214`, `302-304`): no run of its own shows it, but `SyncFeed`
with `AllowReAdd = TRUE` does. `SyncAnySource` shows that scores are all that
goes wrong when pages are not torn, and how far they can go wrong: the score
shown is one the entity was given since it last became a member, never one from
before it left (`MembersMatchSource`). That holds because a removal
discards the score changes before it, which an addition does not; the mutant of
this property drops that.

`RepositoryTornPromotion` checks the claim without an excuse, on the model that
`RepositoryThreads` checks: an audit row's `commit()` makes the moved pointer
permanent, and the promotion then fails. The same model also loses writes: a
failed promotion's rollback (`context_catalog.py:349`), or a failed state commit's
(`synchronizer_state.py:65`), discards a row that another thread has inserted, and
whose `commit()` then succeeds with nothing to commit. These are the rows in
`lost`, which `ReturnedWriteIsDurable` excepts, and the changes in `undone` and
`unlogged`, which `AnswersAreAudited` excepts. And a `save_context` that waits for
the lock while a promotion runs writes the overtaken pointer back (`stale`).

`CatalogFilteredList` shows a context whose version 2 has left the state that
version 1 still has, so that `list(lifecycle_state=...)` returns version 1
(`catalog_service.py:131` filters before it takes the maximum).

Fairness. `DeepSeeSynchronizer`: weak fairness of the synchronizer's steps, and
of bootstrapping while there is no watermark; the owner is assumed to keep
calling `sync_once()`, since the repository contains no such loop, and every
call returns or raises. Source changes, failures and restarts are never fair.
`ContextRepository`: a begun operation continues (weak), and a refresh is tried
again and again (strong, because other operations may intervene): the scheduler
does that. `RefreshScheduler`: the poll timer fires and calls return or raise;
the clock, `stop()` and other callers have no fairness. `QueryService`: the
calls of a query return or raise and its sleeps end; that a failing service ever
recovers, or the source comes to rest, is not assumed. `ControlPlane`: a server
that is down is started again, as a supervisor does, and a start that has begun
runs on; requests, stops and crashes are not fair.

`CHECK_DEADLOCK FALSE` is set where the system stops: a fold that has consumed
its batch, a server that has closed.

Limits of what holds, as the runs showed:

- `RefreshSpacing` is for a deployment whose loop is the only caller of `tick()`:
  the lock is released before the due time is set, so a second ticker can refresh
  again in between. It is about the real clock and measures from the beginning of
  the tick that refreshed last, as the code does; two starts may be closer than
  the interval by as much as the earlier one came late in its tick, behind slow
  refreshes of other contexts.
- `KeepsRefreshing` and `FailureIsVisible` are for a deployment without escaping
  exceptions: one raised while a failure is being recorded ends the thread for
  good.
- `StartupConverges` excepts a file that a crash or a refused statement has torn
  inside `003_context_runtime_state.sql`: every later start repeats an `ADD
  COLUMN`, fails, and goes on failing until somebody repairs the file. It also
  excepts a damaged payload, on which every hydration raises.
- A synchronizer with a saved watermark and a new store stays incomplete until
  somebody bootstraps it: `StoreMatchesSource`, `MembersMatchSource` and
  `EventuallyCurrent` then allow missing members (`storeLost`), never wrong ones.
  The claim of `synchronizer.py:12-13`, which `SyncTornBootstrap` and
  `SyncZeroScore` refute, fails there as well; no run of its own shows it.
- `EntryIsLatestRow` excepts the time from a change of the engine's entry to its
  save or, if that failed, to the next save or restart.
- `AnswersAreAudited` excepts what a rollback elsewhere discarded: the request
  still reports success.
- `PromotionIsAtomic`, `ServedSnapshotIsDurable`, `ReturnedWriteIsDurable` and
  `RefreshNeverWedged` except what `cut`, `lost` and `stale` stand for (section 2).
- `UntornResolveIsExact` needs equal first and last watermarks. Otherwise a
  resolve may miss a member that was there throughout or list one twice, for the
  reasons `OnlyShiftsTearPages` names and no other.
- A member listed twice counts twice against the limit (`mcp_provider.py:98`).
  As a list the result is then full. As a bitmap it holds the member once
  (`mcp_provider.py:134`), hence fewer than `limit` ids, and yet a member
  that was there throughout, and not shifted, may have been cut off.
- A bitmap that comes over the wire is returned whole: `limit` does not apply to
  it (`mcp_provider.py:47-48`).
- A bitmap from the wire that does not decode is passed on: `UntornResolveIsExact`
  then speaks of the scores beside it only, `OnlyShiftsTearPages` of nothing.
- The size limit counts rows and separators, one more than the answer has, and
  not `meta`, though `src/README.md:64` and `68-69` promise a limit on the encoded
  response. No property is about it.
- Of an identity map name used in two namespaces the engine has the later one
  only.
- A client that pages through the providers misses a row when another one is
  registered between a page's count and its rows, and the count said that this
  was the last page; and a client of either listing when a rollback elsewhere takes
  a row away.

## 4. Proofs

`DeepSeeSynchronizerProofs` proves, for any finite set of entities, any scores,
page size, feed mode, and any number of events and faults:

- `TypeCorrect`: `Spec => []TypeOK`;
- `AckedIsPublished`: `Spec => []AckedChangesArePublished`;
- `NoGap`: `Spec => []DeltaHasNoGap`;
- `NeverGoesBack`: `Spec => StoreNeverGoesBack`.

These four come from one inductive invariant, `IInv`. The properties are not
inductive as they stand. That a delta has no gap depends on how its pages were
collected. `FetchedSoFar` says so while they are being read: a feed in event
order has delivered every event up to the offset `cursor` stands for; a feed
that lists the newest event first has delivered, below every event held, all
those the cursor has passed, for a growing feed shifts offsets towards events
already fetched, so that pages repeat events and never skip one; its first page
holds the newest event there is, so the batch reaches what was there when that
page was read (`begun`). `FetchedAll` says what that comes to when the cursor
chain has ended: below the newest event fetched nothing after `mark` is missing,
and when the store is ahead of `mark` (a state commit that failed, a restart)
the batch reaches the store's watermark again, so that the replayed delta cannot
go back. `PositionsOrdered` keeps watermarks, remembered ids and the batch
inside the log and in order, and a store without a watermark empty: that is what
a restart without the store leaves, and the one case in which `mark` may be
ahead of it. The proof has one lemma per action; the temporal steps only combine
them. `IInv` was first checked by TLC on the instance of `SyncFeed`.

The same module proves that the store is a state of the source:

- `MembersMatchCorrect`: `Spec => []MembersMatchSource`, for every source, from
  its two halves, `SameMembers` and `ScoresOfMembership`;
- `StoreMatchesCorrect`: `Spec => []StoreMatchesSource`, if the source adds only
  non-members (`~AllowReAdd`) and has no zero score;
- `ImplementsReplica`: `Spec => ReplicaSpec`, the refinement of
  `MembershipReplica`, if in addition snapshots are bitmaps.

The conditions are needed: `SyncZeroScore` and `SyncTornBootstrap` show the code
without the second and the third. `IInv` knows positions and not memberships, so
these theorems add two invariants. `HistoryInv` says that the log explains the
service's membership (`LogExplainsMembers`) and is well formed
(`WellFormedLog`): a score was changed of members only and, under the first
condition, only non-members were added. `PagesInv` says that the pages of a
bootstrap, as long as they are of one watermark, hold the members whose rank the
cursor has passed, and all members of that watermark when they are published.
The argument: the membership at a past watermark never changes again
(`PastIsStable`), and between two watermarks an entity keeps its score or gets
that of its last event (`SourceAtSince`). By `NoGap` a published delta folds all
events between `mark` and the new watermark. If an entity's last event in it is
not a removal and the batch has no addition behind it, then all its events in the
batch are score changes and it was a member throughout (`OnlyRescored`);
otherwise the batch adds it, and under the conditions no score change before
the addition survives in the fold (`AddedFirst`). Hence the delta carries the
store from any watermark between `mark` and the new one to the new one
(`DeltaCarries`): the store may be ahead of `mark` after a failed commit
or a restart, and the replay does no harm. Without the conditions, the score a
delta leaves with a member is still that of some live event, one no removal of
the entity follows (`NewScoreIsLive`), and an entity stays a member from a live
event on (`LiveIsMember`); a member the delta does not touch keeps both its
score and its membership (`DeltaKeepsScores`). A lost store takes part in all this
with the members it has: what a delta fills in is exact (`DeltaFills`). For the
refinement, a mutation of
the service appends its new membership to the replica's timeline, a
publication is a `CatchUp` because the store never goes back, a restart without
the store is a `Lose`, after which the store counts as empty until a bootstrap
fills it, and every other step is a stutter.

`DeepSeeSourceProofs` has what several modules need: the facts about `Latest`
and the fold operators' types, and the service's past (`SourceStep`,
`HistoryInv`, `PastIsStable`). Sets of numbers get their greatest element by
well-founded induction on the naturals.

`CatalogLifecycleProofs` proves, for any set of requests, any number of fields
and any bounds on versions and contexts, `TypeCorrect`, `EngineAgrees`
(`EntryIsLatestRow`), `DeletionIsFinal` (`DeletedStaysDeleted`) and
`HistoryIsFrozen` (`OldVersionsFrozen`). `EntryIsLatestRow` alone is not
inductive: it says nothing while a save is outstanding, and that is when the next
row is written. `IInv` therefore adds what holds at all times: a context is dropped
as a whole and its id was given before (`Ledger`); the entry is at or ahead of all
rows of its context, none of which is dropped (`Current`), so that whatever is
saved next, also after a save that failed, overwrites no older version; what a
request that waits for its save has in hand (`Saving`); that a deleted id is in
neither table nor entry (`Deleted`); and, when nothing is unsaved, which rows are
visible (`Saved`). One lemma treats every step that only moves a request, one
every step by which the engine changes its entry.

`DeepSeeFoldProofs` proves `FoldIsNetEffectCorrect` for batches of any length
over any entities: the dictionaries `_fold_events` builds are `Additions`,
`Removals` and `ScoreChanges` of the batch, which is why the synchronizer's
model may use these operators. The loop's invariant (`FoldInv`) is the property
itself for the events consumed so far. One event changes the entry of its own
entity only (`OthersUntouched`, `OthersKeep`); for that entity there is a lemma
for each kind of change. The induction is over the steps of the loop.

`ContextRepositoryProofs` proves `TypeCorrect`, `PromotionIsAtomicCorrect`,
`ServedSnapshotIsDurableCorrect` and `ReturnedWriteIsDurableCorrect`, for any
writers, versions, writes and faults and every interleaving of the threads. Its
`IInv` has two halves. One holds always: the lock has one holder (`Locked`),
without a transaction nothing is uncommitted (`Committed`), the numbers an
operation works with (`Numbers`), and a written row is on the connection until it is on
disk or `lost` (`WrittenRows`). The other (`Snapshots`) holds until a thread outside
the lock cuts a transaction half-way. It says that the committed database lies
between two promotions (`Between`) and its pointer is at the current snapshot
unless `save_context` has written an overtaken one (`Fits`); and, because the
properties do not say what a half-done operation has already put into the
transaction that somebody's commit will make durable, exactly what the connection
sees at each call of a promotion or pruning (`RefreshStage`, `PruneStage`), that it
sees nothing uncommitted of the snapshots between them (`QuietStage`), and where
the pointer may be (`PointerStage`). A commit or rollback of a stranger either finds
the operation half-way, which is a cut, or finds nothing of it and changes nothing
(`EndsBetween`, `NotHalfWay`). `Between` also has what the pruner relies on: nothing
is newer than what is promoted, and only the oldest snapshot, or the one the pruner
has chosen to keep, may lack history. There is one lemma per action; `FailNext`,
`RollbackNext` and `CrashNext` cover the faults at all of them. That hydration
serves the last of the stored versions (`LastServed`) takes the greatest of a set
of numbers by well-founded induction.

`RefreshSchedulerProofs` proves `TypeCorrect`, `OneRefreshPerContextCorrect`,
`ClosedOnlyWhenQuietCorrect`, `FailureIsVisibleCorrect` and
`RefreshSpacingCorrect`, for any contexts, intervals, callers and deployments.
Exclusion needs that a ticker from the lock's acquisition to its release holds
the lock of the context in its hand and of no other (`LocksAreHeld`). Spacing
needs that with no other caller only the loop's ticker moves (`Spaced`) and, of
that one (`LoopSpaced`), that a tick's `current` is never ahead of the clock, that
the context it is about to lock was due at it, and that a context once refreshed is
either still in the hands of the tick that did, or due an interval after that tick
began: the due time the code sets is what the next test finds.

`QueryServiceProofs` proves every safety property of a query, for any source,
configuration, query, failures and retries. `RetryBudgetCorrect`: an operation
makes at most `MaxRetries + 1` calls, gives up a transient failure only after the
last, and sleeps at most `MaxRetries` capped delays; `Spent` relates calls and
sleep to the number of the attempt. `EvidenceForResolvedCorrect`: `EvidenceInv`
adds that what was fetched lies between the first page of the resolve and now,
and that a resolve has no evidence yet. Its core is counting (`FirstRowsFill`):
ranks are a bijection of a finite set of ids to an interval, hence a limit that
cuts off a row leaves exactly as many as it says. `QueryTypeCorrect` is
`Spec => []TypeOK`; it needs the lemmas about sorting: `ArrangedFacts` (what
`Arranged` returns is the set, each element once, in the order, for any total
order) and `KeptFacts` (what a limit keeps are items of the list, as many as the
limit, and none that is left out ranks before them).

`UntornResolveIsExactCorrect`, `NothingInventedCorrect` and
`OnlyShiftsTearPagesCorrect` say what a resolve is worth when members change under
its pages. They speak of the result; the invariant must speak of the pages read so
far, which is `ReadingInv`. What has been gathered is what the source had between
the first page and the last (`Seen`). If both are of one watermark it is exactly
the members of ranks up to the cursor (`ReadInOne`). If not: an entity that has not
been gathered was no member at some moment, or had a member below it removed, or
still has a rank beyond the cursor (`NotSkipped`); and one gathered has a rank the
cursor has passed and is there once, unless an addition came at or below it
(`NotRepeated`). The rank in these is the one of *now*, so the world's steps matter
as much as the pages do: `WorldShifts` says that a rank goes down only by a removal
below and up only by an addition below, and `WorldKeepsOrder` that both parts
therefore survive every step of the source. At the last page the cursor has passed
all ranks, and what sorting, cutting and encoding do to the list is `ResultFacts`.
A bitmap from the wire is one page, exact if it decodes (`WireBitmapIsExact`);
of one that does not only its scores are (`MalformedHasScores`).
The attempt to prove `OnlyShiftsTearPages` showed that an earlier form of it, without
the case of the limit that a doubled id uses up, was false: three pages are needed,
and the run then had two. TLC confirmed it with `MaxPages = 3`, and the run has kept
that bound.

`ControlPlaneProofs` proves, for any rows of an older server, any registries and
any number of crashes and failures of the environment, `SchemaIsCompleteCorrect`,
`FailsOnlyWhenTornCorrect`, `OneIdPerContextCorrect`, `IdsAreStableCorrect` and
`TypeCorrect`. `SchemaInv` says that version rows are recorded in order and only
after their scripts, and that the statements before the one in hand have been
executed; `FailInv`, that without an interruption the third script is untouched or
finished between starts, so that its `ADD COLUMN`s find no column; `IdInv`, that
identifiers are among those generated, that the versions of a context agree as far
as they have one, and that no two contexts do. `TypeOK` of `ControlPlane` is proved
and in no run.

`TablesInv` is what the requests rest on: the connection sees what the last commit
left and more, and a process that is not serving has nothing uncommitted.
`EngineServesRegisteredMapsCorrect` follows because the committed maps only grow
behind the `loaded` rows, which a rollback therefore cannot reach, and because of
the rows of one name there is a last one (`LastOfName`, by well-founded induction),
which the engine has (`LoadedMaps`). `AnswersAreAuditedCorrect` rests on `AuditInv`:
what a request has executed is on the connection, what it has committed is on disk,
unless a rollback took it (`Reached`), and a log row has its change. One lemma
treats every step that accounts for what it discards (`Accounted`), which commits
and rollbacks of any thread do. `ListingMissesNothingCorrect` rests on `ReaderInv`:
every row still unread has a place beyond the offset, which stays so because rows
that are added only make places grow, and the total a client compares its offset
with is the number of rows unless one has been registered since the count; both hold
until a rollback shrinks the listing (`RewindReads`).

Assumptions used are the named `ASSUME`s of the modules, which TLC evaluates
in every run that extends them. `BackoffAssumption` is arithmetic: the provers do
not know exponentiation, so that a doubled delay is a number is assumed.

Every safety and action property of every passing run is stated by a theorem.
Only model-checked is liveness (`EventuallyCurrent`, `RefreshNeverWedged`,
`KeepsRefreshing`, `QueriesEnd`, `StartupConverges`): fairness and `ENABLED` are
outside what TLAPS supports here. Of `EventuallyCurrent` the safety part is
proved in `NoGap`: what a sync applies reaches every change that was there when
its first page was read. Of `QueriesEnd` the part without fairness is proved
(`QueryAdvancesCorrect`): the parts of a query still to come, the offsets its
cursor chain may still reach, and the steps its operation may still take are
natural numbers that every step of the query lowers, read in this order, and
that nothing raises before it has ended. What is left to TLC is that a query
that has not ended can take a step. `StoreMatchesSource` and the refinement are
proved under the conditions named above, which are those of the runs; every
other theorem is about the specification as it is.

That a statement of the engine behaves as its action, or a query as `Return`,
is an assumption about code outside the repository.

## 5. What is left

`ImplementsReplica` with id-list pages, for which `MembershipReplica` needs a step
that publishes what torn pages hold. A model of the engine's statements, if its
source becomes part of this repository, in place of the external actions.

## 6. Not modelled

- Choices instead of state: the service's queue of injected failures, the
  environment variable of a credential, what is wrong with a response. Other
  callers can fill or change them between any two calls.
- DeepSee service: additions and score changes without a score, which this one never
  sends; they are in `DeepSeeFold`, and in the synchronizer a cause of `CallFails`. A
  bitmap that decodes to other ids than the members.
- Query service: a statement that is not a SELECT, or that cannot be analysed,
  goes to the engine without the LIMIT check; the replacement of NaN by None; the
  size of the answer's metadata, which the limit does not count.
- Registries: filters of the listings, an update with no field, the values of a
  row's columns (which change it holds is kept), equal names in two namespaces of
  `providers`. The audit rows of start and stop are `RefreshScheduler`'s calls that
  may raise, and not rows of `ControlPlane`'s log.
- Catalog service: preview, versions, snapshots and history only read; refresh
  hands one statement to the engine.
- Runtime repository: payload codecs, the translation of rows into engine entries.
  Checksums are there only as `corrupt`. That a restore after pruning may be
  renumbered by the engine (E201, `context_catalog.py:394`) depends on code outside
  the repository.
- Explain and health handlers, schemas, settings, logging, the dependency
  globals, the provider registry and its mocks, the engine manager: no state, or
  state set once at startup. The demo is a script that
  uses the engine and the connector once, from beginning to end.
- The engine itself, outside the repository: its statements and its membership
  store are modelled as the code and tests here use them, and marked external in
  `PROJECT.json`.
