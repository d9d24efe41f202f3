# A verification project for CPA-plusplus

CPA-plusplus is a proxy in front of the APIs of language models: it holds many
*credentials* ("auths": OAuth tokens, API keys), knows which *models* each one
may use, gives every request a credential that is not cooling down, learns
from the results, refreshes tokens in the background, and follows the files
and the configuration while all of this runs. The models here are about that
core: the state of the credentials, the views derived from it, and the
goroutines that change them.

All paths are relative to the repository, below `src/` in `PROJECT.json`.

## 1. Inventory

### Components, their state, and who touches it

| component | source | state | operations |
|---|---|---|---|
| auth manager | `sdk/cliproxy/auth/conductor.go` | `auths` under `m.mu`; per credential the state of every model, the aggregated state, the time of the next refresh | `Register`, `Update`, `Remove`, `MarkResult`, `ReconcileRegistryModelStates`, `RefreshSchedulerEntry/All`, `SetSelector`, `Execute`, `ExecuteCount`, `ExecuteStream` |
| credential scheduler | `auth/scheduler.go` | under `s.mu`: entries with a pointer to a record, the model set of the entry, per provider and model a shard with ready views, cursors and waiting entries; cursors of mixed requests | upsert, remove, rebuild, `setSelector`, pick for one provider or several |
| auto refresh loop | `auth/auto_refresh_loop.go` | under `l.mu`: heap, index, dirty set; channels `wakeCh` (1) and `jobs`; a timer | `queueReschedule`, `loop`, `worker`, `rebuild`, `upsert`, `remove` |
| model registry | `internal/registry/model_registry.go` | models per client, reference counts per model and provider, marks of exceeded quotas and suspensions, a cache of listings | `RegisterClient`, `UnregisterClient`, `SetModelQuotaExceeded`, `ClearModelQuotaExceeded`, `SuspendClientModel`, `ResumeClientModel`, listings |
| registration pipeline | `sdk/cliproxy/service.go`, `model_inventory.go` | the queue of updates (256) and what its consumer has drained | `consumeAuthUpdates`, `handleAuthUpdates`, `applyCoreAuthAddOrUpdate`, `applyCoreAuthRemoval`, `refreshModelRegistrationForAuth` |
| selectors, session affinity | `auth/selector.go`, `session_cache.go` | cursors, session bindings with expiry | `Pick`, `Get`, `GetAndRefresh`, `InvalidateAuth` |
| watcher | `internal/watcher`, `sdk/cliproxy/watcher.go` | hashes of files, the view of credentials (`currentAuths`), runtime credentials, pending updates and their order, the dispatcher | file events, `refreshAuthState`, `dispatchAuthUpdates`, `dispatchLoop` |
| token stores | `internal/store`, `sdk/auth/filestore.go` | the directory of auth files and its copy in a bucket, a database or a git repository | `Save`, `Delete`, `PersistAuthFiles`, `Bootstrap` |
| websocket relay | `internal/wsrelay` | sessions and their pending requests, each with a channel of 8 | `run`, `dispatch`, `request`, `cleanup`, `NonStream`, `Stream` |
| virtual models, aliases | `internal/routing`, `auth/oauth_model_alias.go` | none; they resolve names | resolution |
| usage accounting | `sdk/cliproxy/usage`, `internal/usagestats` | queue of records, subscribers, a store | publish, dispatch |
| home client, plugin host | `internal/home`, `internal/pluginhost` | connections, child processes | remote dispatch |
| API, executors, translators, login flows, quota views, TUI, configuration | `internal/*`, `sdk/api`, `sdk/translator`, ... | little or none that the core depends on | I/O and conversion of payloads |

`PROJECT.json` lists every component with its status; the list of hazards
there names what can go wrong, line by line.

### How they interact

    bucket, database <--Save, PersistAuthFiles-- store <--Save-- manager
           |                                       ^
           +--Bootstrap--> auth files --events-----+
                               |
    files, config --> watcher --updates--> service pipeline --Register/Update/Remove--> manager
                                               |                                        |   ^
                                               +--RegisterClient--> registry <--marks---+   |
                                                                     |                  |   |
                                                      model set of   v       upsert     |   |
                                                      an entry   scheduler <------------+   |
                                                                     |                      |
    Execute* --pick--------------------------------------------------+---result-------------+
        |
        +--> executor --> provider, or a client behind a relay session
    refresh loop --refreshAuth--> provider --Update--> manager --queueReschedule--> refresh loop

Three mutexes matter (`m.mu`, `s.mu`, the registry's) and a fourth one in the
loop (`l.mu`). Only the failing branch of `refreshAuth` holds two of the first
three while it changes something. Everything else *commits* under one,
releases it, and *applies* what it took along under the next: the scheduler
and the registry are views that follow the manager with a delay, in an order
nobody enforces. The watcher does the same with its own two mutexes
(`clientsMutex` for the view, `dispatchMu` for the pending updates).

### What is hard

* **Commit and apply.** Two results, a result and an update, a removal and a
  late upsert, a synchronisation of the whole scheduler and any of them: the
  views must agree with the manager in the end.
* **Shared objects.** `Register` and `Update` give the scheduler the object
  the manager goes on to change.
* **Results out of order.** Requests overlap: a late failure meets a state
  another request has already set, and every result overwrites the retry time.
* **Cached aggregates.** The credential's own state is computed from the
  models' states when a result arrives, and time goes on without one.
* **Indexes kept between rebuilds.** The scheduler skips a rebuild when an
  upsert changes nothing it thinks matters; cursors are positions in lists
  that change.
* **A loop that must forget nothing.** The refresh loop reads records under
  `m.mu`, writes its heap under `l.mu`, is woken through a channel of one
  place, waits on a full channel of jobs and sets its timer with an old `now`.
* **Merging on the way.** An update of a credential is merged in a map, taken
  in a batch, queued in a channel and merged again.
* **Caches over caches.** The watcher decides by hashes whether to look at a
  file that is written without a lock; the registry decides by an expiry time
  whether to build a listing again, with a clock read before its mutex.
* **Nested retries.** Pools inside credentials inside attempts inside virtual
  targets, with waits for cooldowns that other requests move.
* **Channels closed by others.** Four goroutines of the relay may end a
  request, and its channel has to be closed by exactly one.
* **Two copies of a token.** The directory and the remote copy are written one
  after the other, by goroutines that do not share a lock, and a start
  replaces one by the other.

### What makes each one correct

* *manager and views*: when the updates of a credential have been applied, the
  scheduler holds the manager's record and the registry's models, and a
  request gets a credential the manager would give it;
* *cooldowns*: the credential is blocked exactly when all its models are, its
  status is an error exactly when one of them has one, backoff is bounded,
  every block ends;
* *scheduler*: indexes equal what a rebuild would give; picks are of the
  highest priority and never of a blocked credential; rotation is even;
* *refresh loop*: what is due is looked at in time, refreshed once at a time,
  and no wake-up is lost;
* *registry*: counts equal registrations, a cached listing equals a fresh one;
* *watcher*: view, cache and what was sent follow the sources;
* *update pipeline*: the manager never goes back to an older update and ends
  up with the last one;
* *execution loop*: a bounded number of calls, one result per call, no call
  after the request itself has been found invalid, an answer in the end;
* *relay*: every caller comes back, and success means the whole answer;
* *stores*: the remote copy follows the file, and a restart never brings back
  a spent token or a removed credential.

## 2. How the project is built

One module per component, and one composition where components share state:

| module | of | relates to | theorems in |
|---|---|---|---|
| `Conductor` | manager, scheduler entries, registry, pipeline, as critical sections | composes the three views | `ConductorProofs` |
| `AuthCooldown` | `MarkResult`: cooldown table, backoff, aggregation | gives `Conductor` its blocks | `CredentialProofs` |
| `ModelScheduler` | `scheduler.go` under `s.mu` | gives `Conductor` its picks | `DispatchProofs` |
| `ExecuteLoop` | the three execution loops | uses what the three above decide | `ExecuteProofs` |
| `RefreshLoop` | `auto_refresh_loop.go` with the manager's side | | `RefreshProofs` |
| `AuthWatcher` | the watcher up to the hand-over of an update | feeds `UpdatePipeline` | `CredentialProofs` |
| `UpdatePipeline` | pending map, dispatch loop, channel, consumer | refines `LatestVersion` | `DeliveryProofs` |
| `LatestVersion` | what the way of an update promises | | |
| `ModelRegistry` | reference counts, marks, listing cache | in more detail than `Conductor` | `RegistryProofs` |
| `RelaySession` | one session of `internal/wsrelay` | | `DispatchProofs` |
| `TokenMirror` | an auth file and its remote copy | | `DeliveryProofs` |

Some modules of proofs are about two components that a credential, an update or
a request passes through: `CredentialProofs` (its cooldowns, and the watcher
that brings it), `DeliveryProofs` (the pipeline, and the stores), and
`DispatchProofs` (the scheduler, and the relay). Therefore the second component
of each pair names its specification after itself (`WatcherSpec`, `MirrorSpec`,
`SchedulerSpec`, with `...Init`, `...Next` and `...Vars`). `SetLemmas` has what
several of them need about finite sets and sums.

An `MC` module adds to a specification what a run needs of it (symmetry sets,
constants that are functions); the `.cfg` of the same name gives the values.
A cfg replaces no definition. Definitions whose comment begins with "Mutant"
are variants of the definition that follows them, with a plausible bug;
`PROJECT.json` says which property each must break in which run.

No module that theorems are about declares a RECURSIVE operator: recursion is
in recursive functions and folds of the community modules, and where a theorem
needs the sum, in `SumFunctionOnSet`, which takes a function and not an
operator.

What could come next: the bindings of the session cache, the queue of usage
records, and the replies of the home control plane, each a module of its own;
the legacy selectors as a second pick in `Conductor`.

## 3. The modules

### Conductor

`auths` is `Manager.auths`; `registered` and `suspended` are the registry's
models and marks per client; `schedAuth`, `aliased`, `supports`, `shards`,
`ready`, `retryAt` are what the scheduler has per credential (the record, or
that it is the manager's own object, the model set, the state in each shard
that has been built). A record keeps what routing depends on: whether it is
disabled, which models have a state, which of these carry an error, and until
when each is blocked.

A goroutine is a member of `Procs`; `job[p]` is its program counter with the
credential and model it works on, `snap[p]` the record it carries between two
critical sections, and `live` says that this record still is the manager's
object (so that changes made in place are seen through it). One action is one
critical section:

| operation | actions |
|---|---|
| request | `Pick`, `Repick`, `Abandon`, `MarkResult`, `MarkMissing`, `MarkUpsert`, `MarkRegistry` |
| `syncScheduler` | `SetSelector`, `SyncRead`, `SyncRebuild` |
| `refreshAuth`, `prepareRequestAuth`, management edits | `CloneForUpdate`, `UpdateCommit`, `UpdateMissing`, `RefreshFailed`, `UpdateUpsert` |
| `applyCoreAuthAddOrUpdate` | `ApplyRead`, `ApplyCommit`, `ApplyMissing`, `ApplyUpsert`, `InventoryCommit`, `InventorySkip`, `InventoryUpsert`, `RegisterModels`, `ReconcileRead`, `ReconcileCommit`, `ReconcileNothing`, `ReconcileUpsert`, `EntryRead`, `EntryMissing`, `EntryUpsert` |
| `refreshModelRegistrationForAuth` | `CatalogRefresh`, the above twice, `LatestAuth`, `UnregisterLatest` |
| `RefreshSchedulerEntry/All` | `RefreshEntry`, `EntryRead`, `EntryMissing`, `EntryUpsert` |
| removal | `RemovalUnregister` or `ManagementRemove`, `RemoveCommit`, `RemoveMissing`, `RemoveUnschedule` |

`stale` is a history variable: the credentials of which one update was
committed while another one was between its commit and its upsert. A later
commit or synchronisation that runs alone takes the credential out again. The
properties speak of credentials outside `stale` - crossing updates are a fact
of this code - and the run `conductor_removed` shows what may become of those
inside.

### AuthCooldown

One credential with `states` (`Auth.ModelStates`) and `auth` (the same fields
of the credential itself). `Success`, `Failure`, `NoVerdict`, `AuthSuccess`,
`AuthFailure` are the branches of `MarkResult`; `Reconcile` is
`ReconcileRegistryModelStates`; `Start` is a request that found the model not
blocked; `Tick` is time. A time is what is left of it. `Settle` is
`updateAggregatedAvailability`, clearing of elapsed blocks included, and is
part of every action that calls it.

### ModelScheduler

The scheduler for one model, in full detail: `meta` and `block` are what it
has of each credential, `shard[p]` is `modelShards[model]` of provider `p`
with entries, ready views (flat and grouped, all and websocket) with their
cursors, and waiting entries, `mixed` the cursor of requests that list all
providers. Every action is one call under `s.mu`: `UpsertAuth`, `RemoveAuth`,
`Rebuild`, `SetSelector`, `RequestSingle`, `RequestMixed`. `turn` and `served`
are history variables: the kind of the current window of picks and how often
it picked each credential.

### RefreshLoop

The loop as a program counter with what it holds (`loop`), its `heap`,
`dirty` set, `wake` signal, `timer` and `jobs` channel; the workers, from the
channel through the network call to the reschedule; the callers of `Register`,
`Update` and `Remove`, which commit first and reschedule or unschedule
afterwards; results of requests, which change `LastError` and do not
reschedule. Time may pass while the loop is busy (`lag`, up to `MaxLag`), and
it goes on computing with the `now` of its last wakeup, as the code does.
`untold` and `excused` are history variables: credentials whose change nobody
has told the loop about (see the observations below), and refreshes whose
pending mark is over.

The heap with its index is the function `heap`: `container/heap` is the
library's.

### ExecuteLoop

One request through `executeVirtualChain`, `Execute`, `executeMixedOnce` and
their siblings for streams and counts: `req` holds the local variables of the
loops with a program counter. `PickNextMixed`, `PickFails` and `GiveUp` are a
pick with its set of tried credentials and the limit of credentials;
`PrepareRequestAuth`, `CallReturns`, `MarkResult` and the end of a stream
follow the call through the pool of upstream models; at "decide" the loop
waits (`RetryDelay`), starts another attempt, goes on to the next virtual
target, tries the paid credits, or answers. `block` is the time left of every
block, which the request's own results and `OthersReport` change. The kinds of
requests are a constant. `ledger` is a history variable.

The three loops are copies of each other in the code; a kind says where they
differ.

### AuthWatcher

`disk` and `events` are the environment; `hashes`, `known`, `recent`,
`current`, `runtime` the watcher's maps; `job` where each goroutine is with
what it carries: the one that handles file events (`StatFile` ... `CommitFile`,
`RemoveClient`), those of the start and of the reload timer (`ReloadConfig`,
`FilterView`, `ScanFiles`, `ReplaceCache`, `SnapshotCoreAuths`,
`RefreshAuthState`) and those of the service (`RuntimeUpdate`, `SaveAuth`,
`PersistedUpdate`). Each commits under `clientsMutex` and hands over in
`DispatchAuthUpdates`. A file may be found half written (`Torn`). `sent` is the
last update handed over.

### UpdatePipeline and LatestVersion

An update is its number among those of its credential. `DispatchAuthUpdates`
merges into the pending map, `NextPendingBatch` takes it, `Send` waits for a
place in the channel, `Receive` drains and merges (`coalesceAuthUpdates`),
`HandleAuthUpdates` and `Apply` apply in order. `LatestVersion` has two
variables, what was asked for and what is held, and says that the latter
follows the former, never back. The refinement maps `asked` to `issued` and
`held` to `applied`; it is checked with its liveness and proved without.

### ModelRegistry

`models` is the map of registrations with counts, providers, metadata and
marks; `clientModels` and `clientProviders` what each client offers; `cache`
the listing with its expiry. `Register` is the whole of `RegisterClient`, its
in-place reconciliation included, `Unregister` and `CleanupExpiredQuotas` the
operations of these names, and a result makes its calls one by one
(`StartResult`, `MakeCall`), as `conductor.go` does. A listing is built with a
`now` that may be older than the present.

### RelaySession

One registered session. `reader` is `run` and `dispatch`, `cleaner` is
`cleanup` with its `Range` over a changing map (`keys`, `seen`: any order, and
what is stored meanwhile may or may not be visited), `caller` and `watch` the
two goroutines of a request, `chan` its channel. The client answers in the
order of the protocol or not at all; the connection may fail anywhere. A send
on a closed channel and a failed type assertion are `panic`s.

### TokenMirror

One auth file and its copy, for the bucket and for the database, which differ
in what they check first and in how a start fills the directory (`kind`).
Holders of the store's mutex are `holder` (`SaveMetadata`, `SaveStorage`,
`SyncLock`, `DeleteLock`, then reading the file and the remote call, which may
fail); management handlers write and remove the file outside of it
(`UploadBegins`, `UploadEnds`, `RemoveFile`); the watcher notices and has it
uploaded (`FileChanged`, `FileIgnored`). `Crash` may come at any point and may
take the directory with it; `Bootstrap` starts again. `since` is the set of
contents a start may find, by what has been acknowledged.

## 4. The runs

| run | instance | shows |
|---|---|---|
| `conductor_one` | 1 credential, 1 model, 2 goroutines, all operations, clock to 2 | the views agree once updates are applied in order, and requests get usable credentials |
| `cooldown_one` | 2 models, 2 requests of each under way, results without a model | aggregation, status, bounded levels; blocks end |
| `scheduler_picks` | 3 credentials of one provider (2 priorities, parents, websockets, support, quota blocks, disabling), or of two providers with one that moves between them | indexes, every possible next pick, rotation over groups, within them and over providers |
| `execute_requests` | 2 credentials of 2 providers, pools of up to 2 upstream models, 4 kinds of request (streaming or not, two virtual targets, a limit of credentials, paid credits) | calls are bounded and reported once, an invalid request is not tried again, every request ends |
| `refresh_one` | 1 credential, 1 worker, 2 callers, lag 1 | nothing forgotten, one refresh at a time, timer in time |
| `refresh_live` | 1 credential, 1 worker, 1 caller, no lag | marks are applied, what is due is refreshed |
| `watcher_follow` | 1 file, 1 channel, 2 contents, 2 reloading goroutines, 1 caller; 2 writes, a reload each, 1 call | cache, view and what was sent follow the sources |
| `pipeline_merge` | 2 credentials, a channel of 2, 4 updates of each | `LatestVersion` is implemented, its liveness included, and no stage loses the last update |
| `registry_counts` | 2 clients, 1 model listed up to twice, 2 providers or none, 1 result, window 2, clock to 3 | counts, the cached listing, and agreement of the two ways to list |
| `relay_requests` | 1 request, a channel of 2, 3 chunks | types, open channels can be found, success means a whole answer, callers return |
| `mirror_stores` | both stores, 2 changes, 2 saves, 1 failure, 2 crashes | the copy follows the file, saved contents survive |
| `conductor_removed` | as `conductor_one`, without updates | **violation**: a late upsert brings a removed credential back into the scheduler |

### Bounds

Two goroutines are enough for a commit and an apply to cross. Two models are
what an aggregate needs to differ from its parts; two pooled upstream models
and two credentials what a loop needs to take the wrong next one. Durations
keep the order they have in the code (a quota's backoff below, at and above
its maximum; a challenge's minimum above the first backoff).

* Clocks: in `Conductor` and `ModelRegistry` the clock is absolute and stops
  at `MaxTime`, which lets a block, or a quota's window of 2, begin, be seen
  and end; everywhere else times are remainders and the clock never stops.
* `MaxServed` is the length of a window of picks: as long as the largest view,
  after which a new window starts where the cursors are, so a turn is judged
  from every position.
* `JobsCap` is 1: the code's buffer of 64 and more is full earlier in the
  model, which only makes the loop wait more often. `Capacity` (256 in the
  code) and `Buffer` (8) are 2 for the same reason; three chunks overfill the
  channel of a request. Each theorem about these modules covers every value.
* `MaxUpdates` is 4: one update in each stage of the pipeline and one more.
* `MaxWrites`, `MaxReloads`, `MaxCalls` bound the environment of the watcher:
  a file written twice, so that a reload can read the first content and commit
  after the second. With a credential of the configuration in `Keys` as well
  the graph has 15 million states; that instance was checked, too, and is not
  kept as a run.
* `MaxChanges`, `MaxSaves`, `MaxFailures`, `MaxCrashes` bound the environment
  of the mirror: two saves and two uploads with a failure and a crash between
  any two steps, and another crash after the restart.
* A second relay request multiplies the states by themselves (more than 30
  million); the theorems about `RelaySession` hold for any number.

### The finding

`conductor_removed`: `MarkResult` takes a snapshot under `m.mu` and upserts it
after it has released it (conductor.go:3061). When `Remove` runs in between,
the removed credential gets a scheduler entry again, and no later operation on
it takes the entry out: picks return it until the whole scheduler is rebuilt.
`conductor.go:1518` and `scheduler.go:226` say that removal deletes it.

### Observations

What the models contain, or what was seen while they were written, and what no
property states, because no text of the repository says otherwise or because
the property names it as its exception.

Manager and scheduler:

* A result changes the object the scheduler holds outside `s.mu`. The registry
  half of a late result marks a model that was reset meanwhile. A late failure
  of another kind ends a quota's cooldown early: every result overwrites the
  retry time.
* A catalog refresh that races with a removal registers the models of the
  removed credential and leaves them (service.go:2016), although its comment
  wants no stale registrations left behind (2004-2005).
* A credential that is always ready can be starved by another that comes and
  goes: cursors are restored to positions in a list that has changed
  (scheduler.go:130, 1021).
* A 401 that a request's success lifts does not reschedule the refresh: the
  credential is refreshed again only when something else marks it
  (auto_refresh_loop.go:240, 342).
* `Remove` unschedules after it has released `m.mu`; when the same credential
  is registered again in between, its new heap entry is lost until something
  marks it (conductor.go:1518, auto_refresh_loop.go:324).

Execution loops:

* A stream that the client cancels can be reported as a failure of the
  credential (conductor.go:1128); so can an error while preparing a request
  under a canceled context, for every credential in turn.
* With `max-retry-credentials` a request waits for the cooldown of a credential
  it has tried although another is ready; the limit counts the credentials of
  one attempt of one target, where config.example.yaml:113 and config.go:95
  speak of those tried for one failed request.
* The closest cooldown is looked for among all credentials of the provider,
  whether or not they support the model, are pinned or have a pool.
* The fallback to paid credits goes on after an answer that the request is
  invalid, and books calls that were canceled. A canceled request goes on to
  the next virtual target, where it ends. The wrapper of a bootstrap error of a
  stream loses its `Retry-After`.

Watcher and pipeline:

* A reload that drops a credential and changes the excluded models reports no
  removal of it (clients.go:37): it stays with the manager.
* Two updates of one credential that commit in one order under `clientsMutex`
  may be handed over in the other (dispatcher.go:142).
* The inline branch of `emitAuthUpdate` (service.go:526) is reached only before
  the queue exists or after `Stop`; while the queue is in use it would let an
  update overtake those in the queue.

Registry:

* Marks outlive the registration of their client. A late mark of a client that
  no longer offers the model is subtracted from those that do, and
  `GetModelCount` counts such marks as well.
* `CleanupExpiredQuotas` has no caller outside the tests.

Relay:

* `dispatch` and `cleanup` send on a channel they looked up before; when the
  context's watcher, or the other of the two, has closed it, they panic
  (session.go:109). `request` loads its own entry again from a map that
  `cleanup` may have replaced, and the type assertion panics.
* A message that finds the channel of its request full (8) is dropped, also an
  error or an end; `NonStream` may then report a truncated body as a success.
* A failed heartbeat or `Stop` before `onConnected` announces the session down
  before up.

Stores:

* A `Save` whose metadata equals the file returns success at once, also when
  the upload of that very content had failed: a restart then loads the older
  one. The models do not count such a return as an acknowledgement.
* Uploads in `TokenMirror` are always of new content. The upload of old content
  (a restored backup) before the watcher has handled the change in between
  leaves its hash unchanged and the copy with the other content; and the same
  content while another goroutine reads the truncated file can leave the copy
  deleted.
* The server serves before the watcher starts, and the start's scan fills the
  hash cache without uploading anything.
* `Bootstrap` of the bucket keeps files that only exist locally, and never
  uploads them.
* After a removal the handler has already made, `Delete` of the git store
  commits nothing, and a failed push is not tried again.
* Memory and file: after `DeleteAuthFile` a late `Save` recreates the file; a
  refresh or a quota query in flight writes back a clone, enabled if the
  credential was enabled when it began (conductor.go:4977,
  quota/service.go:188); saves of two updates can reach the store in either
  order (conductor.go:1499). `FileTokenStore.Save` truncates in place
  (filestore.go:133): a crash leaves an empty file, which `Load` skips.

### Fairness

`AuthCooldown` only asks that time passes. In `ExecuteLoop` time passes and the
request's goroutine runs: executors return and streams end, because they use
contexts with deadlines; other requests owe nothing. `RelaySession` asks the
same of its goroutines, and nothing of the client, the connection or the
contexts: `CallersReturn` begins when the answer has come, the context is done
or the session has closed. `UpdatePipeline` has its dispatch loop and its
consumer, which run until the service stops, weakly fair, and nothing of the
watcher.

In `RefreshLoop` goroutines that can run do and refreshes return; time passes,
also while the loop is at its select (`TickAtRest`), which says that a round
takes less time than the delays between rounds; and a `select` with two ready
channels does not pass over the same one for ever, which the uniform choice of
the runtime gives with probability one (`OnTimer`, `OnWake` strongly fair).
`DueIsRefreshed` further assumes that callers do not replace the records for
ever (`Quiet`). Runs with `CHECK_DEADLOCK FALSE` are those whose environment is
bounded or may do nothing more.

## 5. The proofs

All theorems hold for any values of the constants that meet the assumptions
named in the modules: durations and bounds are naturals; the constants for
"none" are none of the values; what is counted, listed or summed over is
finite (the clients of the registry, the credentials and providers of the
scheduler and of the loops, the lifetimes a refresh can give); the pools,
targets and deployments of an instance are what their comments call them. TLC
evaluates all of these in the runs.

| theorem | module | states |
|---|---|---|
| `TypeCorrect` | `ConductorProofs` | `Spec => []TypeOK` |
| `UncrossedHoldCurrent` | `ConductorProofs` | `Spec => []HeldIsCurrent` |
| `SchedulerMirrors` | `ConductorProofs` | `Spec => []MirrorAgrees` |
| `PicksUsable` | `ConductorProofs` | `Spec => PickIsUsable` |
| `SupportFollows` | `ConductorProofs` | `Spec => []SupportAgrees` |
| `TypeCorrect`, `AggregateFollows`, `StatusFollows`, `LevelsStayBounded` | `CredentialProofs` | `AuthCooldown`: `TypeOK`, `AggregateExact`, `StatusHonest`, `LevelsBounded` |
| `CacheFollows`, `ViewFollows`, `SentFollows`, `RuntimeFollows` | `CredentialProofs` | `AuthWatcher`: `CacheMirrorsDisk`, `ViewMirrorsDisk`, `SentMirrorsView`, `ViewMirrorsRuntime` |
| `TypeCorrect`, `NobodyIsForgotten`, `RefreshesDoNotOverlap`, `TimerNeverLate` | `RefreshProofs` | `TypeOK`, `NoneForgotten`, `OneRefreshAtATime`, `TimerInTime` |
| `CallsAreReported`, `InvalidEndsTheCalls`, `CallsStayBounded` | `ExecuteProofs` | `EachCallReported`, `InvalidIsFinal`, `CallsBounded` |
| `CountsStayExact`, `CacheStaysHonest`, `ListingsStayTogether` | `RegistryProofs` | `CountsExact`, `CacheHonest`, `ListingsAgree` |
| `IndexesStayRight`, `PicksStayRight`, `RotationStaysEven` | `DispatchProofs` | `ModelScheduler`: `IndexAgrees`, `PicksAreRight`, `RotationIsEven` |
| `TypeCorrect`, `WaitersCanBeFound`, `SuccessMeansWhole` | `DispatchProofs` | `RelaySession`: `TypeOK`, `OpenIsPending`, `SuccessIsWhole` |
| `TypeCorrect`, `PipelineNeverGoesBack`, `LastUpdateIsSomewhere` | `DeliveryProofs` | `UpdatePipeline`: `TypeOK`, `NeverGoesBack` (refinement of `LatestVersion`), `LastIsSomewhere` |
| `SavedContentsSurvive`, `RemoteFollowsFile` | `DeliveryProofs` | `TokenMirror`: `SavedSurvives`, `RemoteFollows` |

Every invariant of a passing run is a theorem.

### Conductor

`MirrorAgrees` is not inductive: it says nothing while an update is on its
way, and nothing about who holds which object. The inductive invariant `IInv`
adds to the type invariant:

* `HeldIsCurrent`: whoever still has to apply a record of a credential whose
  updates did not cross holds the manager's current one;
* `LiveOK`: a goroutine is in `live` only between its commit and its upsert,
  and then it holds the very record the manager has - so a change made in
  place reaches it;
* `RemoverOK`: a removal on its way to the scheduler holds "no record".

`TypeInv` is `TypeOK` with what each place of a goroutine says of its job (which
credential it names, whether it holds a record). The steps fall into four
kinds, with a lemma for each: those that change only a goroutine's own job
(`QuietStep`), those that apply a record to the scheduler (`PutStep`), and the
two kinds of commit (`MutateStep`, in place, and `ReplaceStep`). One lemma per
operation (`SynchroniseStep`, `RequestStep`, `UpdaterStep`, `PipelineStep`,
`RemovalStep`) then has one step per action that cites them, and `InvNext`
combines these.

The part on routing adds `ReadyOK`: what is in a ready list has a record that
is not blocked, whenever no update of it is on its way. It does not need the
updates to be in order - every upsert evaluates the record it brings - but a
commit in place breaks it until the upsert that follows, because it changes
the object the list was made from. A pick then answers from the record or from
a list that is right about it, and by `MirrorAgrees` the record is the
manager's. The second half shows that `SupportAgrees` is inductive next to
these: whoever changes a registration is on its way to an upsert
(`Registering`), or finds the credential gone - and then `MirrorAgrees` says
there is no entry.

### AuthCooldown

`AggregateExact` speaks of the present, and the aggregate was computed when the
last result came. `Summarized` is what stays true while time passes: a
credential marked unavailable has a retry time that is the least of its
models', all of which are marked; one that is not has a model that is not down.
The book of states is finite and every level in it fits under the cap
(`Book`, `Fits`), so that least and greatest elements exist (from
well-foundedness) and powers of two are naturals (they count subsets).

### RefreshLoop

* `Watched` for `NoneForgotten`: every credential that is to be looked at and
  that somebody told the loop about is noticed (marked, in the channel, with a
  worker or a caller that will mark it), in the loop's hand with a time that is
  not too late, or in the heap with one. Reading a record with an old `now` is
  harmless because it only makes the entry earlier (`LateLook`).
* `Single` for `OneRefreshAtATime`: as long as its mark lasts and nobody
  replaces its record, at most one refresh is in flight, and while one is the
  mark lies ahead (`Covered`), so that `MarkPending` refuses. The flights are
  counted through cardinalities of positions and workers.
* `TimerInv` for `TimerInTime`: no entry is further in the past than the loop
  can lag, and the timer is armed for the least.
* The types of these proofs are wider than `TypeOK`, which bounds every time by
  the longest delay there is. `Bounded` adds that: it needs `TimerInv` (an entry
  is not further in the past than `MaxLag`), and that what `NextCheck` gives, of
  a record read at any instant, lies within the delays.

### AuthWatcher

The four properties speak of a credential about which all is quiet; each gets
an invariant for the time in between.

* `RuntimeOK`: the view of a channel is the channel, or a reload is under way
  (`Reloading`). A filter may drop it from the view, and the goroutine that did
  will set it to what `w.runtimeAuths` then says, under the same lock.
* `SentOK`: of a credential whose updates did not cross at most one goroutine
  carries an update, and what it carries, or else what was sent last, is what
  the view says - or the view has dropped it and a reload is going to compare
  again (`Told`). A refresh that finds no difference sends nothing, which is
  right only because of this.
* `FilesOK`: whatever the cache does not know of a file is still announced by
  an event or looked at (`CacheOf`); a file with a hash has an entry, which its
  removal takes with it (`KnownOf`); the view is what the cache is about, unless
  a commit or a reload is to come or it was set behind the cache (`ViewOf`); and
  whoever is about to bring back a file that is gone has an event about its
  removal ahead, else the cache has no hash of it or the view has lost it and
  no refresh under way will restore it (`GoneOf`). That a scan and the handling
  of an event exclude each other (`Excluded`, `authRescanMu`) is what `CacheOf`
  needs when the scan replaces the cache, and that nobody touches a hash between
  `CheckHash` and `CommitFile` (`HashHeld`) is what `ViewOf` needs.

There is one lemma per action; those that leave files alone are covered by
`FilesStay`, and what a step of the handler does to the other files by
`FileApart`.

### ModelRegistry

The counts are sums over the clients, and a sum (`SumFunctionOnSet`) is a
recursive function, of which nothing is known until a solution of its
equation has been shown to exist. `SetLemmas` shows that for every finite set,
by induction: the library's theorem for that takes an operator as parameter,
which the provers cannot instantiate, so `SubsetInduction` says it for a set of
sets, and follows from the least number that fits none. From it come what one
element adds to a sum and that equal functions have equal sums.

* `AllExact`: a model's count and its count per provider are the sums of the
  clients' copies, and its metadata exists for exactly the providers that count
  (`Tallied`). `OneClientMoves` says what a client that changes its list, its
  provider or both does to the sums; `AddedFacts`, `RemovedFacts` and
  `ReconciledFacts` that the operations do the same to the counts - the order in which a reconciliation removes the
  old provider's copies and adds the new one's matters there.
* `CacheFresh` for `CacheHonest`: the cached listing is what a listing at any
  time from when it was built until it expires would be. A quota that recovers
  in between would expire it (`ExpiresInTime`, from `BuildsAgree`), and a
  builder with an old clock only makes it expire earlier.

### ModelScheduler

Two things make an index what a rebuild would give, although most upserts do
not rebuild. `ShardsTidy` says it of every shard: it is `Tidy`, that is, well
shaped, every priority in it has the views of that tier (`Shows`: up to the
cursors, which are naturals - `Rolling`), the waiting list is the entries that
wait, in order; and its credentials are its provider's. `SameViews` and
`SamePlaces` show that an upsert that keeps state, priority, parent and
websockets need not rebuild (`UpsertTidy`); the mutant without the parent is
where this breaks.

`PicksAreRight` also needs the entries to say something about the present.
They were evaluated when their record came, and `Fresh` is what stays true
while time passes: an entry that is ready has a record without a block, since
time only lifts blocks, and one that waits does so until its record's retry or
recovery. A pick first promotes what is due (`PromoteTidy`), after which ready
means not blocked (`ReadyFits`, in both directions). What remains is
arithmetic: wherever a cursor stands, `PositionFits` finds a member of the list
that may be used if there is one, so a pick from a view, flat or grouped, ends
in a member of it (`PickFromFits`), the highest priority is found
(`HighestFits`), and the mixed pick, whose slot is one of the sum of the
weights, ends with a provider that has the highest (`MixedFits`). `SingleRight`
and `MixedRight` put this together: they speak of a state in which the invariant
holds (`Known` has its types) and of the answer a request would get there.

`RotationIsEven` says how often each member of a view was picked, and nothing
of where the cursor stands; a pick keeps it only because the cursor stands
behind the members that are a turn ahead. `Turned` says that: the members of a
list have had `r` turns, and the `m` places before the cursor, around the end
of the list, one more (`Laps`). The next pick takes the next place
(`PositionNext`), which makes that `m + 1` places (`LapsStep`), or a full turn
(`LapsRound`). A flat view is turned; of a grouped one the parents are, counted
by the picks from their groups, and each group's list is (`EvenView`,
`FlatPick`, `GroupedPick`). In a mixed pick the slots take the place of the
cursor: each provider's list is turned, and as far as `Passed` says, which is
how many of the `m` slots before the current one lie in the segment the
weights give it (`Shared`, `SharedStep`, `MixedTurns`). Where views have
groups, a mixed window promises nothing, and so does the invariant.

The rest is what interrupts: a rebuild restores the cursors of the views that
stay (`KeptShard`; `UpsertTurns`, `RemoveTurns`, `PromoteTurns`), but it looks a
view up by its priority, so that a view may have what another had before.
`SameTop` and `SameMixed` show that this does no harm: only one credential can
have moved, so a view of several that shows the same is still at its place,
and one of a single credential is even wherever its cursor is. `Turning` joins
the three kinds of window; `MixedCounts` keeps the slot a natural number.

### ExecuteLoop, RelaySession, UpdatePipeline, TokenMirror

* `ExecuteProofs`: `Answering` - a request known to be invalid and not canceled
  is about to be answered so, or answered - next to the ledger's balance.
  `CallsBounded` is about a sum, too: `Within` says that the calls made and
  what is left of the pool in hand fit in what the targets before this one
  allow, and of this one the attempts before, each with the pools of all that
  serve it, and in this attempt the pools of the credentials tried; with the
  paid credits, all targets and the credentials tried for those. `Places` is
  what it needs of the request (credentials tried are offered, a pool in hand
  is not empty, an attempt is not one too many, and from the paid credits
  nothing leads back).
* `DispatchProofs`, of the relay: `Links` = before its caller has looked at
  `s.closed` a request is where it was stored (`Unwritten`); of those that have looked, cleanup
  visits all whose channels are open (`Listed`), and whom it has visited has a
  closed channel (`Visited`); cleanup begins by setting `closed` (`Begun`).
  `SuccessMeansWhole` adds that chunks in the channel, in the reader's hand and
  received add up to what was sent until the first error (`AllKept`), and that
  an end of a channel is announced in it.
* `DeliveryProofs`, of the pipeline: the stages are ordered by age (`ByAge`) -
  what the manager holds is older than what the consumer has drained, that than the
  channel, the batch and the pending map - and the two structures of a stage
  belong together (`StagesMatch`). Each step then is a step of `LatestVersion`
  or a stutter.
* `DeliveryProofs`, of the stores: `SinceOK` - the copy, and whatever a call under
  way may make of it, is one of the contents since the last acknowledged save or removal;
  `NumberedOK` and `AnsweredOK` - when file and copy differ, somebody is on the
  way who will make them agree, unless the last call failed.

### Only model-checked

All liveness (fairness and ENABLED are outside of what the prover handles):
`BlocksEnd`, `RequestEnds`, `CallersReturn`, `GetsThere`, `MarksAreApplied`,
`DueIsRefreshed`. `RemovedIsForgotten`, which the code violates.

## 6. What is not modelled

* The manager's records and their files together: `Conductor` has no disk and
  `TokenMirror` no records; what can happen between them is among the
  observations.
* The git store, whose state is that of a repository, the file store, which has
  no copy, several instances on one remote store, and a remote call that takes
  effect after it has timed out.
* The data of requests and responses, providers' protocols, headers, logging.
* The resolution of virtual models and aliases, which is string handling.
* Requests dispatched by the home control plane, and the selectors of the slow
  path with the session cache, which serve them and the plugins.
* Data races proper: the object shared by manager and scheduler is read
  without the manager's mutex; the models take a clone as one step.
* Cancelling the refresh loop: the service starts it once and cancels it at
  exit. `RefreshEvaluator`, which only tests implement, and executors that are
  not registered. `Start` and `Stop` of the service.
* The handshake of a relay session and the replacement of one by another of the
  same name, which the service's random names exclude.
* Disabling a credential inside `AuthCooldown` (it is in `Conductor` and
  `ModelScheduler`).
* Everything else `PROJECT.json` lists as not modelled, with the reason: pure
  I/O (executors, plugin host, quota views, login flows), pure conversion
  (translators), and data (configuration, TUI). They make up most of the
  repository's lines.
