# Verification of the rec_engine recommender

This directory holds TLA+ models of the recommender engine in `src/gorse` (a
master, workers and servers around a cache store and a data store), the TLC
configurations that check them on small instances, and TLAPS proofs that hold
for every value of the constants. `PROJECT.json` lists the components, the runs,
the theorems, the hazards, the findings, and for every definition the source
lines it models.

1. [The system](#1-the-system)
2. [Modules](#2-modules)
3. [How the modules correspond to the code](#3-how-the-modules-correspond-to-the-code)
4. [Runs](#4-runs)
5. [Fairness](#5-fairness)
6. [What is proved](#6-what-is-proved)
7. [What is only model-checked](#7-what-is-only-model-checked)
8. [Not modelled](#8-not-modelled)
9. [Plan](#9-plan)

To check a run: `tlc -config Sync.cfg ModelSync` (the module of each run is in
section 4); to check proofs: `tlapm NodeProofs.tla`.

## 1. The system

One master trains models and precomputes what all users share. Workers, between
which users are distributed by consistent hashing, precompute recommendations
user by user. Servers answer REST requests. The nodes meet in two stores and
through the master's gRPC service:

    requests --> server --+--> data store (users, items, feedback)
                          |         ^   ^
                          v         |   |
                     cache store <--+-- worker --(GetMeta, Get*Model)--> master
                          ^             (reads)                            |
                          +------------------------------------------------+

### Inventory

| Component | State it keeps | Operations | Interacts with | Correct when |
|---|---|---|---|---|
| jobs scheduler (`base/task`) | number of jobs, free jobs, registered tasks, a condition variable | Register, Init and AvailableJobs of an allocator, Unregister | every background task of the master | no job is lost or made up, no task works with more than it was charged, no wake-up is lost, who asks gets jobs |
| parallel helpers (`base/parallel`) | goroutines, a channel of jobs, errors | Parallel, DynamicParallel, BatchParallel, Split, condition channel | scheduler, tasks, worker, vector index | every job is run once, or its error returned; a signal is not lost |
| vector index (`base/search`, `base/heap`) | layers of neighborhoods, an entry point, locks; clusters | Build (insert), Search, MultiSearch, the builders | worker, neighbor tasks | the build ends, connections lead both ways, a search that looks at everything is exact |
| master loops (`master/master.go`) | tickers, condition channels, data sets, the schedule of the managed mode | load, fit, search, garbage collection, managed variants | scheduler, cache, data store | loads go on, imports are loaded, no task reads a data set while it is replaced, a scheduled round does what was asked |
| master tasks (`master/tasks.go`) | data sets, lists of neighbors, models, time stamps | the load and six tasks | scheduler, stores | the data sets are what the rows say, cached lists are renewed and searched in recent data |
| models, RPC, local cache (`master/rpc.go`, `local_cache.go`) | model, version, score, a file | GetMeta, GetRankingModel, GetClickModel, PushProgress, writing and loading the file | workers, servers | a version names one model, the file has what was published |
| ranking and click models (`model`) | indices, parameters, snapshots | Fit, Evaluate, Predict, searches, Marshal | fit and search tasks, worker | the best that was measured is kept, a prediction reads the rows of whom it is asked about |
| node registry (`storage/meta`) | nodes and the time they were last seen | UpdateNode, ListNodes | master RPC | a live node is listed |
| worker (`worker/worker.go`) | models and versions, latest known versions, ranking index, peers | Sync, Pull, Serve, Recommend | master, cache, data store | it ends up with the master's models; fresh recommendations know the feedback and fit the user |
| server (`server/rest.go`, `server.go`) | clients of the stores | queries, recommendations, inserts, updates, deletes, Sync | cache, data store | what is deleted or hidden is not recommended, the cache follows the data store, answers are full and agree |
| master REST (`master/rest.go`) | none of its own | dashboard, dump, restore, import, export, purge, schedule | both stores | what is moved arrives |
| cache store (`storage/cache`) | values, sets, score documents, queues, time series; SQL, Redis, MongoDB, proxy | AddScores, SearchScores, UpdateScores, DeleteScores, Get, Set, Push, Pop, ... | everybody | the implementations agree |
| data store (`storage/data`) | users, items, feedback; SQL, MongoDB, proxy | batch inserts, modifications, deletions, streams | master, worker, server | the implementations agree |
| configuration, progress, commands, client, front end, scripts | settings, spans, UI state | parsing, start, REST calls | | |

### What is hard in it

* Tasks keep the read lock of a data set while they sleep for jobs, and
  allocations change under running tasks.
* A load is triggered by a ticker, by a flag in the cache that another goroutine
  polls and clears, and it can panic. In managed mode requests and the loop share
  the schedule without a lock.
* The goroutines of a load share recommenders and an error variable without a
  lock.
* Models travel by version numbers that are read at other times than the models;
  Sync, Pull and Serve share the worker's fields without a lock. Models that are
  fitted further keep numbers of rows from an older load.
* Two fit tasks write one cache file without a lock, and the process may stop at
  any point of it.
* Data store and cache are written one after the other without a transaction, by
  requests, loads and rounds at the same time, and documents are told apart by
  time stamps that are taken early and written late. One deletion may be several
  statements; a deletion in Redis is many commands.
* Stores are read page by page while others change them, and three stores and a
  proxy stand behind each interface.
* Insertions into the vector index lock vectors one by one and read the number
  of layers before they lock it.
* Workers divide the users by lists of peers of different age, and reconnect to
  stores of a configuration that changes again meanwhile.

The list of hazards, each at its line and with the properties that cover it or
the reason why none does, is in `PROJECT.json`.

## 2. Modules

Modules whose name begins with MC hold the instance of a run; where several
components are checked in one run the MC module also composes them (*sum
composition*: one variable says which of the parts a behaviour exercises, the
others rest in their initial state). The parts joined in this way have no
variable in common; what one leaves the other to find is among the other's inputs
(the worlds of `Candidates`, the stores of `MCServing`). Parts whose steps must
interleave are joined by EXTENDS instead. Theorems are in modules whose names end
in Proofs, one for each node or for what belongs together; a module with proofs
EXTENDS the modules it is about and is about their specifications; only
`StoreProofs` is about the sum in an MC module, `MCStores`, whose properties join
several parts.

| Module | Models | Run |
|---|---|---|
| `JobPool` | what the scheduler promises: the pool of goroutines is never exceeded (abstract) | `scheduler` |
| `JobsScheduler` | `base/task/schedule.go`; implements `JobPool` | `scheduler` |
| `MasterTraining` | loops of `master/master.go` and locking of `master/tasks.go`; EXTENDS `JobsScheduler`, whose actions are steps of its actions | `worker`, `training_deadlock` |
| `TrainingProofs` | theorems about `JobsScheduler` and `MasterTraining` | |
| `MasterModels` | fitting, publishing and caching of the two models; base of the next two | |
| `ModelSync` | `master/rpc.go`, and Sync, Pull, Serve of `worker/worker.go`; EXTENDS `MasterModels` | `sync*` |
| `LocalCacheFile` | `master/local_cache.go`, cell by cell; EXTENDS `MasterModels` | `background` |
| `ItemVisibility` | item requests of `server/rest.go`, load and round as far as they write item documents | `visibility`, `stale_round` |
| `ItemVisibilityProofs` | theorems about it | |
| `RecommendRound` | Recommend of `worker/worker.go` under `parallel.Parallel`, and feedback requests | `worker` |
| `IndexBuild` | Build of `base/search/hnsw.go` under `parallel.Parallel` | `worker` |
| `IndexProofs` | theorems about it | |
| `MCWorker` | `RecommendRound`, `IndexBuild` and `MasterTraining` together, instance | `worker` |
| `StoreRows` | tables, batches, pages | |
| `DataStore`, `CacheStore` | what the interfaces promise (abstract state machines) | `stores` |
| `SQLDataStore`, `MongoDataStore`, `ProxyDataStore` | `storage/data/sql.go`, `mongodb.go`, `proxy.go`: each operation as a function of the tables | `stores`; `serving` uses SQL |
| `SQLCache`, `MongoCache`, `RedisCache`, `ProxyCache` | `storage/cache/*.go`, likewise | `stores`; `serving` uses SQL |
| `DataStores`, `CacheStores` | the implementations side by side under the same calls; INSTANCEs of the abstract stores | `stores` |
| `RedisScores` | UpdateScores and DeleteScores of `storage/cache/redis.go`, command by command | `stores` |
| `MCStores` | the three together, instance | `stores`, `stores_begin_time` |
| `StoreProofs` | theorems about `DataStores`, `CacheStores` and `RedisScores`, in their sum | |
| `Recommenders` | recommendation requests of `server/rest.go`, as functions of the stores | `serving` |
| `RestServer` | requests of `server/rest.go` that change the stores, call by call; those that read; EXTENDS `Recommenders` | `serving` |
| `RestProofs` | theorems about it | |
| `MasterRest` | dashboard, dump, restore, import, export of `master/rest.go`; EXTENDS `Recommenders` | `serving` |
| `MCServing` | requests in whatever stores the others leave, and the three together, instance | `serving` |
| `DataSets` | indices, data sets and labels a load fills (`base/index.go`, `click/unified_index.go`, `ranking/data.go`, `click/data.go`) | |
| `DatasetLoad` | one load: LoadDataFromDatabase of `master/tasks.go`; EXTENDS `DataSets` | `background` |
| `Neighbors` | neighbor tasks, their time stamps, garbage collection | `background` |
| `LoadLoop` | what triggers loads, and what ends the loop | `background`, `loop_stops` |
| `ManagedLoop` | the managed mode of the master | `background` |
| `MasterProofs` | theorems about `LoadLoop`, `ManagedLoop`, `LocalCacheFile`, `Neighbors` and `ModelFit` | |
| `Cluster` | node names, registration, Sync of worker and server as to configuration and stores, pullUsers | `background` |
| `NodeProofs` | theorems about `ModelSync` and `Cluster` | |
| `Candidates` | what a round does for one user | `background` |
| `WorkerProofs` | theorems about `RecommendRound` and `Candidates` | |
| `VectorSearch` | exact search, inverted file, queries of the graph, builders | `background` |
| `ModelFit` | fitting, evaluating, searching, sending models; predictions; EXTENDS `DataSets` | `background` |
| `MCBackground` | the nine together, instance | `background` |

Definitions whose comment begins with "Bug:" are not part of any model. Each is
a variant of the definition after it with a mistake one could make in that code;
put in its place it must make the property named in `PROJECT.json` fail. They
show that the properties notice.

## 3. How the modules correspond to the code

### Scheduling, training, models

**JobsScheduler.** `free` and, per task, `jobs`, `previous`, `prio` are the
fields of the Go structs. `allocateJobsForTask` gives back the task's jobs in
one critical section (`Release`) and reallocates in a second one; `Enter` takes
the mutex again, every iteration of the loop of `allocateJobsForAll` is a
`Grant`, and `Return` or `Suspend` is what follows the loop. `pc = "granting"`
is the mutex being held. A task that sleeps in `Cond.Wait` is "waiting";
`Broadcast` makes it run for the mutex ("entering"). `using` is the number the
task was told: it differs from `jobs` because the scheduler raises the
allocation of running tasks. The non-blocking form of the allocator has no
caller but tests and is left out.

**MasterTraining.** One loader (`RunPrivilegedTasksLoop`, `runLoadDatasetTask`),
one search loop (`RunRagtagTasksLoop`) and the goroutine of every registered
task. `WriterWaits` is Go's RWMutex: no reader gets in while `Lock` waits. Tasks
are refused by `Register` until they have unregistered. What a task computes is
in other modules; that it may call `AvailableJobs` between rounds, with its read
lock held, is `AsksAgain`.

**MasterModels, LocalCacheFile, ModelSync.** Models are numbers, drawn once, so
that `LabelNotBehind` and `ModelsConverge` can tell them apart. A version starts
at a random number when the process starts without a file (`RandomVersion`: a
number that was not used before). `LocalCacheFile` writes the file in cells,
each writer at its own offset (`os.File.Write`), and the sections are taken from
the shared `LocalCache` at the time they are written; what two writers leave is
whatever the cells then are, which a start may not be able to load. `ModelSync`
writes the file in one step and has the three goroutines of the worker instead:
`GetMeta` is the call, `SyncReads` the comparison for one kind, `Asks`,
`Answers` or `CallFails`, `StoresModel`, `StoresVersion` the steps of `Pull` for
one kind. `StoresVersion` reads `latest` again, as the code does.

**LoadLoop.** `flag` is `DataImported` in the cache, `poller` the goroutine that
calls `checkDataImported` once a second, `signalled` the condition channel,
which counts signals nobody waits for as one. `ReadsItems` is the call of
`parallel.Split`: for an empty store it divides by zero and `CheckPanic`, which
is deferred in the loop's function and not in its body, ends the loop. That is
why the branch "empty ranking dataset" (`master.go:359`) is in no module:
nothing reaches it.

**ManagedLoop.** `trigger` is `triggerChan`, `searchModel` and `isRunning` the
fields of `scheduleState`, which the handler of `/api/admin/schedule` and the
loop share without a lock. `EndsTask` is the deferred `wg.Done`, `Unregisters`
the deferred `Unregister` after it; between them the next round may begin and
find the task still registered (`round.late`). A request that arrives while a
round runs is heard, but its wish to search models is reset at the end of that
round; the property says so and claims nothing else of it.

**DatasetLoad, DataSets.** `LoadDataFromDatabase`: the streams of users and
items, the groups of items with a goroutine each, the labels and their numbers,
positive and read feedback, samples of the click model, training and test sets,
the pushes to the non-personalized recommenders. The data store does not change
while it is loaded: each stream is one question, and a load that mixes states is
a load of some other store. Days stand for times. The error that the goroutines
share is assigned in one step (`UsesErr`), and afterwards it is read twice, in
the comparison and in the return (`ChecksErr`, `ReturnsErr`).

**Neighbors.** A load, the search for each node, the stamp taken after the
search, time-outs, the digest of the configuration, the judging of change by the
number of feedback (`tasks.go:1029`), and garbage collection. Users are the same
as items without categories and hidden items. Requests come one at a time and do
their calls one by one, in the order of each handler (`CallsOf`): a patch and an
insertion write the cached neighbors, the data and the stamp, feedback the data
and the stamp, categories the cached neighbors and the data but no stamp, an
import and the deletion of feedback the data alone; any call may fail, which ends
the request, and loads, runs and collections come between the calls. The loop of
a request over the items of a batch is one step per store, and a patch hides an
item or changes its categories, not both. There is one clock: clocks of nodes do
not differ. `noted` is history: the versions whose stamp was written, which are
those the task can know of; `missed` are the items whose stamp was overtaken, its
time having been taken before the stamp of a search that did not see the change
(`rest.go:1602`, `tasks.go:422`); they stay as they are until they expire.

A similarity is computed from IDF weights given as integers (`Ln`). Feedback
counts in a weight as often as it is there (`data.go:131`), so weights may be
negative, the root of a negative sum is NaN, and a neighbor whose similarity is
not above zero is left out (`tasks.go:388`); the index does not take it either.
What the builder of that index does with vectors of NaN is in `VectorSearch`.

**ModelFit.** A row of weights is known by the name it was made for, the weights
of a fit by the epoch they are from, a score is any of a small range. Draws of
samples come one after another (the parallel updates of shared weights, which
race by design, are abstracted), evaluation reads all rows at once. The fit and
the search task of a kind share the data set: `raced` says that both made the
negative samples of the test set at the same time. `served` and `name` are the
master's model and its name, `searcher` what `ModelSearcher` keeps; a fit task
adopts what the searcher has found, and `saved` is what is left of the model in
the file. A search whose every trial scores zero finds no model
(`search.go:79`), and the master restarts (`SearchPanics`, `search.go:194`). A
user with feedback on every item never gets a negative sample, so `BPR.Fit`
draws for ever (`model.go:443`); the model contains that, and says nothing of
such a fit.

### Worker

**RecommendRound.** A document is known by the amount of feedback its list was
computed from. `AddsScores` lays a list over the documents that are there: a
document of an earlier list stays unless the new list has its item, and nothing
deletes it (`worker.go:857`). `last` is history, the basis of the list written
last, and is what the properties are about. What a search of items adds to
CollaborativeRecommend is left out (no round reads it), but not that the search
may fail (`Searches`). Time stamps appear only as the orders the code compares: `newer`
(recommendation later than last modification), `stamped` (not expired), and, per
goroutine, `older` and `earlier` for `DeleteScores` with the goroutine's start
time. `excused` is history: users with feedback that no stamp tells of. The
collaborative search of one user deletes the documents of all
(`worker.go:921`); that is so in the code and in the module.

**Candidates.** One user's turn, from loading his history to caching the result.
A world (stores, models) is constant during a turn but for the neighbors of the
items, which the master may renew between the call that reads them and the call
that reads their digest (`worker.go:666`, `678`); what else changes it meanwhile
is the subject of `RecommendRound` and `ItemVisibility`. The digest of users is
read under the id of the similar user (`worker.go:725`), though the master stores
it for the user whose neighbors were searched (`tasks.go:737`, `829`), and it
differs from one similar user to the next. The cached list is laid over the
documents of earlier turns, and `SetsDigest`, the call after it, may be lost
without the round noticing (`worker.go:861`). Scores are integers (a
unit is 100, what exploration takes off is 1); documents of equal score come in
one order; `mergeAndShuffle`'s `exp(-n)` is an order; random scores of
replacement are taken at their bounds. A digest never equals the configured one
for a user without positive items, similar users or a predictable embedding, so
such users are recomputed in every round (`worker.go:1149`).

**IndexBuild.** `neighbors[0]` is `bottomNeighbors`, `neighbors[l]` the l-th of
`upperNeighbors`. A lock that is taken and given back with nothing blocking in
between is no state of its own; the lock of the inserted vector (`Locked`) is
kept from before it can be found until its last layer is linked. `Copies` and
`Raises` are the two halves of `append`, which races with insertions that store
into a layer; what they stored may or may not be lost.

**VectorSearch.** Vectors are numbers, distances a table; which centroid is
nearest is left open. A vector with a feature of negative weight is unclear: its
distance from a centroid may be NaN, which no comparison takes, and a vector none
of whose distances compares gets no cluster and is never found
(`ivf.go:218`). If that leaves every cluster without a centroid that compares, or
the clustering is cut off, the index has the clusters it has. That a vector's
distance from itself and from others is a number is assumed: a vector whose own
norm is NaN is not in the geometries. A query of the graph sees what it can reach. The builders
try larger beams until the recall, which divides by the number found and not by
the number expected (`hnsw.go:349`; the configuration calls it "Minimal recall"),
is good enough; so a graph that finds few neighbors passes, and only exactness
at the limits is claimed: a search of all clusters is exact over the vectors that
are in one, and these are all visible vectors unless as many are unclear as there
are clusters.

**Cluster.** Time is in seconds, the resolution of the meta store. `Starts`,
`WritesName` and `Crashes` are the name file of a node; `GetsMeta` is the whole
handler of the master (registration and list; one that fails may have registered
the node), `AppliesMeta` what Sync does with the answer; `path` is what the node
remembers of a store, `client` what it is connected to. The consistent hash is,
for each user, an order of the names.

### Stores

**SQLDataStore, MongoDataStore, ProxyDataStore, SQLCache, MongoCache,
RedisCache, ProxyCache** define each operation as a function of the tables, and
each query by the rows it answers. **DataStores** and **CacheStores** make the
same calls to all of them side by side. A reader of pages goes on between calls.
**RedisScores** has the commands of the two operations that are many commands.
What the stores do differently, all of it in the modules:

* A batch that gives a key twice: SQL keeps the first row, MongoDB and Redis the
  last.
* Times: SQL compares the beginning with `>=`, MongoDB with `$gt` although
  `WithBeginTime` says that it is included (see `stores_begin_time`); MongoDB's
  `GetFeedback` without any time answers nothing. SQLite keeps times as text in
  UTC, and `GetItems` and `GetItemStream` compare it with the text of the limit in
  the limit's own zone (`sql.go:468`, `501`), so that a limit counts as another
  instant there (`Limit`).
* `DeleteUser`, `DeleteItem`, `Purge`, `BatchInsertFeedback` are several
  statements without a transaction; they have names of their own, which
  `RestServer` uses.
* The proxy drops the time limit of `GetItemStream` (`proxy.go:900`), and empty
  lists in patches.
* SQL's `AddScores` keeps `is_hidden` of a document that is there and ignores
  errors. Redis' `SetSet` without members does nothing. A search of the
  empty subset is a search of any subset to Redis; an update or a deletion of the
  empty subset sends a query that Redis refuses (`redis.go:317`, `368`, without
  the condition of `259`), which no caller does and `CallsAssumption` excludes. A
  search without end is bounded (10000; points: 10).
* `Purge` leaves points (SQL) or messages and points (MongoDB).
* Redis' `HSET` under `WATCH` without `MULTI` can bring back a part of a deleted
  document, and `UpdateScores` searches the first page again for ever when more
  than a page matches (`redis.go:355`); only that deletions end is claimed.
* Counts of MySQL and PostgreSQL are estimates; the module counts.

### Requests

**ItemVisibility.** For every item: its state in the data store, its document in
the latest items and in the offline recommendations of one user. `old` are the
documents stamped before the load under way began, which its `DeleteScores`
deletes. A load of a store without any item panics (`LoadPanics`; `parallel.go:191`),
and the loop of the loads has then ended (`Stopped`); `others` says that the store
has items that no request touches, so that this cannot happen. `keepsHidden`
chooses between the SQL store, whose `AddScores` does not
assign `is_hidden`, and the others. A request's steps are its calls to the
stores in the order of the handler. `removed` is history: items whose removal
nothing overlapped.

**RestServer.** A request is the list of its calls to the two stores; what it
reads first decides the list; other requests and one failure come between the
calls. `about[c]` says what the request of a client touches and whether it is
alone, `known[c]` which users and items an insertion of feedback has found.
`disturbed` is history: users and items whose requests overlapped or failed.
`owed` is history: the change a time stamp must cover. Category
requests, deletions and write-back do not stamp, and so owe nothing. A batch of
items that gives an item twice is stored as its first row by SQL and cached as
its last; such batches are in `stores`, not here. The request for typed feedback
of a user and an item panics when there is none (`rest.go:1898`), which ends the
request alone.

**Recommenders.** A context is [results, exclude], a stage maps a context to the
contexts it may leave; ties and the order of Go maps make them sets. Lists that
apply the offset before read items are removed may be short
(`SearchDocuments`); the property is about what pages hold, not how many.

**MasterRest.** The dashboard answers what the server would, each id with its row;
one unknown id makes the answer fail as a whole; latest and popular by name have
no recommender there, and the answer is empty (`master/rest.go:755`). The image
recommender is taken as enabled. A dump has no subscriptions; a
restore and an import do not stamp `LastModify...` times, and a restore does not
set `DataImported`; importing feedback inserts its users even where the item is
unknown. Streams are taken as the snapshot of one statement.

## 4. Runs

| Run | Module | Distinct states | Result |
|---|---|---|---|
| `scheduler` | `JobsScheduler` | 22 700 | 5 properties hold |
| `training_deadlock` | `MasterTraining` | small | `LoadsEnd` is violated |
| `loop_stops` | `LoadLoop` | small | `ImportIsLoaded` is violated |
| `sync` | `ModelSync` | 257 792 | 3 properties hold |
| `sync_stale_model` | `ModelSync` | small | `ModelsConverge` is violated |
| `visibility` | `ItemVisibility` | 1 078 312 | 3 properties hold |
| `stale_round` | `ItemVisibility` | small | `OfflineShowsOnlyVisible` is violated |
| `worker` | `MCWorker` | 628 792 | 6 properties hold |
| `stores` | `MCStores` | 29 941 | 5 properties hold |
| `stores_begin_time` | `MCStores` | small | `BeginTimeIsIncluded` is violated |
| `serving` | `MCServing` | 416 001 | 6 properties hold |
| `background` | `MCBackground` | 1 802 871 | 12 properties hold |

### What the passing runs show, and why the bounds are enough

*scheduler*: four tasks, one privileged, two jobs, each registered once: some
shares are zero, allocations of running tasks are raised, tasks are suspended
and woken. All priorities are equal: then `Grant` may serve the tasks in every
order, and so in every order that different priorities could fix. The privileged
task comes and goes once, which switches `Eligible` back and forth.
`ImplementsPool` is the refinement of `JobPool`.

*sync*: two fits make Pull ask for a version that is not served any more; the
restart takes the version back or to a random one; the searched model changes
the model under a version. One kind is enough for what is checked, because kinds
are pulled one after the other and share only the three signals; the proofs are
about both.

*visibility*: one item, two clients, three requests, one failure. A removal, and
two requests that overlap it, are before, or are after it; a load and a round
overlap all of them; one failure anywhere. Items do not interact, so one is
enough, but for one thing: whether there are others decides whether a load of an
empty store ends the loop, and the run begins with both. `LatestShowsAll` and
`LatestShowsOnlyVisible` are claimed unless that has happened.

*worker*: two users and two goroutines, so that a goroutine fails with a user
left, both fail, and the collaborative search of one deletes documents of the
other; one feedback in the middle of a turn, before it or after it. Four vectors
with at most one connection per upper layer and two at the bottom, so that
connections are shrunk; three goroutines, so that two wait for a third; two
levels, so that two insertions go above the same top layer. In the last case the
goroutines may panic and then hang, so deadlock is not checked by TLC; instead
`BuildsGoOn` says, as an invariant over ENABLED, that the goroutines go on as
long as none has panicked. Three tasks of two data sets, two of them privileged,
with two jobs, so that a reader sleeps while another runs; two loads, so that a
task is refused, registered again, and finds a newer data set. `SafeSpec` says
that the composition uses the scheduler as its specification allows; the tasks
may stop (see below), which is no violation of it.

*stores*: batches with a key twice, patches that empty a list, rows at, before
and after the present; three calls on the data stores, four on the caches, pages
smaller than the tables; Redis with pages of one document, three documents, four
commands of other clients. `StoresKeepPromises` holds the refinements: the SQL
and the MongoDB data store implement `DataStore`, the three caches `CacheStore`.

*serving*: two clients and three requests on one user, one item and two rows of
feedback of which one is of the future, with one failure; the documents of the
item in several lists. In every state of the stores that feedback, workers, the
master and a deletion can leave, every recommendation request with every chain
of fallbacks, category, length and offset is answered and compared. A dump and
an export in batches of two, out of sources that change meanwhile, with one
failure, into stores that are empty or not. Clients are interchangeable, hence
the symmetry. A behaviour ends when the bounds are reached, so deadlock is not
checked.

*background*: two goroutines load up to three rows of feedback out of seven
possible ones (of users and items that are not there, of several types and
times), with one stream lost; three items in three versions of the data, the first change a deletion, the
second an insertion or an import, with two
runs of the search by one goroutine, garbage collections and one failure or
restart, neighbors
that expire within a second, and one item that had a modification time from the
start (the other ways a change may come by, and more goroutines, are left to the
theorem `NeighborsAreCovered`); two requests and two
rounds in managed mode; two fit tasks that write one file, with a restart; two
workers or one server with three incidents within two seconds; 108 worlds and
seven settings for the candidates, which between them switch every source on and
off, with digests that fit and do not, neighbors renewed in the middle of a turn,
documents of turns before, a ranker that is there, invalid, or there without being
valid; four vectors in two geometries, one with an unclear vector and one with as
many as there are clusters; two loads between which names change their
rows and the numbers that a fit or a search judges by change or do not, with two
epochs and up to two trials per search. The grids are as small as the trials, so
that every combination is tried (`GridSearchCV`); for the random search there is
`BestOfFitsIsKept`, which holds for every grid. The parts stop at their bounds,
so deadlock is not checked.

### What the violations show

*training_deadlock* (`tasks.go:196`). Both fit tasks are registered with one
job. The first begins its run with the read lock of the data set. The next load
wants the write lock. The first task asks for jobs again; the scheduler gives
the job to the second and suspends the first, read lock held. The second task
waits for the read lock behind the writer, the writer for the first task, the
first task for the second's job. Nothing is loaded or fitted from then on.

*loop_stops* (`parallel.go:191`, `tasks.go:1569`). The master starts, and its
first load reads the items of an empty store: `Split` divides by the number of
chunks, which is zero. The panic is recovered in `RunPrivilegedTasksLoop`, which
returns. What is imported afterwards is never loaded.

*sync_stale_model* (`worker.go:278`). Pull asks for version 1. While the answer
is on its way the master publishes version 2 and Sync stores that as the latest.
Pull stores the model of version 1, and labels it with the latest version, 2.
Sync sees nothing to pull any more.

*stale_round* (`worker.go:857`). A round begins while an item is visible; the
item is deleted from both stores; the round then adds the item to the user's
offline recommendations. No later round deletes documents it does not write, and
the server serves offline recommendations without asking the data store.

*stores_begin_time* (`mongodb.go:660`, `711`). A row is stamped with the very
begin time of a query. `WithBeginTime` (`data/database.go:215`) says that the begin
time is included, and SQL includes it; MongoDB asks for what is later, and leaves
the row out. `QueriesAgree` therefore says nothing of such rows. The load of the
master passes the time of its window as the begin time (`tasks.go:1438`).

### Bad outcomes the models contain, and no run singles out

The invariants of the passing runs are stated with the condition under which
they hold; the conditions name what goes wrong otherwise: two fit tasks that
write the file at the same time leave one that cannot be loaded
(`local_cache.go:114`), a crash between truncating and writing loses both
models, two insertions above the same top layer make goroutines panic and the
build hang (`hnsw.go:206`), an update in Redis turns pages for ever, a fit draws
for ever, a request to search models is forgotten, a node believes to be
connected to a store it has no client of (`server.go:178`); documents of earlier
turns stay beside those of the last one, and what the user has read since may be
among them (`worker.go:857`; the server removes what he has read); a digest vouches for neighbors of
another user (`worker.go:725`); a change without a stamp, or one whose stamp is
overtaken, renews no neighbors before they expire (`rest.go:1672`-`1734`,
`tasks.go:422`); a vector whose distances are NaN is in no cluster and is not found
(`ivf.go:218`).

## 5. Fairness

* `JobsScheduler`: strong fairness for the steps that lock, because Go's mutex
  hands over to a goroutine that has waited a millisecond; the holder goes on; a
  task's run ends, so it unregisters. Nothing is asked of a task that has jobs:
  it need not ask again.
* `MasterTraining`: the same, and strong fairness for the reader and the writer
  of a data set, because an RWMutex lets in the readers that wait before the
  next writer. `LoadsEnd` fails although all that is granted.
* `LoadLoop`: requests that have begun end, the poller and the loop run, the
  ticker fires. Failures are bounded, so that a violation is not the stores'
  doing.
* `ModelSync`: the worker's goroutines run; a call ends; one that is repeated
  for ever gets its answer in the end (strong fairness of `Answers`); `select`
  does not prefer the ticker for ever. The master need not fit, and the ticker
  need not fire.
* `ItemVisibility`: handlers, loads and rounds that have begun go on, and the
  tickers of master and worker fire. Requests need not come.
* `RecommendRound`: goroutines run, rounds begin, time stamps expire
  (`cache_expire`, `refresh_recommend_period`), a feedback request goes on.
  Feedback need not come.
* `RedisScores`: the client of an operation sends its next command. Other
  clients need not pause, but their commands are bounded.

## 6. What is proved

All for every value of the constants that meets the module's `ASSUME`s. The
assumptions are those the code establishes: there is at least one job
(`NewJobsScheduler` turns other numbers into the number of CPUs), bounds are
natural numbers, the distance of first versions exceeds the number of fits
(`RandomVersion`: random 63-bit numbers do not meet), users and items are told
apart (`RestAssumption`: their time stamps have different keys in the cache) and
a batch is not empty, items have the fields that are cached of them
(`CacheAssumption`); in the data stores names and times are numbers, in their
order, rows are records, and an item has a time stamp, also one that feedback
creates (`RowsAssumption`); in the caches names of values are none of sets, documents
have their fields and are not hidden when they are written, a patch of
categories has the wild card in it (`withWildCard`), a search that ends asks
for one document at least, and the subsets of updates and deletions have names
(`CallsAssumption`); a world of `Candidates` has the
cached neighbors of every item the user knows, in one or two versions
(`WorldsAssumption`). Two assumptions leave something out: the distances from one
vector to others differ (`DistancesDiffer`), because a heap breaks ties in an
order of its own; and a request gives an item once (`OnceEach`, of
`CacheIsFollowed` alone), because of two rows of an item in one request the SQL
store keeps the first and the cache shows the last. Each theorem about `[]P` rests on
an invariant that is inductive: it holds at first, every action keeps it, and P
follows from it. TLC has checked each of these invariants on the run's instance
before it was proved.

### Scheduling and training (`TrainingProofs`)

* `TypeCorrect`, `JobsAreConserved`, `NoTaskExceedsAllocation`, together
  `JobsAreAccounted`, `NoLostWakeup` and `JobsDoNotIdle`, from one invariant
  `IInv`. `WakerAwake` is not inductive: that a suspended task leaves a waker
  behind depends on somebody having been given a job in the loop before, which
  in turn depends on the free jobs being exactly those nobody holds. So `IInv`
  adds that holders have had jobs, that one task at a time is in the loop, that
  a task at work has a job, and that the loop leaves no task that it has visited
  without one. `WorkConserving` is part of it: that the shares leave no more than
  a rest unused is shown where the last task is visited, from what all those
  before it hold (`SumCounts`). "The jobs of all tasks add up" is stated with
  partial sums (`SumsTo`), which can be shifted by one update with arithmetic
  alone; the lemmas `SumUpdate`, `SumBounds`, `SumHolder`, `SumCounts` and
  `SumFits` say what it means.
* `SchedulerIsPool`: the scheduler implements `JobPool`. The mapping is the
  variable `using`; `Return` is `Begin` of the pool, `Release` and `Unregister`
  are `End` or nothing, the rest are stutters. What the tasks use fits because it
  is no more than what they were charged.
* `TrainingImplementsScheduler` (every step of the master is a step of the
  scheduler or leaves it alone; the one thing to show is that the loader
  registers privileged tasks only), hence `TrainingConservesJobs` by the
  scheduler's theorems; `TasksReadOneVersion`, because a task inside run is among
  the readers of its data set.

### Master (`MasterProofs`)

* `LoadTypeCorrect`, and `NoImportIsForgotten`: between setting, polling,
  clearing and signalling no notification is lost. It is inductive together with
  `ReadsOn`, that a load reads at least what was loaded before.
* `ManagedRoundsAreRight` (`RoundsDoWhatWasAsked`): the channel keeps the signal
  of every request that no round has answered, a wish for a search is still in
  the shared state or in the round (`WishesKept`), and a task is known to the
  scheduler until it has unregistered and runs only in the round that waits for
  it (`TasksAccounted`).
* `FileIsCache` (`QuietFileIsCache`): while one fit task writes at a time, the
  file is always a beginning of the four sections, up to where the writer stands
  (`Written`). That the whole of it is read back as the two models it was made of
  is a lemma about cells, for models of any size; a crash leaves a beginning,
  which a start refuses to load or loads as the invariant says. Two writers at
  once are excused by `shared`, and the invariant claims nothing after them.
* `NeighborsAreCovered` (`RunsCoverModifications`): in a run that succeeds, every
  item that was checked is searched with all modifications whose stamp was there
  when it was checked, or its stamp was overtaken (`missed`). The request is of any
  kind, in the middle of its calls, and any of them may fail. Stamps are never of
  the future, an item whose stamps say that it is up to date was searched with its
  last stamped modification (`StampsTell`), and while a run goes on, what it has
  done with each item is true of the data of the run (`RunTells`).
* `BestOfFitsIsKept` (`BestIsKept`): the log of a fit holds its best, with the
  weights of that epoch, from the first evaluation on (`BestIsLogged`). That it
  was measured with all negative samples needs that their rows are filled one
  after the other by one task alone unless `raced` (`NegativesAreMade`). The
  search keeps the best of its trials because what it keeps is a copy.

### Nodes (`NodeProofs`)

* `SyncTypeCorrect`; `LabelsNeverBehind`, by an invariant that orders, for each
  kind, what the master serves, what the answer of `GetMeta` says, what Sync has
  stored, what Pull asks for and what it has got (`LabelOrder`).
* `NamesAreUnique`: no two machines ever hold one name, in a process or in a
  file; `ClusterIsShared` (`ClusterAgrees`), from that and from what each process
  knows of itself: the peers it shares the users with include it, the users it
  has pulled are those it owns on the ring of these peers, and its client is that
  of the path it remembers unless opening a store has failed.

### Worker (`WorkerProofs`, `IndexProofs`)

* `OneRenewsAUser` and `FreshIsInformed` (`FreshKnowsFeedback`), from
  `RoundIInv`: what a goroutine has loaded of its user is all there is unless it
  was told (`LoadedKnow`), the same after it has taken the time as long as no
  later feedback is stamped (`TimedKnow`), and what is last list of what is
  stamped later than the last modification knows all feedback (`NewerKnow`). It is
  about the last list: documents of earlier ones may stay beside it. It needs that the channel
  hands out each user once: otherwise one goroutine's stamp could vouch for
  documents of another.
* `DigestIsTrue` (`DigestTellsTruth`): a cached digest that is the configured one
  tells which models were there, that every item the user likes has neighbors found
  with the options of today (at the latest after they were renewed), and that there
  were similar users; not how these were found, which the code asks of the wrong
  user. A recommender is counted as used
  only where its model or its data was there (`UsesOnlyWhatIs`). And
  `ReadItemsAreOut`: nothing the user has read passes from any source through
  ranking, replacement and exploration into what is cached, whatever the order
  of equal scores.
* `IndexLinksHold` (`LinksHold`): at the bottom a connection is mutual, or the
  other side has all its connections, or the goroutine that brings it is still
  linking or has panicked (`Bottom`); this holds even after two insertions have
  disturbed each other while a layer was added. Until then (`~raced`), a vector
  is in all layers below its own unless its goroutine is on the way, and what a
  search has found is in its layer or above, so no goroutine finds a layer
  without a neighborhood and panics (`LayersOK`). That a shrunk neighborhood is
  still full is `NearestEnough`.

### Stores (`StoreProofs`)

* `DatabasePromisesHold` (`StoresImplementDatabase`): every call of the SQL store
  and of MongoDB is a step of `DataStore` on the same tables. Between the code's
  operators and the promises stand relations between the tables before and after
  (`PutsUsers`, `PutsFeedback`, `PatchesItem`, `DropsFeedback`, ...): one group of
  lemmas says which of them each call of each store is, another that each of
  them is a step of the abstract store, a third that it keeps the types of the
  tables (`DataInv`).
* `PagesMissNoRow` (`PagesMissNothing`). For a reader (`ScansAreComplete`): what it
  has read is what it has passed, in an order that the keys have (`Orders`), and a
  row that has been there all the time is read or still before the cursor
  (`Reading`). A page takes the first of what is left (`Firsts`), so it leaves
  nothing out; the lemmas on ranks say what "the first n of a finite order" is
  (`RanksAreAll`, `FirstsAre`), for names and for the triples of feedback, for
  the SQL cursor, that stands on the first row of the next page, and for that of
  MongoDB, that stands on the last of this one. For Redis (`PagesReachAll`): a
  document that has matched since the operation began and that nobody else
  touched either still matches, or has been patched (`OpOK`), and an operation
  ends only when nothing is left that matches.
* `StoresAnswerAlike` (`QueriesAgree`): the definitions of each query in the two
  stores, brought to one form, over tables that are the same. It is about begin
  times no row is stamped with, because of `stores_begin_time`.
* `ProxyKeeps` (`ProxyKeepsData`): what is encoded arrives but for an empty list of
  a patch (`Arrived`), so the store behind the proxy is `Alike` one that is called
  directly, and each relation of the first theorem keeps two alike stores alike.
* `CachePromisesHold` (`StoresImplementCache`): the same for the SQL cache, MongoDB
  and Redis and the abstract cache `CacheStore`. The lemmas `SQLCacheDoes`,
  `MongoCacheDoes`, `RedisCacheDoes` and their `...DoesOthers` bring each call of
  each store to what it makes of one table (`SetsValues`, `SetsDocs`, ...); the
  promise of the interface is in the same words (`CachePromised`). That a message
  which is popped is the one whose time stamp is deleted needs that no message
  waits twice (`IsQueue`, `TakenOut`); that `DEL` of a value leaves the sets alone
  in Redis, that their names differ.
* `CachesAnswerAlike` (`CacheStoresAgree`), from `CacheInv` and `InCommon`: the SQL
  store behind the proxy is the one called directly; Redis has the queues of SQL
  and the documents of MongoDB; those of SQL differ in nothing but being hidden,
  where what is hidden in the others is hidden there (`LikeDocs`, which writing,
  patching and deleting keep, the last because the time that condemns a document
  is the same); MongoDB has the points of SQL, and Redis, whose purge takes them,
  none that SQL has not. From this the answers are compared: windows of equally
  many hits, and the first points in the order of their times (`Firsts` again).

### Server (`RestProofs`, `ItemVisibilityProofs`)

* `TimesAreCovered` (`TimesCoverChanges`), from `TimesIInv`: in the list of calls
  that are left of a request, the time is taken and set after what it changes
  (`StampsLater`), a time that is about to be set is no older than any change it
  owes, and a request that is alone shares nothing with another.
* `OrphansNeedRaces` (`OrphansOnlyAfterRaces`), from `OrphansIInv`: whoever is
  named by feedback and not known is disturbed or is touched by a request whose
  list of calls still mends it, by inserting the row or by deleting the feedback
  (`OrphansAreMended`); what an insertion of feedback has found is there until
  somebody disturbs it (`KnownAreThere`); requests that overlap disturb what they
  share. The lemmas say of every request what its list of calls is, and of every
  call what it does to the tables.
* `CacheIsFollowed` (`CacheFollowsStore`), from `CacheIInv`: the documents of an
  item show its row (`Agrees`) unless the item is disturbed or a request touches
  it, and a request that answers for the item has calls left that lead from the
  row and the documents of now to ones that agree (`Leads`: what each call does to
  one item, `RowsAfter` and `DocsAfter`, over the list). That is what the property
  lacks: between two calls of a request the stores differ, in one direction or
  the other, and only the rest of the list says why this is no harm. One group of
  lemmas says that the handlers' lists lead there, from documents that agree
  (modification, categories, feedback) or from any (insertion, deletion), for the
  order each writes the stores in; another that the calls do to the tables what
  `RowsAfter` and `DocsAfter` say of one item; a third that every step of any
  client keeps the rest true.
* `VisibilityTypeCorrect`; `RemovalsHold`, by an invariant that says what a
  removed item must be missing from (stores, the hands of the load, of the round
  and of all requests) and what an undisturbed request has achieved at each of
  its steps.

The theorems about `RestServer` and the others whose properties the runs
`serving` and `background` check are about the specifications of the components
(`ServerSpec`, `ModelFitSpec`, ...), not about the sum with the parts that rest.

## 7. What is only model-checked

* Liveness (`AskerWorks`, `LabelsConverge`, `PulledIsUsed`, `LatestShowsOnlyVisible`,
  `LatestShowsAll`, `RoundsCatchUp`, and that a deletion in Redis ends, in `StoresKeepPromises`)
  and `BuildsGoOn`: fairness and ENABLED are out of the prover's reach.
* What operators on sequences, folds and recursive functions compute needs
  induction over data, which no installed prover offers: `DataIsLoaded` (labels
  are numbered by folds over the rows), `SearchedAreExact` (similarity merges two
  sorted lists), `SearchIsExactAtLimits` (what a query of the graph reaches),
  `OwnRowsAreRead` (`SelectSeq` over the features), `AnswersAreRight`,
  `RequestsAgree` and `MovesAreFaithful` (stages, pages and batches, one after
  the other).
* `RankedAreAvailable`, the other half of `RecommendationsAreFit`, is about
  lists that are sorted with ties and cut.

## 8. Not modelled

* ClickHouse: its tables keep versions of rows and merge them when it pleases;
  what a query answers is the server's business.
* Opening connections, creating tables, and the stores that refuse everything
  (`no_database.go`): input and output, or constant answers.
* `PushProgress`, `base/progress` (a child span with total 0 makes the dashboard
  divide by zero, `progress.go:140`), counters for Prometheus: nothing that is
  modelled reads them.
* Log-in, OAuth and front end of the dashboard, `getCategories`, the
  configuration form: input, output and wording.
* DeepFM and `common/nn`: tensors and layers; the click models behind the same
  interface are modelled. The second HNSW index (`common/ann`) is sequential.
* Weights, gradients, likelihoods, similarity in floating point, random numbers:
  what depends on them is left open or is a small range.
* The managed mode of the worker (its scheduling API), the client of an object
  store that nothing calls, reading embeddings from the SQL store of the image
  recommender, `BatchParallel`.
* A torn file after the crash of an operating system; a `sync.Map` that `append`
  copies while an insertion holds its lock (another way for a build to hang).
* Generated code (`protocol/*.pb.go`): what it carries is in the proxies, and in
  `ModelSync`. Parsing and validating of the configuration, flags and start of
  the commands, the client library, scripts.

Generated and numerical code, connections and the front end are the larger part
of the lines no definition is mapped to.

## 9. Plan

What could follow, in order of worth:

1. **ItemVisibility over RestServer**: categories and batches in one module with
   loads and rounds, with the three kinds of cache store.
2. **Loads that overlap changes**: `DatasetLoad` over a data store that changes
   between its streams, with the readers of pages of `DataStores`.
3. **base/parallel** as a module of its own, of which `RecommendRound`,
   `IndexBuild` and `DatasetLoad` use instances; producers that block.
4. **The managed mode of the worker**, beside `ManagedLoop`.
