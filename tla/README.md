# Verification of the Nix CI worker

TLA+ models of `nix-ci-worker`: how it coordinates builds and publishes them, and the
cache it publishes to and reads from; the TLC instances that check the models and
the TLAPS proofs about them. File and line references are to `src/worker/` unless a
path says otherwise.

Run from this directory, for instance: `tlc -workers 2 -config SchedulerPool.cfg
MCScheduler.tla` (`PROJECT.json` names the module and configuration of each run),
`tlapm SchedulerProofs.tla`.

## 1. The system

A CI run evaluates a Nix plan, builds what no cache covers and publishes the
results, encrypted, in a container registry. One job, the *coordinator*, owns the
run on a platform; other jobs, the *helpers* (`RunnersPerSystem - 1` per platform), build what it
assigns to them. They share no connection: everything passes through two stores, the
registry (blobs, immutable manifests, movable tags) and the Actions cache (small
encrypted records under a prefix, of which a lookup returns some recent one).
A separate command serves the published cache over HTTP.

| Component | State | Operations | Talks to |
|---|---|---|---|
| Plan (`planner.go`, `scheduling.go`) | derivations, outputs, required paths | `Batches`, `Missing`, `Resolve`, `Complete`, `Results`, `poolDependencies`, `poolPriorities` | nix |
| Pool scheduler (`scheduler.go`) | per derivation: state; per runner: allocated, pending, retired, sequence, instance; the `done` channel; the publication mutex | `schedule` (assign, release, complete, retry, abandon), `build` (execute, publish, refresh, flush) | the runners through `remoteTask`; the native build through `after` |
| Pool bus and status goroutines (`pool.go`) | newest record per mailbox, `statuses`, `finish`, `stop` | `write`, `read`, heartbeat, `notify`, `Drain`, `Close` | Actions cache |
| Helper (`builder.go`) | session, sequence, state, lease, running build | `servePoolBuilder` loop, `executePoolBuild` | Actions cache, registry |
| Native build (`runner.go`) | delta, exit code, failure, the publisher goroutine | `execute`, `publish`, `cachePublisher`, `reclaimIfNeeded`, `Reclaim` | nix, the pool, the live publisher |
| Live publication (`live.go`) | cumulative snapshot, publication number, dirty, failed | `flush`, `publish`, `update`, result records | registry |
| Store publication (`publication.go`) | packs being filled and uploaded | `narPacker`, `PublishStore` | nix, registry |
| Snapshots (`snapshot.go`, `snapshot_index.go`, `catalog.go`) | files, narinfos, upstream coverage | `Merge`, `RequireClosed`, `extend`, `selectPaths`, `Publish` | registry |
| Cache server (`cache.go`) | current snapshot, refresh in progress | `Current`, `refresh`, lookup | registry |
| Pack downloads (`download.go`) | packs held, budget, readers | `read`, eviction | registry |
| Actions cache client (`actions_cache.go`) | writer slot, pacing, cooldown | `Write`, `Read`, `request` | Actions cache |
| Registry client (`registry.go`) | token | upload, completion, retry | registry |
| Upstream queries (`upstream.go`) | query cache | `Collect` | upstream caches |
| Evaluation cache, request, matrix, credentials, streams, processes, terminal, command | none that outlives a call | parsing, encryption, pipes | |

### What is hard in it

* **Concurrency in the coordinator.** One loop keeps the books; one goroutine per
  assignment builds, reports *released* (compiled) and later *completed* (published)
  on one channel; a periodic goroutine publishes under the same lock. A runner is
  reused between release and completion, so messages about two of its assignments
  are in flight together.
* **Unreliable mailboxes.** A lookup may return an old record, a write may be kept
  although it reports failure, a record may be evicted. Leases run on the sent time
  inside the records.
* **Crashes.** Any job can die; a restarted helper takes the same mailbox, a
  restarted coordinator is a new attempt on the same platform tag.
* **Partial failure.** A publication may fail half-way (generation tagged, head not
  moved) while builds go on; what was built must still be saved, and what is not
  saved must neither be deleted nor reported as a success.
* **Termination.** Full channels, locks, joins at every return, and waits on a
  remote machine that may never answer.
* **Doubtful answers.** A registry request that failed may have had its effect; a
  retry must neither send something twice nor believe something is there that is not.
* **Completeness of what is recorded.** Archives are packed, uploaded concurrently
  and reused; a record is worth something only when its archive is in a blob of the registry and
  all its references are recorded too, after any failure.
* **Shared reads.** Requests share downloads, a byte budget and a snapshot that is
  refreshed, merged into and looked up at the same time.

The correctness properties follow from these; `PROJECT.json` lists the hazards one
by one, each at its line with the properties that cover it.

## 2. Modules

Coordination of builds:

| Module | Models |
|---|---|
| `Scheduling` | `poolDependencies`, `poolPriorities` as functions on a graph |
| `Planning` | `Plan.Batches` (Kahn's algorithm and the batches) on every graph |
| `BuildOrder` | abstract: what the pool promises |
| `Scheduler`, `MCScheduler` | `BuildPool.schedule` and `BuildPool.build`; implements `BuildOrder` |
| `HelperProtocol` | `servePoolBuilder` against `remoteTask`, heartbeat and status goroutines over `poolBus` |
| `ActionsCache`, `MCCoordination` | the client of the coordination store: `Write`, `Read`, `beginWrite`, `request`; its instance together with `HelperProtocol` |
| `LivePublication`, `MCLivePublication` | `nativeBuild.execute`, `cachePublisher`, `livePublisher`, `Reclaim` |

Storage:

| Module | Models |
|---|---|
| `SnapshotIndex` | snapshots as values: `Merge`, `RequireClosed`, `extend`, `selectPaths` |
| `StorePublication`, `MCStorePublication` | `PublishStore` with `UploadWorkers` and `narPacker`, the calls of coordinator and helper, `Collect` |
| `Catalog` | `publishCatalog`, the hash trees, reuse of blobs, lookup in a view |
| `SnapshotReader` | `SnapshotReader.Current`, `refresh` and `lookup` under concurrent requests |
| `PackDownloads` | `packDownloads.read` and the readers it returns |
| `RegistryUpload` | `UploadBlob`, `completeBlob`, `PutManifest`, the retry loops and the shared cooldown, beside the registry |
| `MCCacheClients`, `MCStorageClients` | instances: `Catalog` with `SnapshotReader`, `PackDownloads` with `RegistryUpload` |

Proofs:

| Module | Holds the theorems about |
|---|---|
| `PlanningProofs` | `Planning`, and with it the functions of `Scheduling` |
| `SchedulerProofs` | `Scheduler` and its refinement of `BuildOrder` |
| `LivePublicationProofs` | `LivePublication` |
| `StorePublicationProofs` | `StorePublication`, and the snapshots of `SnapshotIndex` |
| `CoordinationProofs` | `HelperProtocol` and `ActionsCache` |
| `CacheClientsProofs` | `SnapshotReader` and `Catalog` |
| `StorageClientsProofs` | `PackDownloads` and `RegistryUpload` |
| `Induction` | induction on numbers and finite sets, and sums over finite sets, for the others |

How they fit together. `Scheduler` takes a task of a helper as something that ends and
`HelperProtocol` has its inside; it takes a refresh as a critical section that succeeds
or fails and `LivePublication` has its inside. The step `upload` of `LivePublication` is a call
of `PublishStore`, which is `StorePublication`; a blob upload there is atomic, and what an upload
consists of is `RegistryUpload`. `Catalog` is how a snapshot is stored,
`SnapshotReader` and `PackDownloads` are the two halves of a request to the cache server: finding a
record and fetching the archive.

What a module takes from another's inside is proved of that other one. `Scheduler` assumes an acyclic plan:
`AcceptedPlansAreAcyclic`, about `Planning`. It lets a helper's status change in three ways
(`SeeReady`, `SeeBusy`, `SeeResult`): `StatusesAdvance`, about `HelperProtocol`.
`LivePublication` assumes that refreshes do not overlap and none is left when the pool has returned:
`RefreshesExclusive`, about `Scheduler`. It treats `PublishStore` as one step that, when it reports no
error, has recorded everything, and otherwise what is complete: `CallsAreHonest`, about `StorePublication`,
where the upload of a blob is a step that succeeds only with the blob in the registry:
`UploadsAreComplete`, about `RegistryUpload`. The statements are the same by reading, not by
a refinement: the modules run on different state.

### Scheduler

One action per step of the loop: the head of an iteration (`BeginIteration`,
scheduler.go:114-134), one action per runner the assignment loop passes
(`RetireTurn`, `SkipTurn`, `NothingForTurn`, `Assign`, 163-244), `Settle` (245-258)
and the branches of the select (`Tick`, `SelectCancelled`, `ReceiveReleased`,
`ReceiveCompletion`, 259-293). `turn` is the runner the `for` loop is at: the status
of a helper is read once per turn and may change between two turns. A goroutine of an assignment is a record in `tasks`
that moves through the stages `begin`, `remote`, `release`, `lock`, `publish`, `send`
(execute, 411-451; the closure, 452-483; `send`, 232-243). `mutex`, `selected`, `local` and
`view` are the publication lock, the local outputs the refresh in progress found, the
coordinator's store and the view that helpers' inputs are selected from. Helpers
appear only as the status records the readers store; their other end is
`HelperProtocol`. A plan is acyclic (`AcyclicPlan`): `build` calls `Batches` first and
returns its error. What does not affect the properties is left open instead of modelled: which of two equally urgent derivations is taken (locality, names), whether a
build succeeds, when a status arrives.

Incarnations of a helper are numbered in the order they start, and a status of an
older one never follows that of a newer one, because `read` keeps the record with the
latest `Sent` (pool.go:203-207).

The guard `p.finish.Load() != nil` (scheduler.go:173) is modelled, but it cannot be
shown necessary: after `finish` is announced everything is assigned, and a
derivation that becomes unassigned again is one a helper failed on, which
`retryLocal` already keeps from every helper. The proof of `FinishIsFinal` uses the
guard. The runs have at most one helper: that `Finish` is not overtaken by an assignment to
*another* helper is what `LastAssignmentKept` proves, for any number of them.

### HelperProtocol

The helper's loop is split where the code yields: `CheckLease`, `PublishStatus`,
`ReceiveTask` / `ReceiveNothing`, `PollTick` (builder.go:40-117). Each mailbox is the
list of records newer than the one its reader holds; a read answers with any of them,
with nothing new, or fails, which gives loss, delay and reordering. That an older record never follows a newer one at the same reader
(`read` keeps the latest `Sent`, pool.go:205) is a rule of the mailbox here and not a property; what
the coordinator may rely on because of it is `StatusesAdvance`. A failed write may
have been kept. `Close` writes the coordinator's last lease whether or not it announced `stop`
before. The startup window of a helper (`started`) ages while its process lives. All times are ages in ticks, which the code compares with its leases;
an age stops growing at the bound beyond which it makes no difference.

### LivePublication

`execute` (runner.go:477-716) is `pc`; with a dynamic plan it goes batch by batch
beside the publisher goroutine, with a static plan the pool refreshes. A publication
is a call of `nativeBuild.publish` by either goroutine and takes the steps `select`,
`upload`, `flush`, `tag`, `head`; at each of the last two it may fail without
effect or after the registry stored it. When the final collection has returned, `RecordResult` takes the union with the parent,
records the outcome and publishes it; a union that is refused ends `execute` with an error (runner.go:666-669).
`collected` is a history variable: that collection returned no error. `Restart` is the death of the job at any point, or a
new attempt of a failed run: parent and cumulative snapshot are what the platform tag
holds, everything else starts anew. The repository requires builds of a package
to be serialized (src/README.md), so one coordinator at a time moves the tag.

`LivePublication` takes from `Scheduler` only that refreshes do not overlap and that the
pool ends.

### StorePublication and SnapshotIndex

A path has its references and its archive as functions, so a snapshot is which paths
are covered by the upstream cache, which have records, and the blob of each archive; a
blob is the set of archives in it. `Publish` is `PublishStore` up to the start of the
workers (selection, closure, `Collect`, signing); `Take`, `StreamFails`,
`UploadLarge`, `AddSmall`, `Flush` are the steps of a worker, `UploadPack` the
goroutine that uploads the last full pack while the next one fills; `Finish`,
`Collected`, `Drop` and `Record` are the end of the call, where paths that refer to one that is
not complete are dropped until nothing dangles. `narPacker.mu` is held by a worker
that waits for the previous upload: nobody else adds meanwhile.

The coordinator publishes to its delta and extends its index; a helper gets a
selection of the index as parent and publishes the outputs of its task, whose archives
the coordinator reuses. `StoreInit` has what `execute` knows before its first call: the parent's records and the
upstream coverage it looked up for them. Extending takes two steps: `BeginExtend` fills a copy of the index, `view`, with any part of the
delta, and `EndExtend` puts the complete one in its place. In between `BeginTask` may select from the index,
which must not have changed (`Fill`; its mutant `FillShared` is a view that shares the maps). A refused delta would
leave only the copy incomplete; `DeltaAccepted` says that none is refused, so the model has no such step. Their calls work on different snapshots, so one of them is followed at a
time (`task`).

### Catalog

A node is a tree and a prefix of the hash; a blob is its content and the recipient it is
encrypted to, which stands for the digest. `TakeNode`, `UploadNode` and `NodeFails` are the
workers of a level, which begins when all of the level below returned.
`catalog.blobs` is what a snapshot may reuse: of the catalog it published or merged
last, unless the recipients differ. `Lookup` walks a published catalog as
`catalogView.lookup` does.

### SnapshotReader

`mu` is a variable because a refresh holds it while it reads heads; every other
critical section is one action. `Current` decides with what the lock shows whether to
refresh, captures the views, and the request goes on without the lock: `LookupView`
reads a node of a captured view, `MergeFound` takes the lock again and merges into the snapshot
of *that* moment, `Conclude` answers or, once, refreshes and starts over because a
node was gone (`recover`). `due` is what the two timers allow: an absent name is
looked for again after `retryAfter`, everything after the deadline. `promised` is a
history variable: what was published when the last refresh began.

### PackDownloads

`packDownloads.packs` maps keys to `downloadedPack` objects, here a table `packs` into
a heap of objects: a failed download leaves the table while its waiters still hold the
object, and a new one of the same key may be in the table by then. Everything but
the fetch is under `packDownloads.mu`, so every other action is atomic.
`Reserve` has the whole reservation: history, eviction by least recent use, and the
fallback to a direct read when what is in use leaves no room.

### RegistryUpload

An upload is `POST`, `PATCH` per chunk, `PUT`; the completion has a retry loop around
the loop of each request (`outer`, `inner`). Both have an attempt count and the time
left of their 600 seconds; all share one cooldown. After a completion was sent once,
`HEAD` asks whether the blob is there. Beside the client stand the
registry's upload sessions and its blobs: an answer may be lost before or after the
request had its effect, and only a 429 tells that it had none. The upload of the empty config is shared
(`configsMu`, `LockConfigs`).

### ActionsCache

The client below `poolBus`, for a process with several writing and reading goroutines. `call` is
what each is at: a writer queues for the slot (`slot`), has it and waits for its turn (`pace`), then
makes the requests `create`, `put` and `finalize`; a reader makes `lookup` and
`download`. A request goes through the stages `check`, `send`, `sent` and, after a failure,
`pause`; the lock of the cooldown is not held from one to the next, so another
goroutine may be limited between `check` and `send`. `cooldown`, `nextWrite`, a call's `left` and
`wait` are times that remain; `ActionsTick` lets one unit pass. A request sent at the deadline may still
be answered, since the answer and the deadline race. `asked`, `late` and `since` are history variables.

What becomes of the records is `HelperProtocol`'s: there a write or a read may fail, and a write
that failed may have been kept.

## 3. Runs

| Run | Instance | Shows |
|---|---|---|
| `planning` | every directed graph on 4 derivations whose inputs may include one that is not in the plan; every set of missing ones, batches of 2 | a plan that does not hold an input is an error before anything is visited; `Batches` rejects exactly the plans with a cycle, be the derivations on it missing or cached, and orders the others; a consumer waits for each scheduled input, also behind cached ones |
| `scheduler_pool` | `Mixed`: `app` needs `lib` through the cached `glue`; `doc` is the coordinator's; 1 helper | inputs sent to a helper are complete, the result of `build` is true, and the pool implements `BuildOrder` |
| `scheduler_replaced` | `Pair`: `lib`, `doc`; 1 helper that may be replaced | retries never overlap the attempt they replace; announced last assignments are the last |
| `scheduler_backlog` | `Crowd`: 4 derivations, the coordinator alone, a channel of 2 that goroutines block on when it is full | one build and at most one publication outstanding per runner, and the counters are right; `build` returns although sends block |
| `scheduler_liveness` | `Pair`, 1 helper | `build` returns with all goroutines joined |
| `helper_protocol`, layer `protocol` | 2 assignments, 2 incarnations, lease of 2 ticks | no assignment is executed twice, no foreign result is accepted, a normal exit leaves no task unanswered, an orphan stops |
| `helper_protocol`, layer `client` | 2 writers and a reader that keep calling; 3 attempts, a deadline of 3 ticks, interval and longest pause of 2 | the slot is neither shared nor lost and writers are let through an interval apart; a pause holds for every goroutine |
| `helper_liveness` | layer `protocol`: 1 assignment, 1 incarnation | a remote task ends and an orphan stops although every message may be lost |
| `live_publication` | 3 outputs in 2 batches, one of unknown path; 2 attempts | the delta has one owner; nothing deleted is lost; an outcome is returned only with what was built published, of a failed build too; generation tags are written once; the head only grows; records are true |
| `live_publication_liveness` | 3 outputs in 3 batches, so that a plan may lie in the publisher's slot when the next is offered; 1 attempt | `execute` returns |
| `store_publication` | `app` → `dep` → `lib`, `copy` with the archive of `lib`, `doc` too large for a pack; a helper builds `app` and `copy`; 2 workers; the upstream cache has nothing, `lib` or `dep`; helpers may take the index while it is extended | what is recorded is closed under references and has its archives in blobs; a call without error recorded everything; no delta is refused by the index |
| `cache_clients`, part `catalog` | 3 records in both trees, two of them with a common hash prefix; 2 recipients, 2 workers, 2 publications | every manifest that was put is readable, whatever was reused or failed |
| `cache_clients`, part `reader` | 2 requests, 2 names, 2 platforms, a further head published meanwhile | a published name is never answered absent; every request is answered |
| `storage_clients`, client `download` | 2 readers, packs of 2 and 3 units in a budget of 4; one pack also read whole and with a wrong size; a history of 1; 6 reads | what is held is accounted and within the budget; a joined download ends |
| `storage_clients`, client `upload` | 2 uploaders of a blob, the config and manifests; 1 retry, 2 time units | what was uploaded is there; nothing is sent twice; uploads end |

### Why the bounds are enough

* *Derivations.* The scheduler's decisions relate a derivation to its dependencies, to the runner it
  is on and to that runner's other assignment. `Mixed` has a chain through a cached
  derivation and an independent derivation only the coordinator may build. It is needed: the
  coordinator's turn comes first, and with a single ready derivation no helper would ever be given work.
  `Crowd` has twice as many ready derivations as a runner may hold.
* *Plans.* Four derivations have every shape of cycle, of input behind cached inputs and of batch that is cut, and one
  absent input is as good as more. `Batches` orders across batches; members of one batch may depend on each
  other and go to one call of nix, which orders them itself.
* *Channel.* It holds two messages per runner (scheduler.go:109). In `scheduler_liveness` that is four and never full with
  two derivations; `scheduler_backlog` has one runner and four derivations, where it is. It has no helper: a
  backlog with failing and replaced helpers is covered by `BacklogIsBounded`.
* *Helpers.* Helpers interact only through the shared plan and the lock, where the
  coordinator's own runner is a second party. The proofs cover any number.
* *Incarnations.* A replacement is noticed by comparing nonces; a second one behaves
  like the first since a replaced runner is retired.
* *Protocol.* Two assignments give every race between an assignment, the result of the
  one before and `Finish`. Leases of two ticks and heartbeats of one keep the order the
  production values have (heartbeat < lease); `Visible` is the number of unread records a lookup chooses from.
* *Publication.* Two batches give a plan that grows while the publisher runs; the
  third output lets a batch be collected in part; two attempts give every crash point followed by a full second run.
* *Packs.* `dep` and `lib` fill a pack together and `app` fills one, so that a pack uploads
  while another fills and a third archive waits for the lock. Coverage of `lib` is complete and
  that of `dep` lacks `lib`, which `Collect` must refuse. The helper finds an archive of its
  output in its parent, uploads others, and the coordinator reuses them. One task is enough:
  the calls of its helper and of the coordinator touch each other only through the
  index and the result.
* *Catalogs.* Two digits give a root, an inner node that is split and leaves; the second
  publication reuses nodes of the first, for the same recipient or the other, also after only the blobs were
  uploaded and the manifest was not.
* *Requests.* Two tags are the least where one can fail or be missing beside another; two requests are a
  reader beside a refresh or beside a merge; one further head gives the replaced head whose
  nodes are collected and the first head of a platform that had none.
* *Downloads.* Neither pack fits beside the other, so a reservation must evict or give way;
  six reads are enough to fill the history, start, join, fail and restart a download.
* *Uploads.* One retry gives a first, a repeated and an exhausted attempt of either loop; two time units against pauses of
  one let a deadline pass before, in and after a cooldown that the other uploader extended.
* *Actions cache.* Two writers are one that has the slot and one that waits, times out or comes next; the
  reader adds requests outside the slot. Three attempts are the code's. A deadline
  of three ticks runs out in the queue, in the pacing and between attempts, and still admits a whole write; pauses
  of one and two ticks overlap, the shorter asked for last.
* Nothing else is bounded: sequence numbers and publication numbers stop by
  themselves, since a retry of a derivation always goes to the coordinator and a publication needs
  something new.

`MCCoordination`, `MCCacheClients` and `MCStorageClients` each hold two parts that share no state; the
initial state chooses which of them a behaviour is about.

`scheduler_liveness` and `store_publication` are the longest runs (3 to 4 minutes with 2 workers);
`storage_clients` and `cache_clients` take 2 to 3.

### Fairness

* `Scheduler`: weak fairness of the loop, of the goroutines as a group and of the
  ticker. Strong fairness of receiving: a select with several ready cases picks
  at random. Strong fairness of taking the lock: Go's mutex hands over to a waiter
  that starves. `SeeResult` is weakly fair: a helper busy with a task ends it, or its lease ends
  (`TaskEnds`). Nothing is assumed of helpers appearing, acknowledging or staying.
* `HelperProtocol`: time passes, a loop that is scheduled goes on, a build ends.
  Nothing is assumed of the store: every read may fail forever.
* `LivePublication`: both goroutines run and the commands and requests they wait for
  return; the pool ends (`Terminates` of `Scheduler`), with strong fairness because a
  refresh may be in progress. No fairness of `Restart`.
* `PackDownloads`: a fetch ends (requests have timeouts) and a goroutine that has its answer
  returns; whoever called is not obliged to close the reader.
* `RegistryUpload`: time passes and requests are answered, in whatever way; strong
  fairness of `LockConfigs`, a mutex that others keep taking.
* `SnapshotReader`: reading a head ends; a step of a request is strongly fair because
  the mutex it needs may be taken by others in between, for refreshes that end.

### Mutants

For each property one definition has a mutated twin in the same module (comments
beginning with "Mutant of"), the way a bug would change that code: a missing
sequence check, a limit that is off by one, a publication before a reclaim that is not forced, a
publisher that is joined but not stopped, an abandoned derivation that takes others with it, a last
collection that is left out after a success, a shared map filled in place. With the twin in its place the property is violated.

## 4. Proofs

Every safety and every action property that a run checks is proved, and the refinement of
`BuildOrder`; the runs show them on small instances, the theorems for every value of
the constants that the named assumption admits. Those
say what types the constants have and, where the argument needs it, that something is finite.

| Theorem | States | Assumes | Invariant |
|---|---|---|---|
| `TypeCorrect` | `Spec => []TypeOK` | `SchedulerAssumption` | itself |
| `RunnersExclusive` | `Spec => []OneBuildPerRunner` | `SchedulerAssumption` | `Books` |
| `LastAssignmentKept` | `Spec => []FinishIsFinal` | `SchedulerAssumption` | itself, with `TypeOK` |
| `InputsComplete` | `Spec => []InputsPublished` | `SchedulerAssumption` | `Owners`, `Exclusion`, `Results`, `Inputs` |
| `PoolImplementsBuildOrder` | `Spec => ImplementsBuildOrder` | `SchedulerAssumption` | the same |
| `ResultsAreHonest` | `Spec => []HonestResult` | `SchedulerAssumption`, `AcyclicPlan` | `Outcome`, with the same |
| `AttemptedOnce` | `Spec => []OneAttempt` | `SchedulerAssumption` | `Attempted`, with `Owners` |
| `BacklogIsBounded` | `Spec => []BoundedBacklog` | `SchedulerAssumption` | `Counted` |
| `RefreshesExclusive` | refreshes do not overlap, the lock is free when nobody refreshes, and nobody does when `build` flushes or has returned (`OneRefresh`) | `SchedulerAssumption`, `AcyclicPlan` | `Holder`, with `Exclusion` and `Outcome` |
| `CyclesRejected`, `BatchesOrdered`, `EveryInputAwaited`, `PrioritiesLongest` | `RejectsExactlyCycles`, `BatchesInOrder`, `WaitsForEveryInput`; `PrioritiesAreChains`, which no run checks: priorities are longest chains | `PlanAssumption` | `PlanInv` |
| `AcceptedPlansAreAcyclic` | a plan that `Batches` orders is `AcyclicPlan`, with the dependencies the pool waits for | `PlanAssumption` | `PlanInv` |
| `AssignmentsExecuteOnce`, `ResultsAreOwn` | `ExecutesOnce`, `AcceptsOwnResults` | `ProtocolAssumption` | `ProtocolInv` |
| `OrphansStop` | `Spec => []OrphanStops` | `ProtocolAssumption` | `LeaseInv`, with `ProtocolInv` |
| `ExitsAreServed` | `Spec => []ExitsServed` | `ProtocolAssumption` | `ExitInv`, with both |
| `StatusesAdvance` | the action property `SeenAdvances`: a helper's status goes from incarnation to later incarnation, which is ready when first seen, to the assignment in progress, to its end, and never back | `ProtocolAssumption` | `StatusInv`, with `ProtocolInv`, `ExitInv` |
| `TurnsTaken` | `WritersTakeTurns` | `ClientAssumption` | `TurnsInv` |
| `PausesRespected` | `PauseRespected` | `ClientAssumption` | `PauseInv`, with `TurnsInv` |
| `OwnerAlone`, `DeletedIsDurable`, `RecordsAreTrue` | `SingleOwner`, `ReclaimedDurable`, `TruthfulRecord` | `LivePublicationAssumption` | `LiveInv` |
| `ReturnsPublished` | `NothingUnpublished` | `LivePublicationAssumption` | `Gathered`, with `LiveInv` |
| `TagsPutOnce`, `HeadNeverShrinks` | the action properties `GenerationsKept`, `HeadGrows` | `LivePublicationAssumption` | `LiveInv` |
| `FilesIntact` | `PacksIntact` | `StoreAssumption`, `IndexAssumption` | `IntactInv` |
| `AllRecordsClosed`, `NothingRefused` | `RecordsClosed`, `DeltaAccepted` | the same | `ClosedInv` |
| `CallsAreHonest` | `HonestReturn` | the same | `HonestInv`, with `ClosedInv` |
| `AbsentNamesAreAbsent` | `AbsentIsTrue` | `ReaderAssumption` | `ReaderInv` |
| `CatalogsReadable` | `CatalogReadable` | `CatalogAssumption` | `CatalogInv` |
| `HeldStaysAccounted` | `HeldAccounted` | `DownloadAssumption` | `HeldInv` |
| `BudgetKept` | `WithinBudget` | `DownloadAssumption` | `BudgetInv`, with `HeldInv` |
| `UploadsAreComplete`, `NothingSentTwice` | `CompleteUploads`, `SendsOnce` | `UploadAssumption` | `UploadInv` |

### Plans

`PlanInv` has the set `V` of visited derivations, which is closed under inputs and disjoint from
every cycle (`Progress`), and the order of the missing ones among them, each after all it reaches (`Ordered`).
When nothing is ready, either `V` is all, or every other derivation has an input that is not visited
either: the plan is cyclic (`CyclesRejected`). All this is of a plan that holds its inputs (`HoldsInputs`); any other
is an error before a derivation is visited. `BatchesOrdered` adds the arithmetic of the batches: place *p*
is in exactly one batch, and places in order are in batches in order.

The other two are about recursive functions. `Visited` grows until it is closed under the inputs of what
is not scheduled, after at most as many rounds as there are derivations (`VisitedClosed`), and is in
every set that is; so following nearest scheduled inputs reaches the same scheduled derivations as following inputs
(`WaitsReach`). For priorities, the place in the order is a rank that falls along every wait
(`Ranked`), which makes the recursion well founded (`UrgencyExists`). A derivation put before
the longest chain of a consumer is a chain (`ChainGrows`), and a chain without its first derivation is part
of one of a consumer (`ChainShrinks`), so by induction over consumers the priority is the size of the longest (`LongestChain`).

`Induction` has what these rest on. A formula that induction is about is given as the set of the numbers, or of
the parts of a finite set, for which it holds: lemmas can be instantiated with sets, not with operators. A
function defined by recursion is the CHOOSE of its equation, so that a proof about one first shows by induction that the
equation has a solution.

### The scheduler

A message on the channel identifies its assignment by runner and
number only, so everything rests on what these mean when it is received. `Books` says that
numbers never exceed the runner's last one, that no two goroutines share one, and that a goroutine that has not
released is the runner's last assignment, allocated, with no message of it in the
channel: so a late message of an older assignment has another number and frees
nobody. This gives `OneBuildPerRunner`, which by itself is not inductive (the step
that frees a runner says nothing about goroutines without the numbers). The second
invariant adds that a goroutine or a completion owns its derivation, which is
`running`, and that no two of them own the same one (`Owners`), that the publication lock
has one holder (`Exclusion`), that a successful completion was published before it was sent (`Results`), and that the
dependencies of everything started are done and in the view (`Inputs`).
With these every step of the scheduler is a step of `BuildOrder` or leaves it
unchanged: assigning is `Start`, a received success is `Finish`, a helper's failure
is `Retry`, a local one `Fail`, the head of an iteration `Abandon`, a refresh
`Publish`.

`Outcome` is about how `build` ends. While `schedule` decides it has no result; a derivation
that failed has set `failure`; goroutines are joined before the flush, and the flush is what puts the rest of
the store into the view. That *failed* or *built* is the right word needs one thing more:
a derivation is abandoned because a dependency failed, and only in an acyclic plan does
something waited for for ever come down to such a failure. The model assumes this of `Deps`
(`AcyclicPlan`: every non-empty set of derivations has one with no dependency in the set). It is
what `build` gets from its call of `Batches` (scheduler.go:82): `CyclesRejected` proves
that `Batches` rejects exactly the cyclic plans, and `AcceptedPlansAreAcyclic` that the others have the form
assumed, though a dependency of the pool may lead through derivations that are not
scheduled. The member of the set that `Batches` has placed first is the one.

`Holder` is the other half of `Exclusion`: a lock that is held has a holder, so no way of ending a
goroutine loses it (`RefreshesExclusive`). The flush takes no lock, and needs none: `Outcome`
has joined the goroutines by then and `build` has waited for the refresher.

`Attempted` and `Counted` turn the counters into cardinalities: the goroutines of a runner with their completions on the
channel are as many as `pending` says, and the goroutines and completions of a derivation are
one while it runs. A receive shifts the positions of the channel, so the lemmas map completions to positions
one to one. After a cancellation a goroutine may end without its completion, so that
the counts are bounds then.

Lemmas state once what a goroutine's step changes (`Moves`, `Ends`), what sending
appends and receiving removes, so that the case analysis over `Next` has a handful of cases.

### The protocol

`ExecutesOnce` alone is not inductive: the mailboxes hold records of any age, and whether one of
them makes a helper build again depends on what they may contain. `ProtocolInv` says it:
an assignment in a mailbox was made, to the incarnation it names, with a number the
coordinator has reached (`Made`); a status that says *done* is of an incarnation that built
that number (`TrueStatus`); a helper has built nothing above the number it
served, and reports the one it served last (`Ordered`). No clock occurs in it:
leases only decide when somebody gives up.

When they do is `LeaseInv`. Records are in the order they were sent (`InOrder`), so a mailbox read never
makes the lease held younger than the newest there is, and a helper's own clock, which starts at the
age of the record and not at the time it was read, is never behind it; when the clock
has not run out, neither has the newest lease. `ExitInv` is the argument for `Finish`: what a lease announces is the final
number, so a stopping helper has served it, the status it knows to be published is the newest of its
mailbox, and a task is only in progress while its number is the coordinator's last.

`StatusInv` compares statuses by what they say: incarnation, then number, then *busy* before the end (`Before`).
The mailbox is in that order, behind what the coordinator has seen and before what the helper is (`Arriving`).
With that alone a status could still jump ahead to a number nobody waits for. It cannot because a
helper only serves numbers that were sent (`ServesSent`), and the coordinator, which numbers its assignments one by
one and gives up a helper whose task it has not seen end, has seen all of them end but the
last (`Follows`).

### The client of the Actions cache

`TurnsInv`: the slot is taken exactly while one writer has it (`OneSlot`), and the time until the next write, kept in
`nextWrite` or being waited for by the writer that has the slot, makes up for what has not passed of the interval since
the last one (`Paced`). Time passing takes as much from the one as it adds to the other. `PauseRespected` is not
inductive: whether a goroutine may send depends on what it checked. `PauseInv` adds that the cooldown is the pause
asked for, and that a goroutine about to send has sent nothing since then (`Cooled`); whoever
checks again finds the cooldown.

### Live publication

Two arguments in one invariant. *Turns*: `execute` publishes or reclaims only after it
joined the publisher goroutine, so at most one call is under way and owns the delta
(`Turns`). *The chain*: what the parent had and what was deleted is behind the head, the head
is part of the cumulative snapshot (`Chain`), and as long as no publication failed
everything in that snapshot which the head lacks is marked, by `dirty`, by the size of the delta
a call remembers, or by the step the call is at (`Saved`, `Marked`). The mark is what is not evident in the code:
`dirty` is cleared and set at different places from where the delta grows. `TagsUsed` bounds the
tags by the publication number, which is taken before the tag is put, so a
doubtful put uses its number up; `Truthful` holds of the head and of the snapshot to be published, since a
success is recorded only with its outputs. `Gathered` adds what `ReturnsPublished` needs of the final collection: from its upload on, while it has no error, every
required output that was built is in the delta or in the parent, and nothing is built any more.

### Store publication

`IntactInv` follows an archive from the packer's buffer through the pack that uploads to the
blob: the names of files that wait for an upload are those of its content. For
closure, `ClosedInv` keeps that what is recorded *so far* is closed together with the
parent, and during the salvage that whatever of `ready` has a reference nobody has is in
`invalid`, which the removal of its consumers preserves; when `invalid` is empty nothing dangles. Lemmas about
`Merge`, `Extendable` and `SelectPaths` give that a selection of a closed snapshot is closed, that
extending a closed index with a delta that closes over it gives a closed one, and so that the index refuses nothing.
`HonestInv` accounts for what a call is asked to record: the roots are paths nobody has, closed together with what
is known; until something failed the archive of each is in the queue, with a worker, in the packer or uploaded; and what the salvage
gives up lacks another path, down to one whose archive failed.

### The cache and its stores

`CatalogInv` is what makes a catalog readable before there is one. While nodes are uploaded, every node of the plan
at a finished level is uploaded, and at the present level it is uploaded, left or with a worker (`Deeper`); the blob
a node got holds the blobs its children got, whether it was new or reused (`Uploaded`), because nodes of a level begin
when all below returned (`AtLevel`); and a root is written after all. So a published manifest comes with an assignment of blobs to
its nodes, each in its blob (`Catalogs`). A lookup that follows
the digits of a hash then stays on the nodes of the plan until one is not split, and a node with more records than fit is
split unless all digits are used, which `Plannable` has excluded.

`ReaderInv`: during a refresh, a name that was published when it began is in the head of a tag
whose result is outstanding, failed, or has it (`Underway`); after it, in some view unless the
refresh error tells of it (`Refreshed`); and a lookup has it in a view it has yet to
visit, in its failures, or in the snapshot (`Sound`). `HeldInv`: a pack counts its holders exactly, is
fetched by one of them, and is in the table unless it failed. `BudgetInv` adds that no pack is under two keys and that the
bytes reserved are the sum of the sizes over the keys of the table; what `Reserve` evicts takes its sum out, what a failed fetch
held is taken out with it. `UploadInv` relates each upload
to its session: what is sent next is what the session lacks, a completion is on its way only to
a session that was not committed, and the blob of a committed session is there.

### Types

No run checks the type invariants. `TypeCorrect` proves that of `Scheduler`; those of the other
proved modules are conjuncts of the invariants in the table, where the arguments need them.

### Only model-checked

Liveness (`Terminates` of `Scheduler` and of `LivePublication`, `TaskEnds`, `HelperEnds`,
`ReadsReturn`, `UploadsEnd`, `RequestsAnswered`): fairness and ENABLED are outside the
prover. Deadlock freedom of the instances is checked by the same runs.

## 5. Not modelled

* In the scheduler: `p.ctx` cancelled from outside while `build` runs (the command
  closes the pool only after `execute` returned); malformed status records (features, cores, missing nonce),
  which are treated like a stale one.
* In the protocol: a second coordinator session in one attempt, clocks that
  disagree, authentication and encryption, what `executePoolBuild` does.
* In the publication: the substituter's view, the disk guard, how long nix keeps a path.
  `LivePublication` collects a path whole; its archive and references are
  `StorePublication`'s.
* Of the plan: `Missing`, `Complete`, `Results`, `Resolve`, `TargetPaths`: lookups and
  filters with no order in them; `Evaluate` runs nix.
* Of the Actions cache client: which URLs and keys are valid, and its counters.
* Of the registry client: tokens (a 401 renews the token and repeats a request without
  effect), reads, redirects and ranges.
* Of the upstream queries: the query cache and the retries of one query.
* Of catalogs: the checks that reject a malformed one, compression, the metadata itself.
* Of the cache server: pinned references, which never refresh, and the transfer of a
  body after the answer.
* Parsing, streams, credentials, the evaluation cache, the admission matrix, terminal output and commands
  have no protocol state.

What the models rest on, outside the code: builds of a package are serialized, tags and
root blobs of catalogs are retained permanently, while blobs of a replaced
head may be collected. Were a root collected, the not-found of a head that was opened before would be
answered like that of an absent name.

## 6. What could come next

1. A second coordinator session within an attempt in `HelperProtocol`.
2. Liveness for `ActionsCache`: a writer gets its turn or its deadline passes.
3. `Collect` with its query cache and retries, and the rest of `planner.go` as functions.
