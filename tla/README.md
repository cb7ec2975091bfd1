# Verification of the ad pipeline

This directory holds TLA+ models of the ad service: clients submit ads over
HTTP, a priority queue hands them to workers, workers analyse them and store
the result. The modules are checked with TLC on small instances; the main
results are proved with TLAPS for every value of the constants.

## 1. Inventory

| Part | State it keeps | Operations | Correct when |
| --- | --- | --- | --- |
| Ad model (`internal/domain/models`) | one ad: status, priorities, times, version | `NewAd`, `SetStatus`, aging formula | the effective priority stays between 1 and the priority |
| In-memory repository (`internal/storage/memory`) | map of ads, map of locks, one mutex | `Save`, `Get`, `Update`, `AtomicStatusUpdate`, `FindBy...`, `AcquireLock`, `ReleaseLock`, in-memory queue | the version identifies the content of an ad |
| Redis cache (`internal/storage/cache`) | sorted set `ads:queue`, cached ads | `PushToQueue` (ZADD), `PopFromQueue` (ZPOPMIN), `Set`, `Get` | a lost entry never loses an ad; an old entry goes away |
| Priority queue (`internal/processor/queue.go`) | `closed`; everything else is in the repositories | `Enqueue`, `Dequeue`, `Complete`, `Close`, maintenance loop (requeue, aging, boost) | one worker per ad, forward-only statuses, every queued ad is completed |
| Worker (`internal/processor/worker.go`) | `isRunning`, `shutdownCh`, counters | `Start`, `Stop`, `processLoop`, `processAd` | only a stop makes it give up an ad |
| Worker pool (same file) | map of workers, mutex, `shutdownCh` | `Start`, `Stop`, `AddWorker`, `RemoveWorker`, `autoScalerLoop` | limits are kept, no worker is lost, everything can be stopped |
| Ad service and handlers (`internal/service`, `internal/api`) | none | `SubmitAd`, `GetAd`, `ListAds`, `GetStats` | an accepted ad is processed and found again; pages and counts overlook no ad |
| Commands (`cmd`) | the context | start, SIGTERM: `Shutdown`, `cancel`, `Close` | nothing is half done at exit |
| Analyzer, DTOs, config, messaging, events, metrics, logging, errors, retry | - | - | not modelled, see section 8 |

Interaction: an HTTP handler calls `SubmitAd`, which saves the ad and calls
`Enqueue`; `processLoop` goroutines call `Dequeue` and `Complete`; one
maintenance goroutine per queue rewrites priorities. They share only the
repository and the cache. Each repository call is atomic (one mutex held for
its whole body) and works on copies, so all races are *between* calls: a caller
keeps a copy, others write, the caller writes back.

What is hard, and where the properties aim (`hazards` in `PROJECT.json` gives the
lines):

- `PopFromQueue` in memory removes nothing, and a lock's owner is the
  *instance*, so every worker of a process may pop and lock the same ad. All
  exclusion rests on the version check in `AtomicStatusUpdate`.
- `PushToQueue` in memory changes the effective priority in place without a new
  version, whatever the ad's status is by then.
- Aging and boosting write back ads they read some calls earlier.
- `Dequeue` is recursive and defers its unlocks: locks pile up and are released
  when the innermost call returns.
- Redis may lose a push, fail a pop, give the entry to another process, or hold an ID
  that only another process knows.
- A stop or a shutdown arrives at any step; `Complete` makes two writes.
- The auto-scaler decides on a queue size read before it waits for the mutex,
  and pool calls wait for goroutines while they hold it.
- Pages are asked for one at a time while ads move between statuses; a page of all
  ads and the statistics are themselves one repository call per status.
- `FindByStatus` sorts a map, visited in random order, with a sort that is not stable: ads
  with equal `CreatedAt` come in another order in every request.
- `GetAd` stores in Redis what it read some calls earlier, and API nodes share Redis
  but not their repositories.

## 2. Modules

| Module | Models | Extends |
| --- | --- | --- |
| `AdModel` | `ad.go`, `enum.go`: the record and its pure methods | |
| `MemoryRepository` | `memory_store.go`: ads, locks, clock and every operation that is called | `AdModel` |
| `PriorityQueue` | `queue.go` and the queue part of `redis.go`: one step per repository call | `MemoryRepository` |
| `AdPipeline` | `SubmitAd`, `processLoop`, `processAd`, `Stop`, the shutdown of `cmd`, the clock, the other processes on the same Redis; `Spec`, `FairSpec` | `PriorityQueue` |
| `AdLifecycle` | abstract specification of one ad's life | |
| `PipelineProperties` | invariants, action properties, liveness and the refinement of `AdLifecycle` | `AdPipeline` |
| `PipelineProofs` | type correctness of the pipeline, proved | `PipelineProperties` |
| `ClaimProofs` | the properties of claims, proved | `PipelineProofs` |
| `LifecycleProofs` | the refinement of `AdLifecycle` and the analysis of completed ads, proved | `ClaimProofs` |
| `LockProofs` | what the locks are worth, proved | `LifecycleProofs` |
| `CapacityProofs` | the bound on the overshoot of `MaxCapacity`, proved | `LifecycleProofs` |
| `PriorityProofs` | the range and the fairness of effective priorities, proved | `LifecycleProofs` |
| `WorkerPool` | `WorkerPool`, `autoScalerLoop` and the goroutines of the workers, with its properties | |
| `AdListing` | `listAds`, `listAdsByStatus`, `getStats`: `ListAds`, `GetStats`, pagination in `FindByStatus`, with its properties | `AdLifecycle` |
| `AdCache` | `getAd`: `GetAd` and the get/set part of `redis.go`, with its properties | `AdLifecycle` |
| `AdQueries` | readers and the repository they read, composed; `Spec` | `AdListing`, `AdCache` |
| `PoolProofs` | the limits and the bookkeeping of the pool, proved | `WorkerPool` |
| `QueryProofs` | pages, statistics and `GetAd`, proved | `AdQueries` |
| `MCPipeline`, `MCWorkerPool`, `MCAdQueries` | instances for TLC | |

### How state and actions correspond to the code

- `ads`, `locks` are the maps of `MemoryRepository`; `NoAd` and `NoLock` mark
  missing keys. Ads carry only what some branch or property looks at; texts,
  `Error`, `CompletedAt` and the analysis itself are reduced (`analysed` says
  that there is one). Times are ticks; `Never` is a nil time.
- An operation that can be refused is a pair, `UpdateOK` / `Update`,
  `AtomicStatusUpdateOK` / `AtomicStatusUpdate`, `AcquireLockOK` / `AcquireLock`.
- A goroutine is a step (`spc`, `wpc`, `mpc`), the ad ID it works on and its private
  copy. The steps of a worker: `loop` (head of `processLoop`), `dequeue`, `get`,
  `find`, `lock`, `cas`, `reget`, `assign`, `release`, `returnAd`/`returnErr`
  (deferred unlocks), `work` (`processAd`), `ccas`, `cget`, `cupdate`, `crelease`
  (`Complete`), `exited`.
- `wdefers` is the stack of deferred `ReleaseLock` calls of the recursion; a recursive
  call forgets the frame's locals and keeps the stack.
- `FindByStatus`, `FindByPriority` and the pops return *sets* of possible results
  where `sort.Slice` and map iteration leave ties open.
- `zset` is the Redis sorted set. `cacheType` is chosen in `Init` by `cacheRepo`, as
  `initializeComponents` chooses Redis when configured and reachable and memory
  otherwise. Redis itself is external and modelled from its use.
- All processes on one Redis use the one sorted set, each over a memory repository of its
  own. `OtherProcessPop` takes an ID away; `OtherProcessPush` leaves one that this process
  does not know (`Foreign`, each pushed once), which `Dequeue` pops, does not find
  (`queue.go:159`) and skips by recursion.
- `due` holds the tickers that have fired; a ticker's channel holds one tick.
- `phase` is the shutdown: `draining` (HTTP server), `cancelled` (context), `closed`
  (queue). `Close` takes the write lock and therefore waits for a `Complete` in progress.
- In `WorkerPool` the mutex is a variable (`mu`), because `Stop(true)` and
  `RemoveWorker(_, true)` hold it while they wait.
- The readers do not see the whole pipeline but `AdLifecycle`, which the pipeline is
  shown to implement (`RefinesLifecycle`, checked and proved); they write nothing that it reads.
- In `AdListing` the client is part of the model: it goes on by the `count` of each
  response and stops at an empty page. `reading` holds the statuses the request in
  progress has yet to read, one repository call each; the statistics are reduced to
  the sum of the counts. `NewestFirst` is the *set* of lists the sort of `FindByStatus` may
  return; each request takes one of them, so two requests may order ties differently.
- In `AdCache` a request is `cache`, `repo`, `set` and then `answered` or `failed` (an
  internal error: `memory_store.go` wraps `ErrAdNotFound`, so the comparison in `GetAd`
  fails and no 404 is sent). `home` is the node whose memory repository holds an ad.
  An entry keeps its TTL; `Expire` stands for Redis. `GetAd` passes 300 where a
  `time.Duration` is expected, so the "5 minutes" of its comment are the least TTL
  Redis has; the model lets an entry expire at any time. With the memory cache the
  `Set` is never reached, because the `Get` before it has read the same map and
  clients only know the IDs of stored ads.
- A workload of `AdQueries` fixes which ads are saved (in the order of their names, as IDs
  are random), their `CreatedAt`, the nodes and the kind of reader. The handler takes `CreatedAt`
  before `Save` takes the mutex, so ads may be saved out of the order of their creation,
  and nothing keeps two of them from having the same time.
- `Update` is modelled as `memory_store.go:98` is: a version other than the stored one is
  refused. `TestMemoryRepository_Update` (`memory_store_test.go:75-89`) expects a version one
  ahead of the stored one to be accepted and kept, which no caller sends.

Simplifications to keep in mind: one item of `RequeueExpired` is a single step,
since no state lets it act (see `timeout` below); past the `Get` of `Dequeue`, which meets
foreign IDs, no repository call can miss its ad, because nothing deletes ads;
`IncrementCounter` and `GetGauge` are metrics. `Stop`, `AddWorker` and `RemoveWorker` of the pool
have no caller in the repository (the commands cancel the context, and the auto-scaler
changes the map itself): `WorkerPool` checks them as the interface the pool offers.

## 3. Runs

Passing runs:

| Run | Instance | Shows |
| --- | --- | --- |
| `claims` | 2 ads, 1 submitter, 2 workers, aging in tick 1, in-memory queue | `TypeOK`, `ExclusiveClaim`, `HeldIsCurrent`, `CopiesCoherent`, `OnlyStopsAbandon`, `RefinesLifecycle` |
| `shutdown` | the same at tick 0, either cache, a foreign ID in Redis, one stoppable worker, SIGTERM | the properties of claims with Redis failures and stops; `LockHasHolder`, `CloseFindsNoHalfComplete` |
| `priorities` | 2 ads of priorities 3 and 5, 2 ticks: aging twice, boosting and requeueing once | `EffectiveInRange`, `DemotedOnlyAfterBoost` |
| `shared` | 2 queues over one repository, 3 ads, capacity 1 | `LockSeparatesInstances`, `OvershootBounded`, `ExclusiveClaim`, `LockedOutOnlyByDequeue`, `RefinesLifecycle` |
| `progress` | 2 ads and a foreign ID, 1 worker, either cache, one aging pass, fair | `QueuedIsCompleted` |
| `pool` | 3 workers, limits 1 and 2, one tick of the auto-scaler, all calls, fair | `PoolTypeOK`, `SizeWithinLimits`, `RunningIsListed`, `CallsReturn`, `CancelEndsAll` |
| `queries` | 3 ads on one node, not saved in the order of their creation, the first and the last created at the same time; a client that pages (filters none, `queued`, `completed`; limits -1..4, default 2, maximum 3) or asks for the statistics. Or 1 ad, 2 nodes, 2 pollers, either cache. Fair | `QueriesTypeOK`, `StaticPagingIsExact`, `GrowingPagingMissesNone`, `ShortFirstPageMissesNone`, `StatsMissNone`, `AcceptedIsFound`, `CacheConverges` |

Violation runs, each about a comment or a document that the code does not keep:

| Run | Text | What happens |
| --- | --- | --- |
| `rejected` | `ad_service.go:90` "The ad is saved and can be processed later" | an ad refused by a full queue stays `submitted` for ever, while the client got a success |
| `capacity` | `queue.go:31` "MaxCapacity defines the maximum number of items in the queue", `config.go:70` "QueueCapacity is the maximum number of items in the queue" | two requests pass the check before either queues its ad |
| `timeout` | `queue.go:34` "... before it's considered failed and returned to the queue" | `ProcessingStartedAt` is never set, so an abandoned ad stays in `processing` for ever |
| `pool_stop` | `worker.go:312` "Stop gracefully shuts down all workers" | the auto-scaler starts a worker after `Stop` |
| `listing_all` | `ad_service.go:148` "Get all ads (paginated)" | the offset is applied to each status, so later pages skip ads |

`DemotedOnlyAfterBoost` names the two ways a waiting ad loses its place: the late push
of its own submission, and an aging pass after a boost. Both happen. In the second,
`updateQueuePriorities` writes the formula's value over the 1 that `BoostLowPriorityItems` has
stored, so the boost of `queue.go:50` ("boosted to maximum") lasts until the next pass. Likewise
`OvershootBounded` bounds what `capacity` shows to happen: the queue exceeds `MaxCapacity` by less
than the number of concurrent requests.

`OnlyStopsAbandon` is about the worker that has the ad: a step after which an ad in `processing` has no
worker is a step of the worker that had it, which was told to stop (by `Stop` or by the
context). Stops of other workers excuse nothing.

`StaticPagingIsExact` and `GrowingPagingMissesNone` say what survives ties. Every request orders ads of
one `CreatedAt` anew, so of two tied ads on the border of two pages one may be shown twice
and the other never, although nothing moved. What holds is that a quiet status is shown
newest first with the right number of entries per creation time, so that an untied ad
is shown exactly once, and that no untied ad is missed while ads only enter.
`ShortFirstPageMissesNone` and `StatsMissNone` do not depend on the order.

`timeout` asks for the return only of ads that are abandoned early enough for one more
scan within `MaxTime`, so that a repaired `RequeueExpired` would satisfy it.

`LockHasHolder` says that no path through `Dequeue` and `Complete` forgets a lock;
`LockedOutOnlyByDequeue` uses it to say when `Complete` may be refused the lock of an ad it
has analysed, which loses the analysis.

`CacheConverges` is the "eventual consistency" of `README.md:103`: answers may go back
for a while (a slow request stores an old state over a newer one), but once an ad is
analysed every older state leaves the cache for good. `AcceptedIsFound` is the "strong
consistency for initial ad submission" of the next line, which holds node by node only.
`README.md:53` calls the API servers stateless and horizontally scalable; each process
keeps its ads in a memory repository of its own (`server.go:141`), so another node answers
from the Redis cache or fails, which is why `AcceptedIsFound` is about the node that accepted.

The `shared` run is about the `storage.Repository` interface as it is meant to be used
("distributed lock", several instance IDs); the commands as they are give each
process a memory repository of its own.

### Bounds and why they suffice

- Two ads and two workers are the least that let workers fight for one ad and
  keep another on the stack of deferred unlocks; a third ad is used where the
  capacity is exceeded. One submitter suffices for claims: ads are submitted one
  after the other and its late push still meets every other step.
- `MaxTime` bounds the clock, `SubmitUntil` the submissions (`Period` gives aging every
  tick, boosting and requeueing every second one, so that a task runs while older
  ads are queued, claimed or completed). `ScanLimit` (100 in the code) is 2.
- `progress` has one tick, two ads and `ScanLimit = 2`: one aging pass interferes with the claims
  of each ad, there is no boost and no ad beyond the scan limit. It shows that conflicts are
  retried and lost, stolen or foreign Redis entries are survived; it says little about
  starvation by passes that never end, which need more ticks than a liveness check can have.
- `Foreign` has one ID: it may be popped at any depth of the recursion of any worker, before
  and after every other entry.
- `MaxWaitTime = 1`, `AgingNum / AgingDen = 1/2` (the code's rate): one tick is enough for
  the ratio to reach its cap, and priorities 3 and 5 make the truncation visible.
- `LockTTL = 1`, `MaxAttempts = 2`, `ProcessingTimeout = 0`.
- `WorkerPool`: `Workers` bounds how many workers are ever created, `QueueSizes` has a
  size for each decision (slack, neither, backlog), `MaxTicks` bounds the ticker.
- `AdQueries`: three ads and pages of two or three give a full, a short and an empty page and
  let an ad move between any two calls; the two oldest ads tie on the border of two
  pages of two and inside a page of three, and the untied one is saved between them (other
  orders and ties are left to `PagesAreExact` and `GrowingPagesMissNone`); two pollers are the least that overtake
  each other on one key.
- Symmetry is used for safety properties only, and only over sets whose members
  the instance does not tell apart.

`CHECK_DEADLOCK FALSE` is set where the system may really stop: after a shutdown, for a
stopped worker, for a cancelled pool and for a client that is done.

### Fairness

`FairSpec` has weak fairness of each request in progress, each worker and each
maintenance loop: the Go scheduler runs every runnable goroutine, and no step
waits for a lock that is not released. Clients, stops and shutdowns are not
fair; the clock is fair only in `TimedSpec`, for the claim about the timeout. In
`WorkerPool` the goroutines, the auto-scaler and a call in progress are fair. In `AdQueries`
a `GetAd` in progress is fair and so is the expiry of Redis keys; clients and the pipeline
are not.

## 4. Mutants

Every property of every passing run has a mutant in `PROJECT.json`: a definition
named as such in its module that changes the code the way a plausible bug
would (a dropped version check, a copy not read again, a lock that ignores its
owner, an off-by-one). With the mutant in place TLC refutes the property.

## 5. What is proved

TLAPS, for all constants that satisfy the assumptions named in the modules: any finite sets of
ads, submitters and workers, any instances, options, limits, filters, nodes and workloads
(`InstanceAssumption`, `AgingAssumption`, `LockAssumption`, `AdsAssumption`, `QueueAssumption`,
`PipelineAssumption`, `PoolAssumption`, `ListingAssumption`, `CacheAssumption`,
`WorkloadAssumption`). `MaxTime` and `SubmitUntil` are arbitrary numbers here. TLC evaluates
the assumptions on every run. Where the property is not inductive, the last column names the
invariant that is; every theorem of the pipeline uses `PipelineInv` besides.

| Theorem | States | Hypotheses | From |
| --- | --- | --- | --- |
| `TypeCorrect` | `[]TypeOK` | | itself |
| `ClaimsAreExclusive`, `HeldAdsAreCurrent`, `CopiesAreCoherent` | `[]ExclusiveClaim`, `[]HeldIsCurrent`, `[]CopiesCoherent` | | `PipelineInv` |
| `ImplementsLifecycle` | `RefinesLifecycle` | | `PipelineInv` |
| `CompletedIsDelivered` | a completed ad without analysis is in the hands of a worker that is storing it | | `HalfInv` |
| `CloseWaitsForAnalyses` | `CloseFindsNoHalfComplete` | `OneQueue` | `HalfInv` |
| `NoLockIsForgotten` | `[]LockHasHolder` | | `DeferInv /\ LockInv` |
| `AnalysisLostOnlyToDequeue` | `LockedOutOnlyByDequeue` | | `DeferInv /\ LockInv` |
| `ClaimedIsWorkedOn` | `OnlyStopsAbandon` | `OneQueue` | `DeferInv /\ LockInv` |
| `OvershootIsBounded` | `[]OvershootBounded` | | itself |
| `PriorityStaysInRange` | `[]EffectiveInRange` | | `PriorityInv` |
| `UrgencyIsEarned` | a queued ad is never more urgent than the formula makes it, unless boosted | | `PriorityInv` |
| `WaitingIsNotPunished` | `DemotedOnlyAfterBoost` | `OneQueue` | `PriorityInv`, `AgingInv` |
| `PoolTypeCorrect`, `PoolSizeCorrect`, `RunningWorkersAreListed` | `[]PoolTypeOK`, `[]SizeWithinLimits`, `[]RunningIsListed` | | `PoolInv` |
| `QueriesTypeCorrect`, `PagesAreExact`, `GrowingPagesMissNone`, `StatsOverlookNone`, `AcceptedAdsAreFound` | `[]QueriesTypeOK`, `[]StaticPagingIsExact`, `[]GrowingPagingMissesNone`, `[]StatsMissNone`, `[]AcceptedIsFound` | | `QueryInv` |
| `ShortPagesMissNone` | `ShortFirstPageMissesNone` | | `QueryInv` |

The hypothesis `OneQueue` (there is one instance) is what the commands of `cmd` build. With two queues
over one repository, the second may hold the lock of an ad when `Complete` of the first asks for
it, and the analysis is given up (that is what `LockedOutOnlyByDequeue` is about); one queue may be closed
while a worker of the other is inside `Complete`; and a push of one queue that comes after a
later aging pass of the other makes an ad less urgent again.

### The arguments

*Claims* (`ClaimProofs`). That two workers never claim the same ad needs that an ad in someone's
hands is not `queued`; that it stays so needs that no request and no maintenance loop overwrites
it; and they do not because a copy that passes the version check *is* the stored ad, whose
status the writer knows (`submitted` for `Enqueue`, `queued` for aging and boosting). `PipelineInv`
therefore says, for each goroutine and each of its steps, what it knows of its ad
(`SubmitterInv`, `WorkerInv`, `MaintenanceInv`), and `StoreInv` adds that `ProcessingStartedAt` is never
set, which is why `RequeueExpired` never writes. The proof has facts about records (`SameContentFacts` to
`StatusWrite`), frame lemmas (an actor that takes no part in a step keeps its part of the
invariant as long as every stored ad keeps its content or gets a new version), and one lemma per
group of actions. It uses no property of locks, of the clock or of the cache: locks may expire
at any time and pushes may be lost or late.

*Refinement* (`LifecycleProofs`). `NextSeen` says what any step of the pipeline does to what
clients see: it leaves every ad alone, or takes one ad through one step of its life while everybody
else stands still. The other modules reuse that lemma. `HalfInv` then follows an ad through the two
writes of `Complete`, which no stop interrupts.

*Locks* (`LockProofs`). `LockInv` follows every lock to the call that will release it: the step
a worker is at, or the stack of deferred unlocks of the recursion (`Deferred`), which `DeferInv`
ties to the step: releases are pending only inside `Dequeue`, and the lock of a claim in progress is among them.

*Capacity* (`CapacityProofs`). The queued ads and the requests past the check are counted together; the
check is the only step that adds to the second, and it sees fewer than `MaxCapacity` of the first.

*Priorities* (`PriorityProofs`). The aging formula is monotonic in the waiting time and stays between 1
and the priority (facts about products and quotients). `PriorityInv` says of each stored and
each private effective priority that it is 1 or no smaller than the formula gives at the current
tick; `AgingInv` adds, for one queue, that what an aging pass is about to write
is no larger than what is stored, unless the ad was boosted meanwhile.

*Pool* (`PoolProofs`). The limits hold because whoever is between a check and a write holds the mutex
(`MutexInv`), and what it has checked stays true meanwhile (`HolderInv`: there are more than `MinWorkers` while the
auto-scaler removes one, and `Stop` has yet to stop only workers of its list). `StartInv`: before `Start` nothing runs.

*Readers* (`QueryProofs`). Ads move forward through the very order in which `ListAds` and `GetStats`
read the statuses (`Place`), so an ad that was there at the start is in the sum or the page, or
in a status yet to be read (`StatsInv`, `FirstPageInv`). For the pages of one status the invariant
speaks of places: whatever the order of ties, an ad's index in a sorted list is above the number of
newer ads (`Rank`) and at most the number of ads that are not older (`LastPlace`), by counting
(`NewestFirstFacts`), which leaves one place to an untied ad. An untied ad whose `Rank` is below the offset
has been shown, and while ads only enter, ranks only grow; while nothing moves, the k-th ad
shown may have place k, so the entries of one time fill exactly its places
(`PagingInv`, `OlderIsLater`, `TiedPlaces`). `CacheInv` says that a request knows an accepted ad and that
whoever accepted it has it.

### What the proofs changed in the models

- Two `CASE` expressions of `PriorityQueue` had guards that overlap, of which `CASE` may take
  either; TLC takes the first, so the runs never differed. They are now disjoint.
- `NewestFirst` is defined by what a sorted list is and not by filtering a list of creation:
  nothing can be proved about `SelectSeq`, and the filtered list would fix the order of ties.

## 6. What is only model-checked

- Liveness: `QueuedIsCompleted`, `CallsReturn`, `CancelEndsAll`, `CacheConverges`. Fairness and `ENABLED` are
  out of the prover's reach.
- `LockSeparatesInstances`, which needs locks that do not expire and one goroutine per queue. The
  instance of `shared` has both; the commands have neither (30 s locks, one loop per CPU), so it
  describes the lock and not a deployment, and nothing is proved from it.
- The violation runs: a counterexample is what they are for.

## 7. Plan

1. Done: every part with a caller is modelled; every invariant but
   `LockSeparatesInstances`, every action property and the refinement that a run checks is proved.
2. Left for proofs: safety facts on which the liveness properties rest (that no wait for the
   pool's mutex is circular; that a settled ad's cache entry is never replaced by an older one
   once the requests that read it have ended); monotonic statuses of an ad as one memory-cached client
   sees them.

## 8. What is not modelled

- Analyzer: a pure mock with random scores that cannot fail.
- DTOs, validation, router, middleware: request plumbing without state.
- Config and command line: they supply the values that are constants here (what
  `Validate` says of the pool is the assumption `ValidLimits`).
- Messaging, events, retry helpers, Prometheus metrics: no caller. Logging and error
  values: output only.
- The numbers of the worker pool in `GetStats`. (They are those of the pool made by
  `initializeComponents`, not of the one `serverRun` starts in its place.)
- The deadline of `server.Shutdown`: when it passes, the process ends at once and its
  memory is gone.
- `DeleteOlderThan`, `AssignToWorker`, the Redis `Delete` and gauges, `ReleaseWorkerAssignments`, `BatchUpdateStatus`,
  `Delete`, `CanBeRequeued`: no caller.
- A second `Stop` of a pool (it would close a closed channel) and a second `Start`.
- Process crashes: nothing is persisted, so a crash loses everything.
