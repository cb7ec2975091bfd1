--------------------------- MODULE PriorityQueue ---------------------------
(***************************************************************************)
(* internal/processor/queue.go: the DistributedPriorityQueue.  Enqueue,    *)
(* Dequeue, Complete and the maintenance loop are sequences of repository  *)
(* and cache calls on private copies; every call is one step, so the steps *)
(* of concurrent goroutines interleave between calls exactly where the     *)
(* code lets them.                                                         *)
(*                                                                         *)
(* The cache queue "ads:queue" is either the in-memory repository itself   *)
(* or a Redis sorted set, whose calls may fail: the code logs a failed     *)
(* push and falls back to the repository on a failed pop.                  *)
(***************************************************************************)
EXTENDS MemoryRepository, Sequences

CONSTANTS
    Submitters,         \* goroutines serving POST /ads
    Workers,            \* processLoop goroutines
    InstanceOf,         \* the queue each submitter and worker uses
    MaxCapacity,        \* QueueOptions.MaxCapacity, 0 = unlimited
    ProcessingTimeout,  \* QueueOptions.ProcessingTimeout, in ticks
    MaxAttempts,        \* QueueOptions.MaxAttempts
    EnableAging,        \* QueueOptions.EnableAging
    ScanLimit,          \* the limit of the maintenance scans, 100 in the code
    CacheTypes          \* the values of storage.cache_type in the configuration

ASSUME QueueAssumption ==
    /\ IsFiniteSet(Submitters)
    /\ IsFiniteSet(Workers)
    /\ InstanceOf \in [Submitters \union Workers -> Instances]
    /\ MaxCapacity \in Nat
    /\ ProcessingTimeout \in Nat
    /\ MaxAttempts \in Nat \ {0}
    /\ EnableAging \in BOOLEAN
    /\ ScanLimit \in Nat
    /\ CacheTypes \subseteq {"memory", "redis"}

VARIABLES
    cacheType,          \* the cache repository chosen at the start
    zset,               \* the Redis sorted set: ad ID -> score, Never if absent
    phase,              \* per instance: how far its shutdown has come
    spc, sid, sad,      \* submitters: step, ad ID and the ad *models.Ad
    wpc, wid, wad,      \* workers: step, ad ID and the ad copy in use
    wslow,              \* workers: on the slower path of Dequeue
    wdefers,            \* workers: stack of deferred ReleaseLock calls
    mpc, mtask,         \* maintenance loops: step and task being run
    mitems,             \* maintenance loops: snapshot items still to visit
    mid, mcopy, mnew,   \* maintenance loops: ID, copy and priority in use
    due                 \* maintenance loops: tickers that have fired

repoVars   == <<ads, locks>>
submitVars == <<spc, sid, sad>>
workerVars == <<wpc, wid, wad, wslow, wdefers>>
maintVars  == <<mpc, mtask, mitems, mid, mcopy, mnew>>

Tasks  == {"requeue", "aging", "boost"}
Phases == {"serving", "draining", "cancelled", "closed"}

cancelled(i) == phase[i] \in {"cancelled", "closed"}
closed(i)    == phase[i] = "closed"

-----------------------------------------------------------------------------
(* The cache queue.                                                        *)

\* A push either lands (in the map or in the sorted set) or, with Redis, is
\* lost: all callers only log the error.
PushToQueue(id, priority) ==
    \/ cacheType = "memory" /\ SetEffective(id, priority) /\ UNCHANGED zset
    \/ cacheType = "redis"  /\ zset' = [zset EXCEPT ![id] = priority] /\ UNCHANGED ads
    \/ cacheType = "redis"  /\ UNCHANGED <<ads, zset>>

\* ZPOPMIN: a member with the least score; members of equal score come in the
\* order of their random IDs.
ZMin == {a \in Ads : zset[a] # Never /\ \A b \in Ads : zset[b] # Never => zset[a] =< zset[b]}

-----------------------------------------------------------------------------
(* Enqueue, called by SubmitAd after Save.                                 *)

EnqueueReturn(s) ==
    /\ spc' = [spc EXCEPT ![s] = "idle"]
    /\ sid' = [sid EXCEPT ![s] = None]
    /\ sad' = [sad EXCEPT ![s] = NoAd]

\* Mutant: the comparison with the capacity is off by one.
HasRoomOffByOne == MaxCapacity = 0 \/ CountByStatus("queued") =< MaxCapacity

HasRoom == MaxCapacity = 0 \/ CountByStatus("queued") < MaxCapacity

\* The closed flag and the number of queued ads are read, and nothing keeps
\* the number from changing before the ad is queued.
EnqueueAdmit(s) ==
    /\ spc[s] = "admit"
    /\ \/ /\ ~closed(InstanceOf[s]) /\ HasRoom
          /\ spc' = [spc EXCEPT ![s] = "update"]
          /\ UNCHANGED <<sid, sad>>
       \/ /\ closed(InstanceOf[s]) \/ ~HasRoom
          /\ EnqueueReturn(s)
    /\ UNCHANGED <<repoVars, now, zset, phase, workerVars, maintVars, due>>

EnqueueUpdate(s) ==
    LET queued == SetStatus(sad[s], "queued", now)
    IN  /\ spc[s] = "update"
        /\ IF UpdateOK(sid[s], queued)
           THEN /\ Update(sid[s], queued)
                /\ sad' = [sad EXCEPT ![s] = NextVersion(queued)]
                /\ spc' = [spc EXCEPT ![s] = "push"]
                /\ UNCHANGED sid
           ELSE EnqueueReturn(s) /\ UNCHANGED ads
        /\ UNCHANGED <<locks, now, zset, phase, workerVars, maintVars, due>>

EnqueuePush(s) ==
    /\ spc[s] = "push"
    /\ PushToQueue(sid[s], sad[s].effective)
    /\ EnqueueReturn(s)
    /\ UNCHANGED <<locks, now, phase, workerVars, maintVars, due>>

Enqueue(s) ==
    \/ EnqueueAdmit(s)
    \/ EnqueueUpdate(s)
    \/ EnqueuePush(s)

-----------------------------------------------------------------------------
(* Dequeue, called by a worker's processLoop.                              *)

\* The variables no step of Dequeue and Complete touches.
othersUnchanged == UNCHANGED <<now, phase, submitVars, maintVars, due>>

goto(w, step) == wpc' = [wpc EXCEPT ![w] = step]

\* The local variables of a call go out of scope.
forget(w) ==
    /\ wid' = [wid EXCEPT ![w] = None]
    /\ wad' = [wad EXCEPT ![w] = NoAd]
    /\ wslow' = [wslow EXCEPT ![w] = FALSE]

\* Dequeue ends with an ad in hand, or with an error and nothing: the deferred
\* releases run first, then processLoop goes on.
returnAd(w) ==
    /\ goto(w, IF wdefers[w] = <<>> THEN "work" ELSE "returnAd")
    /\ UNCHANGED <<wid, wslow>>
returnErr(w) ==
    /\ goto(w, IF wdefers[w] = <<>> THEN "loop" ELSE "returnErr")
    /\ forget(w)

\* The recursive call: this frame's locals are dead, its deferred releases
\* wait on the stack until the inner call returns.
recurse(w) == goto(w, "dequeue") /\ forget(w)

DequeueClosed(w) ==
    /\ wpc[w] = "dequeue"
    /\ closed(InstanceOf[w])
    /\ returnErr(w)
    /\ UNCHANGED <<repoVars, zset, wdefers>>
    /\ othersUnchanged

\* The faster path got an ID; the in-memory pop leaves the ad where it is.
DequeuePop(w) ==
    /\ wpc[w] = "dequeue"
    /\ ~closed(InstanceOf[w])
    /\ \/ /\ cacheType = "memory"
          /\ \E a \in PopCandidates : wid' = [wid EXCEPT ![w] = a]
          /\ UNCHANGED zset
       \/ /\ cacheType = "redis"
          /\ \E a \in ZMin : /\ wid' = [wid EXCEPT ![w] = a]
                             /\ zset' = [zset EXCEPT ![a] = Never]
    /\ goto(w, "get")
    /\ UNCHANGED <<repoVars, wad, wslow, wdefers>>
    /\ othersUnchanged

\* Mutant: a pop that found nothing or failed is taken for an empty queue.
DequeuePopMissIsEmpty(w) ==
    /\ wpc[w] = "dequeue"
    /\ ~closed(InstanceOf[w])
    /\ \/ cacheType = "memory" /\ PopCandidates = {}
       \/ cacheType = "redis"
    /\ returnErr(w)
    /\ UNCHANGED <<repoVars, zset, wdefers>>
    /\ othersUnchanged

\* The pop found nothing or failed: the slower path asks the repository.
DequeuePopMiss(w) ==
    /\ wpc[w] = "dequeue"
    /\ ~closed(InstanceOf[w])
    /\ \/ cacheType = "memory" /\ PopCandidates = {}
       \/ cacheType = "redis"
    /\ goto(w, "find")
    /\ wslow' = [wslow EXCEPT ![w] = TRUE]
    /\ UNCHANGED <<repoVars, zset, wid, wad, wdefers>>
    /\ othersUnchanged

DequeueGet(w) ==
    /\ wpc[w] = "get"
    /\ \/ /\ IsProcessable(ads[wid[w]])
          /\ wad' = [wad EXCEPT ![w] = ads[wid[w]]]
          /\ goto(w, "lock")
          /\ UNCHANGED <<wid, wslow>>
       \/ /\ ~IsProcessable(ads[wid[w]])   \* not found, or in the wrong state
          /\ recurse(w)
    /\ UNCHANGED <<repoVars, zset, wdefers>>
    /\ othersUnchanged

\* Mutant: the check for an empty result is dropped.
DequeueFindUnchecked(w) ==
    /\ wpc[w] = "find"
    /\ \/ \E a \in FindByPriority("queued") :
            /\ wid' = [wid EXCEPT ![w] = a]
            /\ wad' = [wad EXCEPT ![w] = ads[a]]
       \/ WithStatus("queued") = {} /\ UNCHANGED <<wid, wad>>
    /\ goto(w, "lock")
    /\ UNCHANGED <<repoVars, zset, wslow, wdefers>>
    /\ othersUnchanged

DequeueFind(w) ==
    /\ wpc[w] = "find"
    /\ \/ \E a \in FindByPriority("queued") :
            /\ wid' = [wid EXCEPT ![w] = a]
            /\ wad' = [wad EXCEPT ![w] = ads[a]]
            /\ goto(w, "lock")
            /\ UNCHANGED wslow
       \/ /\ WithStatus("queued") = {}     \* ErrQueueEmpty
          /\ returnErr(w)
    /\ UNCHANGED <<repoVars, zset, wdefers>>
    /\ othersUnchanged

\* Only the faster path defers the release of the lock it takes.
DequeueLock(w) ==
    /\ wpc[w] = "lock"
    /\ AcquireLockOK(wid[w], InstanceOf[w])
    /\ AcquireLock(wid[w], InstanceOf[w])
    /\ wdefers' = IF wslow[w] THEN wdefers
                  ELSE [wdefers EXCEPT ![w] = Append(wdefers[w], wid[w])]
    /\ goto(w, "cas")
    /\ UNCHANGED <<ads, zset, wid, wad, wslow>>
    /\ othersUnchanged

\* Someone else's lock: the faster path tries again, the slower one gives up.
DequeueLockDenied(w) ==
    /\ wpc[w] = "lock"
    /\ ~AcquireLockOK(wid[w], InstanceOf[w])
    /\ IF wslow[w] THEN returnErr(w) ELSE recurse(w)
    /\ UNCHANGED <<repoVars, zset, wdefers>>
    /\ othersUnchanged

\* Mutant: the result of the status update is ignored.
ClaimUncheckedOK(w) == ads[wid[w]].status # "absent"

ClaimOK(w) == AtomicStatusUpdateOK(wid[w], wad[w].version, "queued")

DequeueClaim(w) ==
    /\ wpc[w] = "cas"
    /\ \/ /\ ClaimOK(w)
          /\ AtomicStatusUpdate(wid[w], "processing")
          /\ goto(w, "reget")
          /\ UNCHANGED <<wid, wad, wslow>>
       \/ /\ ~ClaimOK(w) /\ ~wslow[w]
          /\ recurse(w)
          /\ UNCHANGED ads
       \/ /\ ~ClaimOK(w) /\ wslow[w]
          /\ goto(w, "release")
          /\ UNCHANGED <<ads, wid, wad, wslow>>
    /\ UNCHANGED <<locks, zset, wdefers>>
    /\ othersUnchanged

\* Mutant: the copy from before the claim is kept.
DequeueKeepStale(w) ==
    /\ wpc[w] = "reget"
    /\ goto(w, "assign")
    /\ UNCHANGED <<repoVars, zset, wid, wad, wslow, wdefers>>
    /\ othersUnchanged

DequeueReget(w) ==
    /\ wpc[w] = "reget"
    /\ wad' = [wad EXCEPT ![w] = ads[wid[w]]]
    /\ goto(w, "assign")
    /\ UNCHANGED <<repoVars, zset, wid, wslow, wdefers>>
    /\ othersUnchanged

DequeueAssign(w) ==
    LET assigned == IncrementAttempts(AssignWorker(wad[w], InstanceOf[w]))
    IN  /\ wpc[w] = "assign"
        /\ IF UpdateOK(wid[w], assigned)
           THEN /\ Update(wid[w], assigned)
                /\ wad' = [wad EXCEPT ![w] = NextVersion(assigned)]
                /\ returnAd(w)
           ELSE /\ UNCHANGED ads
                /\ IF wslow[w]
                   THEN goto(w, "release") /\ UNCHANGED <<wid, wad, wslow>>
                   ELSE returnErr(w)
        /\ UNCHANGED <<locks, zset, wdefers>>
        /\ othersUnchanged

\* Mutant: the slower path returns its error with the lock in place.
DequeueReturnLocked(w) ==
    /\ wpc[w] = "release"
    /\ returnErr(w)
    /\ UNCHANGED <<repoVars, zset, wdefers>>
    /\ othersUnchanged

\* The slower path releases its lock on failure, and only then.
DequeueRelease(w) ==
    /\ wpc[w] = "release"
    /\ ReleaseLock(wid[w], InstanceOf[w])
    /\ returnErr(w)
    /\ UNCHANGED <<ads, zset, wdefers>>
    /\ othersUnchanged

\* The frames of the recursion return, the innermost first, and each runs its
\* deferred release.
DequeueUnwind(w) ==
    LET top == wdefers[w][Len(wdefers[w])]
    IN  /\ wpc[w] \in {"returnAd", "returnErr"}
        /\ wdefers[w] # <<>>
        /\ ReleaseLock(top, InstanceOf[w])
        /\ wdefers' = [wdefers EXCEPT ![w] = SubSeq(wdefers[w], 1, Len(wdefers[w]) - 1)]
        /\ goto(w, IF Len(wdefers[w]) > 1 THEN wpc[w]
                   ELSE IF wpc[w] = "returnAd" THEN "work" ELSE "loop")
        /\ UNCHANGED <<ads, zset, wid, wad, wslow>>
        /\ othersUnchanged

Dequeue(w) ==
    \/ DequeueClosed(w)
    \/ DequeuePop(w)
    \/ DequeuePopMiss(w)
    \/ DequeueGet(w)
    \/ DequeueFind(w)
    \/ DequeueLock(w)
    \/ DequeueLockDenied(w)
    \/ DequeueClaim(w)
    \/ DequeueReget(w)
    \/ DequeueAssign(w)
    \/ DequeueRelease(w)
    \/ DequeueUnwind(w)

-----------------------------------------------------------------------------
(* Complete.  It holds the queue's read lock from the first step to the    *)
(* last, which is what Close has to wait for.                              *)

InsideComplete(w) == wpc[w] \in {"ccas", "cget", "cupdate", "crelease"}

\* processAd has waited for its timer and analysed the ad; Complete begins.
CompleteLock(w) ==
    /\ wpc[w] = "work"
    /\ \/ /\ AcquireLockOK(wid[w], InstanceOf[w])
          /\ AcquireLock(wid[w], InstanceOf[w])
          /\ goto(w, "ccas")
          /\ UNCHANGED <<wid, wad, wslow>>
       \/ /\ ~AcquireLockOK(wid[w], InstanceOf[w])   \* ErrItemLocked
          /\ goto(w, "loop") /\ forget(w)
          /\ UNCHANGED locks
    /\ UNCHANGED <<ads, zset, wdefers>>
    /\ othersUnchanged

CompleteStatus(w) ==
    /\ wpc[w] = "ccas"
    /\ IF AtomicStatusUpdateOK(wid[w], wad[w].version, "processing")
       THEN AtomicStatusUpdate(wid[w], "completed") /\ goto(w, "cget")
       ELSE UNCHANGED ads /\ goto(w, "crelease")
    /\ UNCHANGED <<locks, zset, wid, wad, wslow, wdefers>>
    /\ othersUnchanged

CompleteGet(w) ==
    /\ wpc[w] = "cget"
    /\ wad' = [wad EXCEPT ![w] = ads[wid[w]]]
    /\ goto(w, "cupdate")
    /\ UNCHANGED <<repoVars, zset, wid, wslow, wdefers>>
    /\ othersUnchanged

CompleteUpdate(w) ==
    LET done == SetAnalysisResults(wad[w])
    IN  /\ wpc[w] = "cupdate"
        /\ IF UpdateOK(wid[w], done) THEN Update(wid[w], done) ELSE UNCHANGED ads
        /\ goto(w, "crelease")
        /\ UNCHANGED <<locks, zset, wid, wad, wslow, wdefers>>
        /\ othersUnchanged

CompleteRelease(w) ==
    /\ wpc[w] = "crelease"
    /\ ReleaseLock(wid[w], InstanceOf[w])
    /\ goto(w, "loop") /\ forget(w)
    /\ UNCHANGED <<ads, zset, wdefers>>
    /\ othersUnchanged

Complete(w) ==
    \/ CompleteLock(w)
    \/ CompleteStatus(w)
    \/ CompleteGet(w)
    \/ CompleteUpdate(w)
    \/ CompleteRelease(w)

-----------------------------------------------------------------------------
(* The maintenance loop: one goroutine per queue, one task at a time.      *)

\* The variables no step of a maintenance loop touches.
outsideMaintenance == UNCHANGED <<locks, now, phase, submitVars, workerVars>>

mgoto(i, step) == mpc' = [mpc EXCEPT ![i] = step]

\* The loop body is done with one item.
nextItem(i) ==
    /\ mgoto(i, "next")
    /\ mid' = [mid EXCEPT ![i] = None]
    /\ mcopy' = [mcopy EXCEPT ![i] = NoAd]
    /\ mnew' = [mnew EXCEPT ![i] = 0]

MaintenanceExit(i) ==
    /\ mpc[i] = "select"
    /\ cancelled(i)
    /\ mgoto(i, "exited")
    /\ UNCHANGED <<ads, zset, mtask, mitems, mid, mcopy, mnew, due>>
    /\ outsideMaintenance

\* A ticker is received and its task begins with a scan of the newest ads of
\* one status; aging may be switched off, and the other two tasks refuse to
\* run on a closed queue.
MaintenanceScan(i) ==
    /\ mpc[i] = "select"
    /\ \E t \in due[i] :
        /\ due' = [due EXCEPT ![i] = due[i] \ {t}]
        /\ IF (t = "aging" /\ ~EnableAging) \/ (t # "aging" /\ closed(i))
           THEN UNCHANGED <<mpc, mtask, mitems>>
           ELSE /\ \E S \in FindByStatus(IF t = "requeue" THEN "processing" ELSE "queued",
                                         ScanLimit) :
                      mitems' = [mitems EXCEPT ![i] = {[id |-> a, ad |-> ads[a], at |-> now] : a \in S}]
                /\ mtask' = [mtask EXCEPT ![i] = t]
                /\ mgoto(i, "next")
    /\ UNCHANGED <<ads, zset, mid, mcopy, mnew>>
    /\ outsideMaintenance

MaintenanceDone(i) ==
    /\ mpc[i] = "next"
    /\ mitems[i] = {}
    /\ mgoto(i, "select")
    /\ mtask' = [mtask EXCEPT ![i] = None]
    /\ UNCHANGED <<ads, zset, mitems, mid, mcopy, mnew, due>>
    /\ outsideMaintenance

\* The snapshot is visited newest first.
NewestItems(i) == {x \in mitems[i] : \A y \in mitems[i] : x.ad.createdAt >= y.ad.createdAt}

\* The priority the running task wants for a snapshot item, or Never when the
\* task leaves the item alone.
WantedPriority(i, ad) ==
    LET aged == CalculateEffectivePriority(ad, now)
    IN  CASE ad.queuedAt # Never /\ mtask[i] = "aging" /\ aged # ad.effective -> aged
          [] ad.queuedAt # Never /\ mtask[i] # "aging" /\ HasExceededMaxWaitTime(ad, now) -> 1
          [] OTHER -> Never

PriorityItem(i) ==
    /\ mpc[i] = "next"
    /\ mtask[i] \in {"aging", "boost"}
    /\ \E x \in NewestItems(i) :
        /\ mitems' = [mitems EXCEPT ![i] = mitems[i] \ {x}]
        /\ \/ /\ WantedPriority(i, x.ad) = Never
              /\ UNCHANGED <<mpc, mid, mcopy, mnew>>
           \/ /\ WantedPriority(i, x.ad) # Never
              /\ mid' = [mid EXCEPT ![i] = x.id]
              /\ mcopy' = [mcopy EXCEPT ![i] = x.ad]
              /\ mnew' = [mnew EXCEPT ![i] = WantedPriority(i, x.ad)]
              /\ mgoto(i, "get")
    /\ UNCHANGED <<ads, zset, mtask, due>>
    /\ outsideMaintenance

\* Only if the version has not moved since the scan.
PriorityGet(i) ==
    /\ mpc[i] = "get"
    /\ \/ /\ ads[mid[i]].version = mcopy[i].version
          /\ mcopy' = [mcopy EXCEPT ![i] = [ads[mid[i]] EXCEPT !.effective = mnew[i]]]
          /\ mgoto(i, "update")
          /\ UNCHANGED <<mid, mnew>>
       \/ /\ ads[mid[i]].version # mcopy[i].version
          /\ nextItem(i)
    /\ UNCHANGED <<ads, zset, mtask, mitems, due>>
    /\ outsideMaintenance

PriorityUpdate(i) ==
    /\ mpc[i] = "update"
    /\ \/ /\ UpdateOK(mid[i], mcopy[i])
          /\ Update(mid[i], mcopy[i])
          /\ mcopy' = [mcopy EXCEPT ![i] = NextVersion(mcopy[i])]
          /\ mgoto(i, "push")
          /\ UNCHANGED <<mid, mnew>>
       \/ /\ ~UpdateOK(mid[i], mcopy[i])
          /\ nextItem(i)
          /\ UNCHANGED ads
    /\ UNCHANGED <<zset, mtask, mitems, due>>
    /\ outsideMaintenance

\* Mutant: the ad's own priority is pushed.
PriorityPushOwn(i) ==
    /\ mpc[i] = "push"
    /\ PushToQueue(mid[i], mcopy[i].priority)
    /\ nextItem(i)
    /\ UNCHANGED <<mtask, mitems, due>>
    /\ outsideMaintenance

PriorityPush(i) ==
    /\ mpc[i] = "push"
    /\ PushToQueue(mid[i], mcopy[i].effective)
    /\ nextItem(i)
    /\ UNCHANGED <<mtask, mitems, due>>
    /\ outsideMaintenance

\* ProcessingStartedAt.Before(expirationCutoff), the cutoff taken at the scan.
Expired(x) == x.ad.startedAt # Never /\ x.ad.startedAt < x.at - ProcessingTimeout

\* One item of RequeueExpired.  Nothing the pipeline does ever sets
\* ProcessingStartedAt, so an item is never expired; the two outcomes are here
\* as one step each.
RequeueItem(i) ==
    /\ mpc[i] = "next"
    /\ mtask[i] = "requeue"
    /\ \E x \in NewestItems(i) :
        /\ mitems' = [mitems EXCEPT ![i] = mitems[i] \ {x}]
        /\ CASE Expired(x) /\ x.ad.attempts >= MaxAttempts /\ UpdateOK(x.id, x.ad) ->
                    Update(x.id, SetStatus(x.ad, "failed", now)) /\ UNCHANGED zset
             [] /\ Expired(x) /\ x.ad.attempts < MaxAttempts
                /\ AtomicStatusUpdateOK(x.id, x.ad.version, "processing") ->
                    LET again == NextVersion([ads[x.id] EXCEPT !.status = "queued"])
                    IN  IF cacheType = "memory"
                        THEN Save(x.id, [again EXCEPT !.effective = again.priority])
                             /\ UNCHANGED zset
                        ELSE /\ Save(x.id, again)
                             /\ zset' \in {zset, [zset EXCEPT ![x.id] = again.priority]}
             [] OTHER -> UNCHANGED <<ads, zset>>
    /\ UNCHANGED <<mpc, mtask, mid, mcopy, mnew, due>>
    /\ outsideMaintenance

Maintenance(i) ==
    \/ MaintenanceExit(i)
    \/ MaintenanceScan(i)
    \/ MaintenanceDone(i)
    \/ PriorityItem(i)
    \/ PriorityGet(i)
    \/ PriorityUpdate(i)
    \/ PriorityPush(i)
    \/ RequeueItem(i)

-----------------------------------------------------------------------------

\* Mutant: the queue is closed without taking the write lock.
CloseUnlocked(i) ==
    /\ phase[i] = "cancelled"
    /\ phase' = [phase EXCEPT ![i] = "closed"]
    /\ UNCHANGED <<repoVars, now, zset, submitVars, workerVars, maintVars, due>>

\* Close takes the write lock, so it waits for every Complete in progress.
Close(i) ==
    /\ phase[i] = "cancelled"
    /\ \A w \in Workers : InstanceOf[w] = i => ~InsideComplete(w)
    /\ phase' = [phase EXCEPT ![i] = "closed"]
    /\ UNCHANGED <<repoVars, now, zset, submitVars, workerVars, maintVars, due>>

=============================================================================
