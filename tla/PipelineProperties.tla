------------------------- MODULE PipelineProperties -------------------------
(***************************************************************************)
(* What the pipeline guarantees, as state invariants, action properties    *)
(* and leads-to properties of AdPipeline.                                  *)
(***************************************************************************)
EXTENDS AdPipeline

EnqueueSteps == {"admit", "update", "push"}

WorkerSteps ==
    {"loop", "dequeue", "get", "find", "lock", "cas", "reget", "assign",
     "release", "returnAd", "returnErr", "work", "ccas", "cget",
     "cupdate", "crelease", "exited"}

MaintenanceSteps == {"select", "next", "get", "update", "push", "exited"}

Item == [id : Ads, ad : AdRecord, at : Nat]

\* The steps at which a worker has an ad ID in its hands.
IdSteps == WorkerSteps \ {"loop", "dequeue", "find", "returnErr", "exited"}

\* The steps at which it has a copy of that ad, too.
CopySteps == IdSteps \ {"get"}

RepositoryTypeOK ==
    /\ ads \in [Ads -> AdRecord]
    /\ locks \in [Ads -> LockInfo]
    /\ zset \in [Ads -> Nat \union {Never}]

ProcessTypeOK ==
    /\ now \in Nat
    /\ cacheType \in {"memory", "redis"}
    /\ phase \in [Instances -> Phases]
    /\ due \in [Instances -> SUBSET Tasks]
    /\ stopped \in SUBSET Workers
    /\ foreign \in SUBSET Foreign

SubmitterTypeOK ==
    /\ spc \in [Submitters -> EnqueueSteps \union {"idle"}]
    /\ sid \in [Submitters -> Ads \union {None}]
    /\ sad \in [Submitters -> AdRecord]
    /\ \A s \in Submitters : spc[s] # "idle" => sid[s] \in Ads

WorkerTypeOK ==
    /\ wpc \in [Workers -> WorkerSteps]
    /\ wid \in [Workers -> Ads \union {None}]
    /\ wad \in [Workers -> AdRecord]
    /\ wslow \in [Workers -> BOOLEAN]
    /\ wdefers \in [Workers -> Seq(Ads)]
    /\ \A w \in Workers : wpc[w] \in IdSteps => wid[w] \in Ads

MaintenanceTypeOK ==
    /\ mpc \in [Instances -> MaintenanceSteps]
    /\ mtask \in [Instances -> Tasks \union {None}]
    /\ mitems \in [Instances -> SUBSET Item]
    /\ mid \in [Instances -> Ads \union {None}]
    /\ mcopy \in [Instances -> AdRecord]
    /\ mnew \in [Instances -> Nat]
    /\ \A i \in Instances : mpc[i] \in {"get", "update", "push"} => mid[i] \in Ads

\* Every variable keeps its type, and an ad ID is at hand wherever a step of
\* Enqueue, Dequeue, Complete or the maintenance loop dereferences one.
TypeOK ==
    /\ RepositoryTypeOK
    /\ ProcessTypeOK
    /\ SubmitterTypeOK
    /\ WorkerTypeOK
    /\ MaintenanceTypeOK

-----------------------------------------------------------------------------
(* Claims.                                                                 *)

\* The steps from a successful claim to the end of Complete's last write.
HoldingSteps == {"reget", "assign", "returnAd", "work", "ccas", "cget", "cupdate"}

Holds(w, a) == wid[w] = a /\ wpc[w] \in HoldingSteps

\* Two workers never process the same ad: the pop leaves the ad in the queue,
\* the lock does not tell the workers of an instance apart, so all of the
\* exclusion rests on the version check of AtomicStatusUpdate in Dequeue.
ExclusiveClaim ==
    \A v, w \in Workers : \A a \in Ads : Holds(v, a) /\ Holds(w, a) => v = w

\* Once claimed, an ad's version moves only in the hands of its worker, so
\* neither the Update of Dequeue nor the status update and the Update of
\* Complete can meet a conflict, whatever aging, boosting and late pushes do.
HeldIsCurrent ==
    \A w \in Workers :
        /\ wpc[w] \in {"assign", "returnAd", "work", "ccas"} =>
            ads[wid[w]].status = "processing" /\ ads[wid[w]].version = wad[w].version
        /\ wpc[w] = "cupdate" =>
            ads[wid[w]].status = "completed" /\ ads[wid[w]].version = wad[w].version

SameContent(ad1, ad2) == [ad1 EXCEPT !.effective = 0] = [ad2 EXCEPT !.effective = 0]

Coherent(stored, copy) ==
    /\ copy.version =< stored.version
    /\ copy.version = stored.version => SameContent(copy, stored)

\* The version identifies the content: a private copy with the stored version
\* is the stored ad (up to the effective priority, which PushToQueue changes
\* in place), and no copy is ahead of the store.  This is what makes the
\* version checks of Update and AtomicStatusUpdate mean what they should.
CopiesCoherent ==
    /\ \A s \in Submitters : spc[s] # "idle" => Coherent(ads[sid[s]], sad[s])
    /\ \A w \in Workers : wpc[w] \in CopySteps => Coherent(ads[wid[w]], wad[w])
    /\ \A i \in Instances :
        /\ \A x \in mitems[i] : Coherent(ads[x.id], x.ad)
        /\ mpc[i] \in {"get", "update", "push"} => Coherent(ads[mid[i]], mcopy[i])

\* The pipeline implements the ad life cycle: no goroutine ever takes an ad
\* back to an earlier status, claims a held ad or loses a delivered analysis.
Lifecycle ==
    INSTANCE AdLifecycle WITH
        status   <- [a \in Ads |-> ads[a].status],
        analysed <- [a \in Ads |-> ads[a].analysed],
        holders  <- [a \in Ads |-> {w \in Workers : Holds(w, a)}]

RefinesLifecycle == Lifecycle!LifecycleSpec

-----------------------------------------------------------------------------
(* The inductive invariant behind the properties of claims: what is stored *)
(* and what each actor knows of it at each of its steps.                   *)

\* Nothing sets ProcessingStartedAt or reaches "failed"; an ID that is not in
\* the map has had no version.
StoreInv ==
    \A a \in Ads :
        /\ ads[a].startedAt = Never
        /\ ads[a].status # "failed"
        /\ ads[a].status = "absent" => ads[a].version = 0 /\ ~ads[a].analysed

SubmitterInv(s) ==
    /\ spc[s] # "idle" => Coherent(ads[sid[s]], sad[s])
    /\ spc[s] \in {"admit", "update"} => sad[s].status = "submitted"

\* A claimed ad's status and version move only by its own worker's steps.
WorkerInv(w) ==
    /\ wpc[w] \in CopySteps => Coherent(ads[wid[w]], wad[w])
    /\ wpc[w] \in {"reget", "assign", "returnAd", "work", "ccas"} => ads[wid[w]].status = "processing"
    /\ wpc[w] \in {"cget", "cupdate"} => ads[wid[w]].status = "completed"
    /\ wpc[w] \in {"assign", "returnAd", "work", "ccas", "cupdate"} =>
        ads[wid[w]].version = wad[w].version

\* The maintenance loop writes back only ads it saw queued, at that version.
MaintenanceInv(i) ==
    /\ \A x \in mitems[i] :
        /\ Coherent(ads[x.id], x.ad)
        /\ x.ad.startedAt = Never
        /\ mtask[i] \in {"aging", "boost"} => x.ad.status = "queued"
    /\ mpc[i] \in {"get", "update", "push"} => Coherent(ads[mid[i]], mcopy[i])
    /\ mpc[i] \in {"get", "update"} => mcopy[i].status = "queued"

PipelineInv ==
    /\ TypeOK
    /\ StoreInv
    /\ \A s \in Submitters : SubmitterInv(s)
    /\ \A w \in Workers : WorkerInv(w)
    /\ \A i \in Instances : MaintenanceInv(i)
    /\ ExclusiveClaim

-----------------------------------------------------------------------------
(* The queue.                                                              *)

InWindow == {s \in Submitters : spc[s] = "update"}

\* Concurrent requests may pass the capacity check together, but the queue
\* exceeds MaxCapacity by less than the number of requests in flight, and a
\* request past the check is already accounted for.  (That it may exceed it at
\* all is CapacityKept, below.)
OvershootBounded ==
    MaxCapacity > 0 =>
        CountByStatus("queued") + Cardinality(InWindow)
            < MaxCapacity + Cardinality(Submitters)

\* While an ad is queued, its effective priority stays between 1 (the most
\* urgent) and its own priority: aging, boosting, the in-place pushes and
\* their races never leave it with less than it was submitted with, nor push
\* it past the maximum.
EffectiveInRange ==
    \A a \in WithStatus("queued") : ads[a].effective \in 1 .. ads[a].priority

Held(a) == \E w \in Workers : Holds(w, a)

\* An ad comes to be in processing with nobody working on it only when the very
\* worker that had it was told to stop: no conflict and no lock of this
\* instance makes Dequeue or Complete give up an ad it has claimed.
OnlyStopsAbandon ==
    [][\A a \in Ads :
        (ads[a].status = "processing" /\ ~Held(a))' =>
            \/ ads[a].status = "processing" /\ ~Held(a)
            \/ \E w \in Workers : Holds(w, a) /\ ToldToStop(w)]_vars

\* Close returns only between two calls of Complete: at that moment every ad
\* the clients see as completed has its analysis (a Complete that begins later
\* may still be cut off when the process exits).
CloseFindsNoHalfComplete ==
    [][\A i \in Instances : ~closed(i) /\ closed(i)' =>
        \A a \in WithStatus("completed") : ads[a].analysed]_vars

\* Two queues that share a repository never work on the same ad between lock
\* and assignment, as long as no lock expires and each has one worker (the
\* lock's owner is the instance, so it cannot separate workers of one queue).
LockSeparatesInstances ==
    \A v, w \in Workers :
        /\ InstanceOf[v] # InstanceOf[w]
        /\ {wpc[v], wpc[w]} \subseteq {"cas", "reget", "assign"}
        => wid[v] # wid[w]

\* The ads whose lock a worker still has to release, or works under.
LockedBy(w) ==
    {wdefers[w][k] : k \in DOMAIN wdefers[w]}
        \union (IF wpc[w] \in {"cas", "release", "crelease"} \union HoldingSteps THEN {wid[w]} ELSE {})

\* No lock is forgotten: whatever path Dequeue and Complete take, and however
\* deep the recursion, a lock in the map has a worker of its owner that will
\* release it, unless a worker of its owner was told to stop and left the ad
\* in processing, unattended.
LockHasHolder ==
    \A a \in Ads :
        locks[a] # NoLock =>
            \/ \E w \in Workers : InstanceOf[w] = locks[a].owner /\ a \in LockedBy(w)
            \/ /\ ads[a].status = "processing" /\ ~Held(a)
               /\ \E w \in Workers : InstanceOf[w] = locks[a].owner /\ ToldToStop(w)

InsideDequeue(w) == wpc[w] \notin {"loop", "work", "exited"} /\ ~InsideComplete(w)

\* With several queues over one repository Complete may find the ad locked and
\* give the analysis up; but only in the short time a worker of another queue
\* needs to notice, inside Dequeue, that it came too late for the ad.
LockedOutOnlyByDequeue ==
    [][\A w \in Workers :
        wpc[w] = "work" /\ wpc'[w] = "loop" =>
            \/ ToldToStop(w)
            \/ \E v \in Workers :
                /\ InstanceOf[v] # InstanceOf[w]
                /\ InsideDequeue(v)
                /\ wid[w] \in LockedBy(v)]_vars

\* Waiting never costs an ad its place: while it is queued its effective
\* priority gets worse only when the late push of its own submission lands,
\* or when an aging pass takes back a boost to the maximum.
DemotedOnlyAfterBoost ==
    [][\A a \in Ads :
        /\ ads[a].status = "queued" /\ ads'[a].status = "queued"
        /\ ads'[a].effective > ads[a].effective
        => \/ \E s \in Submitters : sid[s] = a /\ spc[s] = "push"
           \/ \E i \in Instances :
                mid[i] = a /\ mtask[i] = "aging" /\ ads[a].effective = 1]_vars

\* Every queued ad is eventually completed with its analysis, unless the
\* instances are being shut down: no ad is overlooked by the pops, lost with
\* a cache entry or left to conflicts with the maintenance loop for ever.
QueuedIsCompleted ==
    \A a \in Ads :
        ads[a].status = "queued" ~>
            \/ ads[a].status = "completed" /\ ads[a].analysed
            \/ \E i \in Instances : cancelled(i)

-----------------------------------------------------------------------------
(* What comments of the code say of it, and TLC refutes.                   *)

\* "MaxCapacity defines the maximum number of items in the queue (0 =
\* unlimited)": Enqueue counts the queued ads before it queues its own, and two
\* requests may count together.
CapacityKept ==
    MaxCapacity > 0 => CountByStatus("queued") =< MaxCapacity

\* "The ad is saved and can be processed later", on a failed Enqueue in
\* SubmitAd: nothing ever looks at submitted ads again.
SavedIsProcessedLater ==
    \A a \in Ads :
        ads[a].status = "submitted" ~>
            \/ ads[a].status = "completed"
            \/ \E i \in Instances : cancelled(i)

\* "... how long an item can be in processing state before it's considered
\* failed and returned to the queue": RequeueExpired looks at
\* ProcessingStartedAt, which no code path sets.  (The clock of the model runs
\* long enough for a later scan to find the timeout passed.)
TimedOutIsReturned ==
    \A a \in Ads :
        /\ ads[a].status = "processing" /\ ~Held(a)
        /\ now + ProcessingTimeout + Period["requeue"] =< MaxTime
        ~> ads[a].status # "processing"

\* Time does not stand still.
TimedSpec == FairSpec /\ WF_vars(Tick)

=============================================================================
