--------------------------- MODULE PipelineProofs ---------------------------
(***************************************************************************)
(* Type correctness of the pipeline, proved for every value of the         *)
(* constants: one lemma per record the code builds, one per group of       *)
(* actions, and the theorem.                                               *)
(***************************************************************************)
EXTENDS PipelineProperties, TLAPS

USE DEF Never, DefaultPriority

\* An ad built by NewAd for any client input is a well-formed ad.
LEMMA NewAdType ==
    ASSUME NEW p \in Int, NEW t \in Int
    PROVE  NewAd(p, t) \in AdRecord
BY InstanceAssumption DEF NewAd, AdRecord, Statuses

\* The placeholder for an ID that is not in the map is well-formed.
LEMMA NoAdType == NoAd \in AdRecord
<1> DEFINE fresh == NewAd(1, Never)
<1>1. fresh \in AdRecord
  BY NewAdType
<1> HIDE DEF fresh
<1>2. [fresh EXCEPT !.status = "absent", !.version = 0] \in AdRecord
  BY <1>1 DEF AdRecord, Statuses
<1>3. QED
  BY <1>2 DEF NoAd, fresh

\* SetStatus keeps an ad well-formed.
LEMMA SetStatusType ==
    ASSUME NEW ad \in AdRecord, NEW st \in Statuses, NEW t \in Int
    PROVE  SetStatus(ad, st, t) \in AdRecord
BY DEF SetStatus, AdRecord

\* The version bump of Update keeps an ad well-formed.
LEMMA NextVersionType ==
    ASSUME NEW ad \in AdRecord
    PROVE  NextVersion(ad) \in AdRecord
BY DEF NextVersion, AdRecord

\* What Dequeue writes back after a claim is well-formed.
LEMMA AssignedType ==
    ASSUME NEW ad \in AdRecord, NEW i \in Instances
    PROVE  IncrementAttempts(AssignWorker(ad, i)) \in AdRecord
<1> DEFINE mine == AssignWorker(ad, i)
<1>1. mine \in AdRecord
  BY DEF AssignWorker, AdRecord
<1> HIDE DEF mine
<1>2. [mine EXCEPT !.attempts = mine.attempts + 1] \in AdRecord
  BY <1>1 DEF AdRecord
<1>3. QED
  BY <1>2 DEF IncrementAttempts, mine

\* What AtomicStatusUpdate stores is well-formed.
LEMMA StatusChangeType ==
    ASSUME NEW ad \in AdRecord, NEW st \in Statuses
    PROVE  NextVersion([ad EXCEPT !.status = st]) \in AdRecord
<1>1. [ad EXCEPT !.status = st] \in AdRecord
  BY DEF AdRecord
<1>2. QED
  BY <1>1, NextVersionType

\* Overwriting the effective priority keeps an ad well-formed.
LEMMA EffectiveChangeType ==
    ASSUME NEW ad \in AdRecord, NEW p \in Nat
    PROVE  [ad EXCEPT !.effective = p] \in AdRecord
BY DEF AdRecord

\* SetAnalysisResults keeps an ad well-formed.
LEMMA AnalysedType ==
    ASSUME NEW ad \in AdRecord
    PROVE  SetAnalysisResults(ad) \in AdRecord
BY DEF SetAnalysisResults, AdRecord

\* AcquireLock leaves a well-formed map of locks.
LEMMA AcquireType ==
    ASSUME RepositoryTypeOK, now \in Nat, NEW id \in Ads, NEW i \in Instances, AcquireLock(id, i)
    PROVE  locks' \in [Ads -> LockInfo]
<1>1. [owner |-> i, expiresAt |-> now + LockTTL] \in LockInfo
  BY LockAssumption DEF LockInfo
<1>2. QED
  BY <1>1 DEF AcquireLock, RepositoryTypeOK

\* ReleaseLock leaves a well-formed map of locks.
LEMMA ReleaseType ==
    ASSUME RepositoryTypeOK, NEW id \in Ads, NEW i, ReleaseLock(id, i)
    PROVE  locks' \in [Ads -> LockInfo]
<1>1. NoLock \in LockInfo
  BY DEF LockInfo, NoLock
<1>2. QED
  BY <1>1 DEF ReleaseLock, RepositoryTypeOK

\* Storing one well-formed ad keeps the repository well-formed.
LEMMA StoreType ==
    ASSUME RepositoryTypeOK, NEW id \in Ads, NEW ad \in AdRecord,
           ads' = [ads EXCEPT ![id] = ad], UNCHANGED <<locks, zset>>
    PROVE  RepositoryTypeOK'
BY DEF RepositoryTypeOK

\* A call that ends or recurses without an ad in hand.
LEMMA ForgetType ==
    ASSUME WorkerTypeOK, NEW w \in Workers, NEW step \in WorkerSteps \ IdSteps,
           goto(w, step), forget(w), UNCHANGED wdefers
    PROVE  WorkerTypeOK'
BY NoAdType DEF WorkerTypeOK, goto, forget

\* Dequeue returning an error leaves the worker well-formed.
LEMMA ReturnErrType ==
    ASSUME WorkerTypeOK, NEW w \in Workers, returnErr(w), UNCHANGED wdefers
    PROVE  WorkerTypeOK'
<1>1. PICK step \in {"loop", "returnErr"} : goto(w, step)
  BY DEF returnErr
<1>2. step \in WorkerSteps \ IdSteps
  BY DEF WorkerSteps, IdSteps
<1>3. QED
  BY <1>1, <1>2, ForgetType DEF returnErr

\* Dequeue calling itself leaves the worker well-formed.
LEMMA RecurseType ==
    ASSUME WorkerTypeOK, NEW w \in Workers, recurse(w), UNCHANGED wdefers
    PROVE  WorkerTypeOK'
<1>1. "dequeue" \in WorkerSteps \ IdSteps
  BY DEF WorkerSteps, IdSteps
<1>2. QED
  BY <1>1, ForgetType DEF recurse

\* CalculateEffectivePriority yields a natural number: aging never makes it
\* negative.
LEMMA EffectivePriorityType ==
    ASSUME NEW ad \in AdRecord, NEW t \in Nat
    PROVE  CalculateEffectivePriority(ad, t) \in Nat
BY AgingAssumption DEF CalculateEffectivePriority, PriorityBoost, AdRecord

\* A push to the cache queue, of either kind, keeps the repository well-formed.
LEMMA PushType ==
    ASSUME RepositoryTypeOK, NEW id \in Ads, NEW p \in Nat, PushToQueue(id, p), UNCHANGED locks
    PROVE  RepositoryTypeOK'
<1>1. [ads[id] EXCEPT !.effective = p] \in AdRecord
  BY DEF RepositoryTypeOK, AdRecord
<1>2. QED
  BY <1>1 DEF PushToQueue, SetEffective, RepositoryTypeOK

\* The service starts with every variable in its type.
LEMMA InitTypeOK == Init => TypeOK
<1> SUFFICES ASSUME Init PROVE TypeOK
  OBVIOUS
<1>1. cacheType \in {"memory", "redis"}
  BY DEF Init, cacheRepo
<1>2. QED
  BY <1>1, NoAdType DEF Init, TypeOK, RepositoryTypeOK, ProcessTypeOK, SubmitterTypeOK, WorkerTypeOK,
    MaintenanceTypeOK, NoLock, LockInfo, Phases, WorkerSteps, MaintenanceSteps, IdSteps

\* The steps of Enqueue keep the types.
LEMMA EnqueueTypeOK ==
    ASSUME TypeOK, NEW s \in Submitters, Enqueue(s), queueOnly
    PROVE  TypeOK'
<1> USE DEF TypeOK
<1>1. CASE EnqueueAdmit(s)
  <2>1. SubmitterTypeOK'
    BY <1>1, NoAdType DEF EnqueueAdmit, EnqueueReturn, SubmitterTypeOK, EnqueueSteps
  <2>2. QED
    BY <1>1, <2>1 DEF EnqueueAdmit, RepositoryTypeOK, ProcessTypeOK, queueOnly, WorkerTypeOK, MaintenanceTypeOK,
        repoVars, workerVars, maintVars
<1>2. CASE EnqueueUpdate(s)
  <2> DEFINE queued == SetStatus(sad[s], "queued", now)
  <2>1. queued \in AdRecord /\ NextVersion(queued) \in AdRecord /\ sid[s] \in Ads
    BY <1>2, SetStatusType, NextVersionType
    DEF EnqueueUpdate, SubmitterTypeOK, ProcessTypeOK, queueOnly, Statuses
  <2> HIDE DEF queued
  <2>2. SubmitterTypeOK'
    BY <1>2, <2>1, NoAdType DEF EnqueueUpdate, EnqueueReturn, SubmitterTypeOK, EnqueueSteps, queued
  <2>3. RepositoryTypeOK'
    BY <1>2, <2>1 DEF EnqueueUpdate, Update, RepositoryTypeOK, queued
  <2>4. QED
    BY <1>2, <2>2, <2>3 DEF EnqueueUpdate, ProcessTypeOK, queueOnly, WorkerTypeOK, MaintenanceTypeOK,
        workerVars, maintVars
<1>3. CASE EnqueuePush(s)
  <2>1. sid[s] \in Ads /\ sad[s].effective \in Nat
    BY <1>3 DEF EnqueuePush, SubmitterTypeOK, AdRecord
  <2>2. RepositoryTypeOK'
    BY <1>3, <2>1, PushType DEF EnqueuePush
  <2>3. SubmitterTypeOK'
    BY <1>3, NoAdType DEF EnqueuePush, EnqueueReturn, SubmitterTypeOK, EnqueueSteps
  <2>4. QED
    BY <1>3, <2>2, <2>3 DEF EnqueuePush, ProcessTypeOK, queueOnly, WorkerTypeOK, MaintenanceTypeOK,
        workerVars, maintVars
<1>4. QED
  BY <1>1, <1>2, <1>3 DEF Enqueue

\* The steps of Dequeue keep the types; in particular the copy and the ID are
\* there wherever a later step dereferences them.
LEMMA DequeueTypeOK ==
    ASSUME TypeOK, NEW w \in Workers, Dequeue(w), queueOnly
    PROVE  TypeOK'
<1>1. othersUnchanged
  BY DEF Dequeue, DequeueClosed, DequeuePop, DequeuePopMiss, DequeueGet, DequeueFind, DequeueLock,
    DequeueLockDenied, DequeueClaim, DequeueReget, DequeueAssign, DequeueRelease, DequeueUnwind
<1>2. ProcessTypeOK' /\ SubmitterTypeOK' /\ MaintenanceTypeOK'
  BY <1>1 DEF TypeOK, ProcessTypeOK, queueOnly, SubmitterTypeOK, MaintenanceTypeOK, othersUnchanged,
    submitVars, maintVars
<1>3. RepositoryTypeOK' /\ WorkerTypeOK'
  <2> USE DEF TypeOK, WorkerTypeOK, WorkerSteps, IdSteps, goto, repoVars
  <2> DEFINE RepoSame == UNCHANGED <<ads, locks, zset>>
  <2>0. RepoSame => RepositoryTypeOK'
    BY DEF RepositoryTypeOK
  <2>1. CASE DequeueClosed(w)
    BY <2>0, <2>1, ReturnErrType DEF DequeueClosed
  <2>2. CASE DequeuePop(w)
    <3>1. PICK a \in Ads : /\ wid' = [wid EXCEPT ![w] = a]
                           /\ zset' = zset \/ zset' = [zset EXCEPT ![a] = Never]
      BY <2>2 DEF DequeuePop, PopCandidates, WithStatus, ZMin
    <3>2. RepositoryTypeOK'
      BY <2>2, <3>1 DEF DequeuePop, RepositoryTypeOK
    <3>3. QED
      BY <2>2, <3>1, <3>2 DEF DequeuePop
  <2>3. CASE DequeuePopMiss(w)
    BY <2>0, <2>3 DEF DequeuePopMiss
  <2>4. CASE DequeueGet(w)
    <3>1. CASE recurse(w)
      BY <2>0, <2>4, <3>1, RecurseType DEF DequeueGet
    <3>2. CASE ~recurse(w)
      BY <2>0, <2>4, <3>2 DEF DequeueGet, RepositoryTypeOK
    <3>3. QED
      BY <3>1, <3>2
  <2>5. CASE DequeueFind(w)
    <3>1. CASE returnErr(w)
      BY <2>0, <2>5, <3>1, ReturnErrType DEF DequeueFind
    <3>2. CASE ~returnErr(w)
      <4>1. PICK a \in Ads : /\ wid' = [wid EXCEPT ![w] = a]
                             /\ wad' = [wad EXCEPT ![w] = ads[a]]
                             /\ wpc' = [wpc EXCEPT ![w] = "lock"]
                             /\ wslow' = wslow
        BY <2>5, <3>2 DEF DequeueFind, FindByPriority, WithStatus
      <4>2. QED
        BY <2>0, <2>5, <4>1 DEF DequeueFind, RepositoryTypeOK
    <3>3. QED
      BY <3>1, <3>2
  <2>6. CASE DequeueLock(w)
    <3>1. wid[w] \in Ads /\ InstanceOf[w] \in Instances
      BY <2>6, QueueAssumption DEF DequeueLock
    <3>2. RepositoryTypeOK'
      BY <2>6, <3>1, AcquireType DEF DequeueLock, RepositoryTypeOK, ProcessTypeOK, queueOnly
    <3>3. wdefers' \in [Workers -> Seq(Ads)]
      BY <2>6, <3>1 DEF DequeueLock
    <3>4. QED
      BY <2>6, <3>2, <3>3 DEF DequeueLock
  <2>7. CASE DequeueLockDenied(w)
    BY <2>0, <2>7, RecurseType, ReturnErrType DEF DequeueLockDenied
  <2>8. CASE DequeueClaim(w)
    <3>1. wid[w] \in Ads
      BY <2>8 DEF DequeueClaim
    <3>2. NextVersion([ads[wid[w]] EXCEPT !.status = "processing"]) \in AdRecord
      BY <3>1, StatusChangeType DEF RepositoryTypeOK, Statuses
    <3>3. RepositoryTypeOK'
      BY <2>0, <2>8, <3>1, <3>2, StoreType DEF DequeueClaim, AtomicStatusUpdate
    <3>4. CASE recurse(w)
      BY <2>8, <3>3, <3>4, RecurseType DEF DequeueClaim
    <3>5. CASE ~recurse(w)
      BY <2>8, <3>3, <3>5 DEF DequeueClaim
    <3>6. QED
      BY <3>4, <3>5
  <2>9. CASE DequeueReget(w)
    BY <2>0, <2>9 DEF DequeueReget, RepositoryTypeOK
  <2>10. CASE DequeueAssign(w)
    <3> DEFINE assigned == IncrementAttempts(AssignWorker(wad[w], InstanceOf[w]))
    <3>1. wid[w] \in Ads /\ InstanceOf[w] \in Instances
      BY <2>10, QueueAssumption DEF DequeueAssign
    <3>2. NextVersion(assigned) \in AdRecord
      BY <3>1, AssignedType, NextVersionType
    <3> HIDE DEF assigned
    <3>3. RepositoryTypeOK'
      BY <2>10, <3>1, <3>2 DEF DequeueAssign, Update, RepositoryTypeOK, assigned
    <3>4. CASE returnErr(w)
      BY <2>10, <3>3, <3>4, ReturnErrType DEF DequeueAssign
    <3>5. CASE ~returnErr(w)
      BY <2>10, <3>1, <3>2, <3>3, <3>5 DEF DequeueAssign, returnAd, assigned
    <3>6. QED
      BY <3>4, <3>5
  <2>11. CASE DequeueRelease(w)
    BY <2>11, ReleaseType, ReturnErrType DEF DequeueRelease, RepositoryTypeOK
  <2>12. CASE DequeueUnwind(w)
    <3>1. Len(wdefers[w]) \in Nat \ {0} /\ wdefers[w][Len(wdefers[w])] \in Ads
      BY <2>12 DEF DequeueUnwind
    <3>2. SubSeq(wdefers[w], 1, Len(wdefers[w]) - 1) \in Seq(Ads)
      BY <3>1
    <3>3. RepositoryTypeOK'
      BY <2>12, <3>1, ReleaseType DEF DequeueUnwind, RepositoryTypeOK
    <3>4. PICK step \in WorkerSteps : /\ wpc' = [wpc EXCEPT ![w] = step]
                                      /\ step \in IdSteps => wpc[w] \in IdSteps
      <4> DEFINE next == IF Len(wdefers[w]) > 1 THEN wpc[w]
                       ELSE IF wpc[w] = "returnAd" THEN "work" ELSE "loop"
      <4>1. next \in WorkerSteps /\ (next \in IdSteps => wpc[w] \in IdSteps)
        BY <2>12 DEF DequeueUnwind
      <4>2. wpc' = [wpc EXCEPT ![w] = next]
        BY <2>12 DEF DequeueUnwind
      <4> HIDE DEF next
      <4>3. QED
        BY <4>1, <4>2
    <3>5. QED
      BY <2>12, <3>2, <3>3, <3>4 DEF DequeueUnwind
  <2>13. QED
    BY <2>1, <2>2, <2>3, <2>4, <2>5, <2>6, <2>7, <2>8, <2>9, <2>10, <2>11, <2>12 DEF Dequeue
<1>4. QED
  BY <1>2, <1>3 DEF TypeOK

\* The steps of Complete keep the types.
LEMMA CompleteTypeOK ==
    ASSUME TypeOK, NEW w \in Workers, Complete(w), queueOnly
    PROVE  TypeOK'
<1>1. othersUnchanged
  BY DEF Complete, CompleteLock, CompleteStatus, CompleteGet, CompleteUpdate, CompleteRelease
<1>2. ProcessTypeOK' /\ SubmitterTypeOK' /\ MaintenanceTypeOK'
  BY <1>1 DEF TypeOK, ProcessTypeOK, queueOnly, SubmitterTypeOK, MaintenanceTypeOK, othersUnchanged,
    submitVars, maintVars
<1>3. RepositoryTypeOK' /\ WorkerTypeOK'
  <2> USE DEF TypeOK, WorkerTypeOK, WorkerSteps, IdSteps, goto, repoVars
  <2>0. UNCHANGED <<ads, locks, zset>> => RepositoryTypeOK'
    BY DEF RepositoryTypeOK
  <2>loop. "loop" \in WorkerSteps \ IdSteps
    OBVIOUS
  <2>1. CASE CompleteLock(w)
    <3>1. wid[w] \in Ads /\ InstanceOf[w] \in Instances
      BY <2>1, QueueAssumption DEF CompleteLock
    <3>2. CASE forget(w) /\ goto(w, "loop") /\ UNCHANGED locks
      BY <2>0, <2>loop, <2>1, <3>2, ForgetType DEF CompleteLock
    <3>3. CASE AcquireLock(wid[w], InstanceOf[w]) /\ goto(w, "ccas") /\ UNCHANGED <<wid, wad, wslow>>
      BY <2>1, <3>1, <3>3, AcquireType DEF CompleteLock, RepositoryTypeOK, ProcessTypeOK, queueOnly
    <3>4. QED
      BY <2>1, <3>2, <3>3 DEF CompleteLock
  <2>2. CASE CompleteStatus(w)
    <3>1. wid[w] \in Ads
      BY <2>2 DEF CompleteStatus
    <3>2. NextVersion([ads[wid[w]] EXCEPT !.status = "completed"]) \in AdRecord
      BY <3>1, StatusChangeType DEF RepositoryTypeOK, Statuses
    <3>3. RepositoryTypeOK'
      BY <2>0, <2>2, <3>1, <3>2, StoreType DEF CompleteStatus, AtomicStatusUpdate
    <3>4. QED
      BY <2>2, <3>3 DEF CompleteStatus
  <2>3. CASE CompleteGet(w)
    BY <2>0, <2>3 DEF CompleteGet, RepositoryTypeOK
  <2>4. CASE CompleteUpdate(w)
    <3>1. wid[w] \in Ads
      BY <2>4 DEF CompleteUpdate
    <3>2. NextVersion(SetAnalysisResults(wad[w])) \in AdRecord
      BY AnalysedType, NextVersionType
    <3>3. RepositoryTypeOK'
      BY <2>0, <2>4, <3>1, <3>2, StoreType DEF CompleteUpdate, Update
    <3>4. QED
      BY <2>4, <3>3 DEF CompleteUpdate
  <2>5. CASE CompleteRelease(w)
    BY <2>loop, <2>5, ReleaseType, ForgetType DEF CompleteRelease, RepositoryTypeOK
  <2>6. QED
    BY <2>1, <2>2, <2>3, <2>4, <2>5 DEF Complete
<1>4. QED
  BY <1>2, <1>3 DEF TypeOK

\* The steps of the maintenance loop keep the types.
LEMMA MaintenanceTypeOKStep ==
    ASSUME TypeOK, NEW i \in Instances, Maintenance(i), queueOnly
    PROVE  TypeOK'
<1>1. outsideMaintenance
  BY DEF Maintenance, MaintenanceExit, MaintenanceScan, MaintenanceDone, PriorityItem, PriorityGet,
    PriorityUpdate, PriorityPush, RequeueItem
<1>2. SubmitterTypeOK' /\ WorkerTypeOK'
  BY <1>1 DEF TypeOK, SubmitterTypeOK, WorkerTypeOK, outsideMaintenance, submitVars, workerVars
<1>3. ProcessTypeOK'
  BY <1>1 DEF TypeOK, ProcessTypeOK, queueOnly, outsideMaintenance, Maintenance, MaintenanceExit,
    MaintenanceScan, MaintenanceDone, PriorityItem, PriorityGet, PriorityUpdate, PriorityPush, RequeueItem
<1>4. RepositoryTypeOK' /\ MaintenanceTypeOK'
  <2> USE DEF TypeOK, MaintenanceTypeOK, MaintenanceSteps, mgoto
  <2>0. UNCHANGED <<ads, zset>> => RepositoryTypeOK'
    BY <1>1 DEF RepositoryTypeOK, outsideMaintenance
  <2>a. nextItem(i) /\ UNCHANGED <<mtask, mitems>> => MaintenanceTypeOK'
    BY NoAdType DEF nextItem
  <2>1. CASE MaintenanceExit(i)
    BY <2>0, <2>1 DEF MaintenanceExit
  <2>2. CASE MaintenanceScan(i)
    <3>1. PICK t \in due[i] :
             \/ UNCHANGED <<mpc, mtask, mitems>>
             \/ /\ \E S \in SUBSET Ads :
                     mitems' = [mitems EXCEPT ![i] = {[id |-> a, ad |-> ads[a], at |-> now] : a \in S}]
                /\ mtask' = [mtask EXCEPT ![i] = t]
                /\ mpc' = [mpc EXCEPT ![i] = "next"]
      BY <2>2 DEF MaintenanceScan, FindByStatus, WithStatus
    <3>2. t \in Tasks
      BY DEF ProcessTypeOK, queueOnly
    <3>3. \A S \in SUBSET Ads : {[id |-> a, ad |-> ads[a], at |-> now] : a \in S} \in SUBSET Item
      BY DEF Item, RepositoryTypeOK, ProcessTypeOK, queueOnly
    <3>4. mitems' \in [Instances -> SUBSET Item]
      BY <3>1, <3>3
    <3>5. QED
      BY <2>0, <2>2, <3>1, <3>2, <3>4 DEF MaintenanceScan
  <2>3. CASE MaintenanceDone(i)
    BY <2>0, <2>3 DEF MaintenanceDone
  <2>4. CASE PriorityItem(i)
    <3>1. PICK x \in mitems[i] :
            /\ mitems' = [mitems EXCEPT ![i] = mitems[i] \ {x}]
            /\ \/ UNCHANGED <<mpc, mid, mcopy, mnew>>
               \/ /\ WantedPriority(i, x.ad) # Never
                  /\ mid' = [mid EXCEPT ![i] = x.id]
                  /\ mcopy' = [mcopy EXCEPT ![i] = x.ad]
                  /\ mnew' = [mnew EXCEPT ![i] = WantedPriority(i, x.ad)]
                  /\ mpc' = [mpc EXCEPT ![i] = "get"]
      BY <2>4 DEF PriorityItem, NewestItems
    <3>2. x.id \in Ads /\ x.ad \in AdRecord
      BY <3>1 DEF Item
    <3>3. WantedPriority(i, x.ad) # Never => WantedPriority(i, x.ad) \in Nat
      BY <3>2, EffectivePriorityType DEF WantedPriority, ProcessTypeOK, queueOnly
    <3>4. QED
      BY <2>0, <2>4, <3>1, <3>2, <3>3 DEF PriorityItem
  <2>5. CASE PriorityGet(i)
    <3>1. mid[i] \in Ads
      BY <2>5 DEF PriorityGet
    <3>2. [ads[mid[i]] EXCEPT !.effective = mnew[i]] \in AdRecord
      BY <3>1, EffectiveChangeType DEF RepositoryTypeOK
    <3>3. CASE nextItem(i)
      BY <2>0, <2>a, <2>5, <3>3 DEF PriorityGet
    <3>4. CASE ~nextItem(i)
      BY <2>0, <2>5, <3>2, <3>4 DEF PriorityGet
    <3>5. QED
      BY <3>3, <3>4
  <2>6. CASE PriorityUpdate(i)
    <3>1. mid[i] \in Ads /\ NextVersion(mcopy[i]) \in AdRecord
      BY <2>6, NextVersionType DEF PriorityUpdate
    <3>2. RepositoryTypeOK'
      BY <1>1, <2>0, <2>6, <3>1, StoreType DEF PriorityUpdate, Update, outsideMaintenance
    <3>3. CASE nextItem(i)
      BY <2>a, <2>6, <3>2, <3>3 DEF PriorityUpdate
    <3>4. CASE ~nextItem(i)
      BY <2>6, <3>1, <3>2, <3>4 DEF PriorityUpdate
    <3>5. QED
      BY <3>3, <3>4
  <2>7. CASE PriorityPush(i)
    <3>1. mid[i] \in Ads /\ mcopy[i].effective \in Nat
      BY <2>7 DEF PriorityPush, AdRecord
    <3>2. QED
      BY <1>1, <2>a, <2>7, <3>1, PushType DEF PriorityPush, outsideMaintenance
  <2>8. CASE RequeueItem(i)
    <3>1. PICK x \in mitems[i] :
            /\ mitems' = [mitems EXCEPT ![i] = mitems[i] \ {x}]
            /\ \/ Update(x.id, SetStatus(x.ad, "failed", now)) /\ UNCHANGED zset
               \/ LET again == NextVersion([ads[x.id] EXCEPT !.status = "queued"])
                  IN  \/ /\ Save(x.id, [again EXCEPT !.effective = again.priority])
                         /\ UNCHANGED zset
                      \/ /\ Save(x.id, again)
                         /\ zset' \in {zset, [zset EXCEPT ![x.id] = again.priority]}
               \/ UNCHANGED <<ads, zset>>
      BY <2>8 DEF RequeueItem, NewestItems
    <3>2. x.id \in Ads /\ x.ad \in AdRecord
      BY <3>1 DEF Item
    <3> DEFINE again == NextVersion([ads[x.id] EXCEPT !.status = "queued"])
    <3>3. again \in AdRecord
      BY <3>2, StatusChangeType DEF RepositoryTypeOK, Statuses
    <3>4. NextVersion(SetStatus(x.ad, "failed", now)) \in AdRecord
      <4>0. "failed" \in Statuses /\ now \in Int
        BY DEF Statuses, ProcessTypeOK, queueOnly
      <4>1. SetStatus(x.ad, "failed", now) \in AdRecord
        BY <3>2, <4>0, SetStatusType
      <4>2. QED
        BY <4>1, NextVersionType
    <3> HIDE DEF again
    <3>5. [again EXCEPT !.effective = again.priority] \in AdRecord /\ again.priority \in Nat
      BY <3>3 DEF AdRecord
    <3>6. RepositoryTypeOK'
      BY <1>1, <3>1, <3>2, <3>3, <3>4, <3>5
      DEF RepositoryTypeOK, outsideMaintenance, Update, Save, again
    <3>7. QED
      BY <2>8, <3>1, <3>6 DEF RequeueItem
  <2>9. QED
    BY <2>1, <2>2, <2>3, <2>4, <2>5, <2>6, <2>7, <2>8 DEF Maintenance
<1>5. QED
  BY <1>2, <1>3, <1>4 DEF TypeOK

\* Every step of the service keeps the types.
LEMMA NextTypeOK == TypeOK /\ [Next]_vars => TypeOK'
<1> SUFFICES ASSUME TypeOK, [Next]_vars
             PROVE  TypeOK'
  OBVIOUS
<1>1. ASSUME NEW s \in Submitters, SubmitAd(s)
      PROVE  TypeOK'
  <2>1. PICK a \in Ads, p \in PriorityInputs :
          /\ ads' = [ads EXCEPT ![a] = NewAd(p, now)]
          /\ sid' = [sid EXCEPT ![s] = a]
          /\ sad' = [sad EXCEPT ![s] = NewAd(p, now)]
    BY <1>1 DEF SubmitAd, WithStatus, Save
  <2>2. NewAd(p, now) \in AdRecord
    BY NewAdType, PipelineAssumption DEF TypeOK, ProcessTypeOK, queueOnly
  <2>3. RepositoryTypeOK'
    BY <1>1, <2>1, <2>2, StoreType DEF SubmitAd, TypeOK
  <2>4. SubmitterTypeOK'
    BY <1>1, <2>1, <2>2 DEF SubmitAd, TypeOK, SubmitterTypeOK, EnqueueSteps
  <2>5. QED
    BY <1>1, <2>3, <2>4 DEF SubmitAd, TypeOK, ProcessTypeOK, queueOnly, WorkerTypeOK, MaintenanceTypeOK,
        workerVars, maintVars
<1>2. ASSUME NEW w \in Workers, LoopHead(w) \/ ProcessAdInterrupted(w)
      PROVE  TypeOK'
  <2>1. WorkerTypeOK'
    <3>1. CASE LoopHead(w)
      BY <3>1 DEF LoopHead, goto, TypeOK, WorkerTypeOK, WorkerSteps, IdSteps
    <3>2. CASE ProcessAdInterrupted(w)
      <4>1. "loop" \in WorkerSteps \ IdSteps
        BY DEF WorkerSteps, IdSteps
      <4>2. QED
        BY <3>2, <4>1, ForgetType DEF ProcessAdInterrupted, TypeOK
    <3>3. QED
      BY <1>2, <3>1, <3>2
  <2>2. QED
    BY <1>2, <2>1 DEF LoopHead, ProcessAdInterrupted, othersUnchanged, repoVars, submitVars, maintVars,
        TypeOK, RepositoryTypeOK, ProcessTypeOK, queueOnly, SubmitterTypeOK, MaintenanceTypeOK
<1>3. ASSUME NEW w \in Workers, StopWorker(w)
      PROVE  TypeOK'
  BY <1>3, PipelineAssumption DEF StopWorker, repoVars, submitVars, workerVars, maintVars,
    TypeOK, RepositoryTypeOK, ProcessTypeOK, queueOnly, SubmitterTypeOK, WorkerTypeOK, MaintenanceTypeOK
<1>4. ASSUME NEW i \in Instances, BeginShutdown(i) \/ Cancel(i) \/ (Close(i) /\ queueOnly)
      PROVE  TypeOK'
  <2>1. ProcessTypeOK'
    BY <1>4 DEF BeginShutdown, Cancel, Close, TypeOK, ProcessTypeOK, queueOnly, Phases
  <2>2. QED
    BY <1>4, <2>1 DEF BeginShutdown, Cancel, Close, repoVars, submitVars, workerVars, maintVars,
        TypeOK, RepositoryTypeOK, SubmitterTypeOK, WorkerTypeOK, MaintenanceTypeOK
<1>5. CASE Tick
  BY <1>5 DEF Tick, repoVars, submitVars, workerVars, maintVars,
    TypeOK, RepositoryTypeOK, ProcessTypeOK, queueOnly, SubmitterTypeOK, WorkerTypeOK, MaintenanceTypeOK
<1>6. CASE OtherProcessPush
  <2>1. PICK a \in Foreign, p \in PriorityInputs :
          /\ zset' = [zset EXCEPT ![a] = SetStatus(NewAd(p, now), "queued", now).effective]
          /\ foreign' = foreign \union {a}
    BY <1>6 DEF OtherProcessPush
  <2>2. NewAd(p, now) \in AdRecord /\ now \in Nat
    BY NewAdType, PipelineAssumption DEF TypeOK, ProcessTypeOK
  <2>3. SetStatus(NewAd(p, now), "queued", now).effective \in Nat
    BY <2>2, SetStatusType DEF AdRecord, Statuses
  <2>4. RepositoryTypeOK' /\ foreign' \in SUBSET Foreign
    BY <1>6, <2>1, <2>3, PipelineAssumption
      DEF OtherProcessPush, repoVars, TypeOK, RepositoryTypeOK, ProcessTypeOK
  <2>5. QED
    BY <1>6, <2>4 DEF OtherProcessPush, repoVars, submitVars, workerVars, maintVars,
      TypeOK, ProcessTypeOK, SubmitterTypeOK, WorkerTypeOK, MaintenanceTypeOK
<1>7. CASE OtherProcessPop
  BY <1>7 DEF OtherProcessPop, ZMin, repoVars, submitVars, workerVars, maintVars,
    TypeOK, RepositoryTypeOK, ProcessTypeOK, queueOnly, SubmitterTypeOK, WorkerTypeOK, MaintenanceTypeOK
<1>8. CASE UNCHANGED vars
  BY <1>8 DEF vars, TypeOK, RepositoryTypeOK, ProcessTypeOK, queueOnly, SubmitterTypeOK, WorkerTypeOK,
    MaintenanceTypeOK
<1>9. QED
  BY <1>1, <1>2, <1>3, <1>4, <1>5, <1>6, <1>7, <1>8, EnqueueTypeOK, DequeueTypeOK, CompleteTypeOK,
    MaintenanceTypeOKStep DEF Next, processLoop

\* Every behaviour of the pipeline, for any number of ads, requests, workers
\* and instances and either cache, keeps every variable in its type.
THEOREM TypeCorrect == Spec => []TypeOK
BY InitTypeOK, NextTypeOK, PTL DEF Spec

=============================================================================
