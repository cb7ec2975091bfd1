-------------------------- MODULE LifecycleProofs --------------------------
(***************************************************************************)
(* The pipeline implements AdLifecycle, proved for every value of the      *)
(* constants.  First, what each actor's steps do to what clients see of    *)
(* the ads (status and analysis) and to who has an ad in hand; then the    *)
(* step-by-step refinement; then the analysis of completed ads.            *)
(***************************************************************************)
EXTENDS ClaimProofs

\* Clients see no difference in ad a.
SameSeen(a) == ads'[a].status = ads[a].status /\ ads'[a].analysed = ads[a].analysed

AllSeenSame == \A a \in Ads : SameSeen(a)

OthersSeenSame(id) == \A a \in Ads : a # id => SameSeen(a)

\* Ad a goes from one status to another, and nothing else is seen to change.
Becomes(a, from, to) ==
    /\ a \in Ads
    /\ ads[a].status = from
    /\ ads'[a].status = to
    /\ ads'[a].analysed = ads[a].analysed
    /\ OthersSeenSame(a)

InHand(w) == wpc[w] \in HoldingSteps

HalfSteps == {"cget", "cupdate"}

\* The five ways in which a step of worker w concerns the life of an ad.
KeepsAd(w) ==
    /\ AllSeenSame
    /\ InHand(w)' <=> InHand(w)
    /\ InHand(w) => wid'[w] = wid[w]
    /\ wpc[w] \in HalfSteps => wpc'[w] \in HalfSteps

ClaimsAd(w) ==
    /\ wpc[w] = "cas" /\ wpc'[w] = "reget" /\ wid'[w] = wid[w]
    /\ Becomes(wid[w], "queued", "processing")

DropsAd(w) ==
    /\ AllSeenSame
    /\ wpc[w] = "work" /\ wpc'[w] = "loop"
    /\ ToldToStop(w) \/ ~AcquireLockOK(wid[w], InstanceOf[w])

FinishesAd(w) ==
    /\ wpc[w] = "ccas" /\ wpc'[w] = "cget" /\ wid'[w] = wid[w]
    /\ Becomes(wid[w], "processing", "completed")

DeliversAd(w) ==
    /\ wpc[w] = "cupdate" /\ wpc'[w] = "crelease"
    /\ ads[wid[w]].status = "completed" /\ ads'[wid[w]].status = "completed"
    /\ ads'[wid[w]].analysed = TRUE
    /\ OthersSeenSame(wid[w])

OthersStand(w) == \A v \in Workers : v # w => wpc'[v] = wpc[v] /\ wid'[v] = wid[v]

-----------------------------------------------------------------------------
(* What clients see.                                                       *)

\* The new version of a write is all NextVersion changes.
LEMMA NextVersionFields ==
    ASSUME NEW ad \in AdRecord
    PROVE  /\ NextVersion(ad).status = ad.status
           /\ NextVersion(ad).analysed = ad.analysed
           /\ NextVersion(ad).priority = ad.priority
           /\ NextVersion(ad).effective = ad.effective
           /\ NextVersion(ad).queuedAt = ad.queuedAt
           /\ NextVersion(ad).version = ad.version + 1
BY DEF NextVersion, AdRecord

\* AtomicStatusUpdate changes the status and the version only.
LEMMA StatusFields ==
    ASSUME NEW ad \in AdRecord, NEW st \in Statuses
    PROVE  /\ NextVersion([ad EXCEPT !.status = st]).status = st
           /\ NextVersion([ad EXCEPT !.status = st]).analysed = ad.analysed
           /\ NextVersion([ad EXCEPT !.status = st]).priority = ad.priority
           /\ NextVersion([ad EXCEPT !.status = st]).effective = ad.effective
           /\ NextVersion([ad EXCEPT !.status = st]).queuedAt = ad.queuedAt
<1> DEFINE new == [ad EXCEPT !.status = st]
<1>1. /\ new \in AdRecord /\ new.status = st /\ new.analysed = ad.analysed
      /\ new.priority = ad.priority /\ new.effective = ad.effective /\ new.queuedAt = ad.queuedAt
  BY DEF AdRecord
<1> HIDE DEF new
<1>2. /\ NextVersion(new).status = new.status /\ NextVersion(new).analysed = new.analysed
      /\ NextVersion(new).priority = new.priority /\ NextVersion(new).effective = new.effective
      /\ NextVersion(new).queuedAt = new.queuedAt
  BY <1>1, NextVersionFields
<1>3. QED
  BY <1>1, <1>2 DEF new

\* A store that is not written looks the same.
LEMMA UnwrittenSeen ==
    ASSUME UNCHANGED ads
    PROVE  AllSeenSame
BY DEF AllSeenSame, SameSeen

\* A write to one ad leaves the others as they are seen.
LEMMA OneWriteSeen ==
    ASSUME ads \in [Ads -> AdRecord], NEW id \in Ads, NEW ad, ads' = [ads EXCEPT ![id] = ad]
    PROVE  OthersSeenSame(id) /\ ads'[id] = ad
BY DEF OthersSeenSame, SameSeen

\* A push changes nothing clients see.
LEMMA PushSeen ==
    ASSUME ads \in [Ads -> AdRecord], NEW id \in Ads, NEW p \in Nat, PushToQueue(id, p)
    PROVE  AllSeenSame
<1>1. CASE UNCHANGED ads
  BY <1>1, UnwrittenSeen
<1>2. CASE SetEffective(id, p)
  <2>1. /\ [ads[id] EXCEPT !.effective = p].status = ads[id].status
        /\ [ads[id] EXCEPT !.effective = p].analysed = ads[id].analysed
    BY DEF AdRecord
  <2>2. QED
    BY <1>2, <2>1 DEF SetEffective, AllSeenSame, SameSeen
<1>3. QED
  BY <1>1, <1>2 DEF PushToQueue

\* SubmitAd shows a new ad, "submitted".
LEMMA SubmitSeen ==
    ASSUME PipelineInv, NEW s \in Submitters, SubmitAd(s)
    PROVE  \E a \in Ads : Becomes(a, "absent", "submitted")
<1>1. PICK a \in Ads, p \in PriorityInputs :
        /\ ads[a].status = "absent"
        /\ ads' = [ads EXCEPT ![a] = NewAd(p, now)]
  BY DEF SubmitAd, WithStatus, Save
<1>2. NewAd(p, now).status = "submitted" /\ NewAd(p, now).analysed = FALSE
  BY DEF NewAd
<1>3. ads[a].analysed = FALSE /\ ads \in [Ads -> AdRecord]
  <2>1. ads \in [Ads -> AdRecord]
    BY DEF PipelineInv, TypeOK, RepositoryTypeOK
  <2>2. ads[a].analysed \in BOOLEAN
    BY <2>1 DEF AdRecord
  <2>3. ~ads[a].analysed
    BY <1>1 DEF PipelineInv, StoreInv
  <2>4. QED
    BY <2>1, <2>2, <2>3
<1>4. OthersSeenSame(a) /\ ads'[a] = NewAd(p, now)
  BY <1>1, <1>3, OneWriteSeen
<1>5. QED
  BY <1>1, <1>2, <1>3, <1>4 DEF Becomes

\* Enqueue takes an ad from "submitted" to "queued" in its Update and changes
\* nothing else clients see.
LEMMA EnqueueSeen ==
    ASSUME PipelineInv, NEW s \in Submitters, Enqueue(s)
    PROVE  \/ AllSeenSame /\ spc'[s] = "idle"
           \/ AllSeenSame /\ spc[s] = "admit" /\ spc'[s] = "update" /\ HasRoom
           \/ Becomes(sid[s], "submitted", "queued") /\ spc[s] = "update" /\ spc'[s] = "push"
<1>0. /\ ads \in [Ads -> AdRecord] /\ spc \in [Submitters -> EnqueueSteps \union {"idle"}]
      /\ sad \in [Submitters -> AdRecord]
      /\ spc[s] # "idle" => sid[s] \in Ads
      /\ now \in Nat
  BY DEF PipelineInv, TypeOK, RepositoryTypeOK, SubmitterTypeOK, ProcessTypeOK
<1>1. CASE EnqueueAdmit(s)
  BY <1>0, <1>1, UnwrittenSeen DEF EnqueueAdmit, EnqueueReturn, repoVars
<1>2. CASE EnqueueUpdate(s)
  <2> DEFINE queued == SetStatus(sad[s], "queued", now)
  <2>1. CASE ~UpdateOK(sid[s], queued)
    BY <1>0, <1>2, <2>1, UnwrittenSeen DEF EnqueueUpdate, EnqueueReturn
  <2>2. CASE UpdateOK(sid[s], queued)
    <3>1. /\ sid[s] \in Ads /\ spc[s] = "update" /\ spc' = [spc EXCEPT ![s] = "push"]
          /\ ads' = [ads EXCEPT ![sid[s]] = NextVersion(queued)]
          /\ ads[sid[s]].version = queued.version
      BY <1>0, <1>2, <2>2 DEF EnqueueUpdate, Update, UpdateOK
    <3>2. queued \in AdRecord
      BY <1>0, SetStatusType DEF Statuses
    <3>3. /\ queued.version = sad[s].version /\ queued.analysed = sad[s].analysed
          /\ queued.status = "queued"
      BY <1>0 DEF SetStatus, AdRecord
    <3> HIDE DEF queued
    <3>4. /\ ads[sid[s]].status = "submitted" /\ ads[sid[s]].analysed = queued.analysed
      BY <1>0, <3>1, <3>3, CheckedCopy DEF PipelineInv, SubmitterInv
    <3>5. OthersSeenSame(sid[s]) /\ ads'[sid[s]] = NextVersion(queued)
      BY <1>0, <3>1, OneWriteSeen
    <3>6. QED
      BY <1>0, <3>1, <3>2, <3>3, <3>4, <3>5, NextVersionFields DEF Becomes
  <2>3. QED
    BY <2>1, <2>2
<1>3. CASE EnqueuePush(s)
  <2>1. sid[s] \in Ads /\ sad[s].effective \in Nat
    BY <1>0, <1>3 DEF EnqueuePush, AdRecord
  <2>2. AllSeenSame
    BY <1>0, <1>3, <2>1, PushSeen DEF EnqueuePush
  <2>3. QED
    BY <1>0, <1>3, <2>2 DEF EnqueuePush, EnqueueReturn
<1>4. QED
  BY <1>1, <1>2, <1>3 DEF Enqueue

\* The maintenance loop changes nothing clients see.
LEMMA MaintenanceSeen ==
    ASSUME PipelineInv, NEW i \in Instances, Maintenance(i)
    PROVE  AllSeenSame
<1>0. /\ ads \in [Ads -> AdRecord] /\ mcopy \in [Instances -> AdRecord]
      /\ mpc[i] \in {"get", "update", "push"} => mid[i] \in Ads
  BY DEF PipelineInv, TypeOK, RepositoryTypeOK, MaintenanceTypeOK
<1>1. CASE PriorityUpdate(i)
  <2>1. CASE UNCHANGED ads
    BY <2>1, UnwrittenSeen
  <2>2. CASE ~UNCHANGED ads
    <3>1. /\ mpc[i] = "update" /\ mid[i] \in Ads
          /\ ads[mid[i]].version = mcopy[i].version
          /\ ads' = [ads EXCEPT ![mid[i]] = NextVersion(mcopy[i])]
      BY <1>0, <1>1, <2>2 DEF PriorityUpdate, UpdateOK, Update
    <3>2. Coherent(ads[mid[i]], mcopy[i])
      BY <3>1 DEF PipelineInv, MaintenanceInv
    <3>3. mcopy[i].status = ads[mid[i]].status /\ mcopy[i].analysed = ads[mid[i]].analysed
      BY <1>0, <3>1, <3>2, CheckedCopy
    <3>4. OthersSeenSame(mid[i]) /\ ads'[mid[i]] = NextVersion(mcopy[i])
      BY <1>0, <3>1, OneWriteSeen
    <3>5. SameSeen(mid[i])
      BY <1>0, <3>3, <3>4, NextVersionFields DEF SameSeen
    <3>6. QED
      BY <3>4, <3>5 DEF AllSeenSame, OthersSeenSame
  <2>3. QED
    BY <2>1, <2>2
<1>2. CASE PriorityPush(i)
  <2>1. mid[i] \in Ads /\ mcopy[i].effective \in Nat
    BY <1>0, <1>2 DEF PriorityPush, AdRecord
  <2>2. QED
    BY <1>0, <1>2, <2>1, PushSeen DEF PriorityPush
<1>3. CASE RequeueItem(i)
  <2>1. \A x \in mitems[i] : ~Expired(x)
    BY DEF PipelineInv, MaintenanceInv, Expired
  <2>2. UNCHANGED ads
    BY <1>3, <2>1 DEF RequeueItem, NewestItems
  <2>3. QED
    BY <2>2, UnwrittenSeen
<1>4. CASE MaintenanceExit(i) \/ MaintenanceScan(i) \/ MaintenanceDone(i) \/ PriorityItem(i) \/ PriorityGet(i)
  BY <1>4, UnwrittenSeen DEF MaintenanceExit, MaintenanceScan, MaintenanceDone, PriorityItem, PriorityGet
<1>5. QED
  BY <1>1, <1>2, <1>3, <1>4 DEF Maintenance

-----------------------------------------------------------------------------
(* What a worker's steps are to the ads.                                   *)

\* A step that stores nothing and leaves the worker with what it had keeps the
\* life of every ad as it is.
LEMMA QuietStepKeeps ==
    ASSUME PipelineInv, NEW w \in Workers, UNCHANGED ads, NEW step, goto(w, step),
           step \in HoldingSteps <=> wpc[w] \in HoldingSteps,
           wpc[w] \in HoldingSteps => wid'[w] = wid[w],
           wpc[w] \in HalfSteps => step \in HalfSteps
    PROVE  KeepsAd(w)
<1>1. wpc'[w] = step
  BY DEF PipelineInv, TypeOK, WorkerTypeOK, goto
<1>2. QED
  BY <1>1, UnwrittenSeen DEF KeepsAd, InHand

\* Only the worker that takes a step has its own step and ad changed.
LEMMA WorkersStandApart ==
    ASSUME PipelineInv, NEW w \in Workers,
           Dequeue(w) \/ Complete(w) \/ LoopHead(w) \/ ProcessAdInterrupted(w)
    PROVE  OthersStand(w)
<1>0. /\ wpc \in [Workers -> WorkerSteps] /\ wid \in [Workers -> Ads \union {None}]
  BY DEF PipelineInv, TypeOK, WorkerTypeOK
<1> USE <1>0 DEF OthersStand, goto, forget, returnErr, returnAd, recurse
<1>1. ASSUME DequeueClosed(w) \/ DequeuePop(w) \/ DequeuePopMiss(w) \/ DequeueGet(w) \/ DequeueFind(w)
               \/ DequeueLock(w)
      PROVE  OthersStand(w)
  BY <1>1 DEF DequeueClosed, DequeuePop, DequeuePopMiss, DequeueGet, DequeueFind, DequeueLock
<1>2. ASSUME DequeueLockDenied(w) \/ DequeueClaim(w) \/ DequeueReget(w) \/ DequeueAssign(w)
      PROVE  OthersStand(w)
  BY <1>2 DEF DequeueLockDenied, DequeueClaim, DequeueReget, DequeueAssign
<1>3. ASSUME DequeueRelease(w) \/ DequeueUnwind(w)
      PROVE  OthersStand(w)
  BY <1>3 DEF DequeueRelease, DequeueUnwind
<1>4. ASSUME Complete(w)
      PROVE  OthersStand(w)
  BY <1>4 DEF Complete, CompleteLock, CompleteStatus, CompleteGet, CompleteUpdate, CompleteRelease
<1>5. ASSUME LoopHead(w) \/ ProcessAdInterrupted(w)
      PROVE  OthersStand(w)
  BY <1>5 DEF LoopHead, ProcessAdInterrupted
<1>6. QED
  BY <1>1, <1>2, <1>3, <1>4, <1>5 DEF Dequeue

\* A step of Dequeue claims a queued ad or changes nothing clients see: the
\* worker's own write of the assignment keeps status and analysis.
LEMMA DequeueSeen ==
    ASSUME PipelineInv, NEW w \in Workers, Dequeue(w)
    PROVE  KeepsAd(w) \/ ClaimsAd(w)
<1>0. /\ ads \in [Ads -> AdRecord]
      /\ wpc \in [Workers -> WorkerSteps] /\ wad \in [Workers -> AdRecord]
      /\ wpc[w] \in IdSteps => wid[w] \in Ads
  BY DEF PipelineInv, TypeOK, RepositoryTypeOK, WorkerTypeOK
<1>a. WorkerInv(w)
  BY DEF PipelineInv
<1>b. ASSUME UNCHANGED ads, wpc[w] \notin HoldingSteps, NEW step, goto(w, step), step \notin HoldingSteps
      PROVE  KeepsAd(w)
  BY <1>b, QuietStepKeeps DEF HalfSteps, HoldingSteps
<1>c. ASSUME returnErr(w) \/ recurse(w), UNCHANGED ads, wpc[w] \notin HoldingSteps
      PROVE  KeepsAd(w)
  <2>1. PICK step \in {"loop", "returnErr", "dequeue"} : goto(w, step)
    BY <1>c DEF returnErr, recurse
  <2>2. QED
    BY <1>b, <1>c, <2>1 DEF HoldingSteps
<1>1. CASE DequeueClosed(w)
  BY <1>1, <1>c DEF DequeueClosed, repoVars, HoldingSteps
<1>2. CASE DequeuePop(w)
  BY <1>2, <1>b DEF DequeuePop, repoVars, HoldingSteps
<1>3. CASE DequeuePopMiss(w)
  BY <1>3, <1>b DEF DequeuePopMiss, repoVars, HoldingSteps
<1>4. CASE DequeueGet(w)
  BY <1>4, <1>b, <1>c DEF DequeueGet, repoVars, HoldingSteps
<1>5. CASE DequeueFind(w)
  BY <1>5, <1>b, <1>c DEF DequeueFind, repoVars, HoldingSteps
<1>6. CASE DequeueLock(w)
  BY <1>6, <1>b DEF DequeueLock, HoldingSteps
<1>7. CASE DequeueLockDenied(w)
  BY <1>7, <1>c DEF DequeueLockDenied, repoVars, HoldingSteps
<1>8. CASE DequeueClaim(w)
  <2>0. wpc[w] = "cas" /\ wpc[w] \notin HoldingSteps /\ wid[w] \in Ads
    BY <1>0, <1>8 DEF DequeueClaim, HoldingSteps, IdSteps, WorkerSteps
  <2>1. CASE recurse(w) /\ UNCHANGED ads
    BY <1>c, <2>0, <2>1
  <2>2. CASE UNCHANGED ads /\ goto(w, "release")
    BY <1>b, <2>0, <2>2 DEF HoldingSteps
  <2>3. CASE ClaimOK(w) /\ AtomicStatusUpdate(wid[w], "processing") /\ goto(w, "reget") /\ UNCHANGED wid
    <3> DEFINE ad == NextVersion([ads[wid[w]] EXCEPT !.status = "processing"])
    <3>1. ads[wid[w]].status = "queued" /\ ads' = [ads EXCEPT ![wid[w]] = ad]
      BY <2>3 DEF ClaimOK, AtomicStatusUpdateOK, AtomicStatusUpdate
    <3>2. ad.status = "processing" /\ ad.analysed = ads[wid[w]].analysed
      <4>1. ads[wid[w]] \in AdRecord /\ "processing" \in Statuses
        BY <1>0, <2>0 DEF Statuses
      <4>2. QED
        BY <4>1, StatusFields
    <3> HIDE DEF ad
    <3>3. OthersSeenSame(wid[w]) /\ ads'[wid[w]] = ad
      BY <1>0, <2>0, <3>1, OneWriteSeen
    <3>4. wpc'[w] = "reget" /\ wid'[w] = wid[w]
      BY <1>0, <2>3 DEF goto
    <3>5. QED
      BY <2>0, <3>1, <3>2, <3>3, <3>4 DEF ClaimsAd, Becomes
  <2>4. QED
    BY <1>8, <2>1, <2>2, <2>3 DEF DequeueClaim
<1>9. CASE DequeueReget(w)
  <2>1. UNCHANGED <<ads, wid>> /\ goto(w, "assign") /\ wpc[w] = "reget"
    BY <1>9 DEF DequeueReget, repoVars
  <2>2. QED
    BY <2>1, QuietStepKeeps DEF HoldingSteps, HalfSteps
<1>10. CASE DequeueAssign(w)
  <2> DEFINE assigned == IncrementAttempts(AssignWorker(wad[w], InstanceOf[w]))
  <2>1. wpc[w] = "assign" /\ wid[w] \in Ads /\ InstanceOf[w] \in Instances
    BY <1>0, <1>10, QueueAssumption DEF DequeueAssign, IdSteps, WorkerSteps
  <2>2. assigned \in AdRecord
    BY <1>0, <2>1, AssignedType
  <2>3. assigned.version = wad[w].version /\ assigned.status = wad[w].status
        /\ assigned.analysed = wad[w].analysed
    BY <1>0 DEF IncrementAttempts, AssignWorker, AdRecord
  <2> HIDE DEF assigned
  <2>4. /\ ads[wid[w]].version = assigned.version
        /\ ads[wid[w]].status = "processing"
        /\ Coherent(ads[wid[w]], wad[w])
    BY <1>a, <2>1, <2>3 DEF WorkerInv, CopySteps, IdSteps, WorkerSteps
  <2>5. assigned.status = ads[wid[w]].status /\ assigned.analysed = ads[wid[w]].analysed
    BY <1>0, <2>1, <2>3, <2>4, CheckedCopy
  <2>6. ads' = [ads EXCEPT ![wid[w]] = NextVersion(assigned)] /\ returnAd(w)
    BY <1>10, <2>4 DEF DequeueAssign, UpdateOK, Update, assigned
  <2>7. OthersSeenSame(wid[w]) /\ ads'[wid[w]] = NextVersion(assigned)
    BY <1>0, <2>1, <2>6, OneWriteSeen
  <2>8. AllSeenSame
    BY <2>2, <2>5, <2>7, NextVersionFields DEF AllSeenSame, OthersSeenSame, SameSeen
  <2>9. wid' = wid /\ wpc'[w] \in {"work", "returnAd"}
    BY <1>0, <2>6 DEF returnAd, goto
  <2>10. QED
    BY <2>1, <2>8, <2>9 DEF KeepsAd, InHand, HoldingSteps, HalfSteps
<1>11. CASE DequeueRelease(w)
  BY <1>11, <1>c DEF DequeueRelease, HoldingSteps
<1>12. CASE DequeueUnwind(w)
  <2>1. PICK step \in {"returnAd", "returnErr", "work", "loop"} :
          /\ goto(w, step)
          /\ step \in {"returnAd", "work"} <=> wpc[w] = "returnAd"
    <3> DEFINE next == IF Len(wdefers[w]) > 1 THEN wpc[w]
                       ELSE IF wpc[w] = "returnAd" THEN "work" ELSE "loop"
    <3>1. /\ next \in {"returnAd", "returnErr", "work", "loop"}
          /\ next \in {"returnAd", "work"} <=> wpc[w] = "returnAd"
      BY <1>12 DEF DequeueUnwind
    <3>2. goto(w, next)
      BY <1>12 DEF DequeueUnwind
    <3>3. QED
      BY <3>1, <3>2
  <2>2. UNCHANGED <<ads, wid>> /\ wpc[w] \in {"returnAd", "returnErr"}
    BY <1>12 DEF DequeueUnwind
  <2>3. QED
    BY <2>1, <2>2, QuietStepKeeps DEF HoldingSteps, HalfSteps
<1>13. QED
  BY <1>1, <1>2, <1>3, <1>4, <1>5, <1>6, <1>7, <1>8, <1>9, <1>10, <1>11, <1>12 DEF Dequeue

\* A step of Complete drops the ad (it is locked), finishes it, delivers its
\* analysis or changes nothing clients see.
LEMMA CompleteSeen ==
    ASSUME PipelineInv, NEW w \in Workers, Complete(w)
    PROVE  KeepsAd(w) \/ DropsAd(w) \/ FinishesAd(w) \/ DeliversAd(w)
<1>0. /\ ads \in [Ads -> AdRecord]
      /\ wpc \in [Workers -> WorkerSteps] /\ wad \in [Workers -> AdRecord]
      /\ wpc[w] \in IdSteps => wid[w] \in Ads
  BY DEF PipelineInv, TypeOK, RepositoryTypeOK, WorkerTypeOK
<1>a. WorkerInv(w)
  BY DEF PipelineInv
<1>1. CASE CompleteLock(w)
  <2>1. wpc[w] = "work" /\ UNCHANGED ads
    BY <1>1 DEF CompleteLock
  <2>2. CASE goto(w, "ccas") /\ UNCHANGED wid
    BY <2>1, <2>2, QuietStepKeeps DEF HoldingSteps, HalfSteps
  <2>3. CASE ~AcquireLockOK(wid[w], InstanceOf[w]) /\ goto(w, "loop")
    BY <1>0, <2>1, <2>3, UnwrittenSeen DEF DropsAd, goto
  <2>4. QED
    BY <1>1, <2>2, <2>3 DEF CompleteLock
<1>2. CASE CompleteStatus(w)
  <2> DEFINE ad == NextVersion([ads[wid[w]] EXCEPT !.status = "completed"])
  <2>1. wpc[w] = "ccas" /\ wid[w] \in Ads
    BY <1>0, <1>2 DEF CompleteStatus, IdSteps, WorkerSteps
  <2>2. ads[wid[w]].version = wad[w].version /\ ads[wid[w]].status = "processing"
    BY <1>a, <2>1 DEF WorkerInv
  <2>3. ads' = [ads EXCEPT ![wid[w]] = ad] /\ wpc' = [wpc EXCEPT ![w] = "cget"] /\ UNCHANGED wid
    BY <1>2, <2>2 DEF CompleteStatus, AtomicStatusUpdateOK, AtomicStatusUpdate, goto
  <2>4. ad.status = "completed" /\ ad.analysed = ads[wid[w]].analysed
    <3>1. ads[wid[w]] \in AdRecord /\ "completed" \in Statuses
      BY <1>0, <2>1 DEF Statuses
    <3>2. QED
      BY <3>1, StatusFields
  <2> HIDE DEF ad
  <2>5. OthersSeenSame(wid[w]) /\ ads'[wid[w]] = ad
    BY <1>0, <2>1, <2>3, OneWriteSeen
  <2>6. QED
    BY <1>0, <2>1, <2>2, <2>3, <2>4, <2>5 DEF FinishesAd, Becomes
<1>3. CASE CompleteGet(w)
  <2>1. UNCHANGED <<ads, wid>> /\ goto(w, "cupdate") /\ wpc[w] = "cget"
    BY <1>3 DEF CompleteGet, repoVars
  <2>2. QED
    BY <2>1, QuietStepKeeps DEF HoldingSteps, HalfSteps
<1>4. CASE CompleteUpdate(w)
  <2> DEFINE done == SetAnalysisResults(wad[w])
  <2>1. wpc[w] = "cupdate" /\ wid[w] \in Ads
    BY <1>0, <1>4 DEF CompleteUpdate, IdSteps, WorkerSteps
  <2>2. done \in AdRecord
    BY <1>0, AnalysedType
  <2>3. done.version = wad[w].version /\ done.status = wad[w].status /\ done.analysed = TRUE
    BY <1>0 DEF SetAnalysisResults, AdRecord
  <2> HIDE DEF done
  <2>4. /\ ads[wid[w]].version = done.version
        /\ ads[wid[w]].status = "completed"
        /\ Coherent(ads[wid[w]], wad[w])
    BY <1>a, <2>1, <2>3 DEF WorkerInv, CopySteps, IdSteps, WorkerSteps
  <2>5. done.status = "completed"
    BY <1>0, <2>1, <2>3, <2>4, CheckedCopy
  <2>6. ads' = [ads EXCEPT ![wid[w]] = NextVersion(done)] /\ wpc' = [wpc EXCEPT ![w] = "crelease"]
    BY <1>4, <2>4 DEF CompleteUpdate, UpdateOK, Update, goto, done
  <2>7. OthersSeenSame(wid[w]) /\ ads'[wid[w]] = NextVersion(done)
    BY <1>0, <2>1, <2>6, OneWriteSeen
  <2>8. NextVersion(done).status = "completed" /\ NextVersion(done).analysed = TRUE
    BY <2>2, <2>3, <2>5, NextVersionFields
  <2>9. QED
    BY <1>0, <2>1, <2>4, <2>6, <2>7, <2>8 DEF DeliversAd
<1>5. CASE CompleteRelease(w)
  <2>1. UNCHANGED ads /\ goto(w, "loop") /\ wpc[w] = "crelease"
    BY <1>5 DEF CompleteRelease
  <2>2. QED
    BY <2>1, QuietStepKeeps DEF HoldingSteps, HalfSteps
<1>6. QED
  BY <1>1, <1>2, <1>3, <1>4, <1>5 DEF Complete

\* The head of processLoop concerns no ad; an interrupted processAd drops one.
LEMMA LoopSeen ==
    ASSUME PipelineInv, NEW w \in Workers, LoopHead(w) \/ ProcessAdInterrupted(w)
    PROVE  KeepsAd(w) \/ DropsAd(w)
<1>0. wpc \in [Workers -> WorkerSteps]
  BY DEF PipelineInv, TypeOK, WorkerTypeOK
<1>1. CASE LoopHead(w)
  <2>1. PICK step \in {"exited", "dequeue"} : goto(w, step)
    BY <1>1 DEF LoopHead
  <2>2. wpc[w] = "loop" /\ UNCHANGED ads
    BY <1>1 DEF LoopHead, repoVars
  <2>3. QED
    BY <2>1, <2>2, QuietStepKeeps DEF HoldingSteps, HalfSteps
<1>2. CASE ProcessAdInterrupted(w)
  BY <1>0, <1>2, UnwrittenSeen DEF ProcessAdInterrupted, DropsAd, goto, repoVars
<1>3. QED
  BY <1>1, <1>2

-----------------------------------------------------------------------------
(* The refinement.                                                         *)

\* What clients see and who has which ad, as the life cycle's variables.
StatusOf   == [a \in Ads |-> ads[a].status]
AnalysedOf == [a \in Ads |-> ads[a].analysed]
HoldersOf  == [a \in Ads |-> {w \in Workers : Holds(w, a)}]

\* Nothing seen to change and no ad changing hands: the life cycle stutters.
LEMMA SeenStutter ==
    ASSUME AllSeenSame,
           \A w \in Workers : /\ InHand(w)' <=> InHand(w)
                              /\ InHand(w) => wid'[w] = wid[w]
    PROVE  UNCHANGED Lifecycle!lifecycleVars
<1>1. StatusOf' = StatusOf /\ AnalysedOf' = AnalysedOf
  BY DEF AllSeenSame, SameSeen, StatusOf, AnalysedOf
<1>2. \A a \in Ads : \A w \in Workers : Holds(w, a)' <=> Holds(w, a)
  BY DEF InHand, Holds
<1>3. HoldersOf' = HoldersOf
  BY <1>2 DEF HoldersOf
<1>4. QED
  BY <1>1, <1>3 DEF Lifecycle!lifecycleVars, StatusOf, AnalysedOf, HoldersOf

\* One status moving is one status moving in the life cycle.
LEMMA BecomesSeen ==
    ASSUME NEW a \in Ads, NEW from, NEW to, Becomes(a, from, to)
    PROVE  /\ StatusOf[a] = from
           /\ StatusOf' = [StatusOf EXCEPT ![a] = to]
           /\ AnalysedOf' = AnalysedOf
BY DEF Becomes, OthersSeenSame, SameSeen, StatusOf, AnalysedOf

\* The workers that have an ad stay the same when no worker moves.
LEMMA SameHolders ==
    ASSUME \A w \in Workers : /\ InHand(w)' <=> InHand(w)
                              /\ InHand(w) => wid'[w] = wid[w]
    PROVE  HoldersOf' = HoldersOf
<1>1. \A a \in Ads : \A w \in Workers : Holds(w, a)' <=> Holds(w, a)
  BY DEF InHand, Holds
<1>2. QED
  BY <1>1 DEF HoldersOf

\* Exclusion: a worker with an ad is its only holder.
LEMMA OnlyHolder ==
    ASSUME PipelineInv, NEW w \in Workers, wpc[w] \in HoldingSteps
    PROVE  wid[w] \in Ads /\ HoldersOf[wid[w]] = {w}
<1>1. wid[w] \in Ads
  BY HeldStatus
<1>2. \A v \in Workers : Holds(v, wid[w]) <=> v = w
  BY <1>1 DEF PipelineInv, ExclusiveClaim, Holds
<1>3. QED
  BY <1>1, <1>2 DEF HoldersOf

\* A step of one worker that starts or ends its hold on an ad changes the
\* holders of that ad only.
LEMMA HoldersMove ==
    ASSUME NEW w \in Workers, OthersStand(w), NEW a \in Ads, wid[w] = a,
           NEW before \in SUBSET Workers, HoldersOf[a] = before,
           \/ InHand(w) /\ ~InHand(w)' /\ before = {w}
           \/ ~InHand(w) /\ InHand(w)' /\ wid'[w] = a /\ before = {}
    PROVE  HoldersOf' = [HoldersOf EXCEPT ![a] = IF InHand(w) THEN {} ELSE {w}]
<1>1. \A b \in Ads : b # a => \A v \in Workers : Holds(v, b)' <=> Holds(v, b)
  BY DEF OthersStand, Holds, InHand
<1>2. \A v \in Workers : Holds(v, a) <=> v \in before
  BY DEF HoldersOf
<1>3. \A v \in Workers : Holds(v, a)' <=> v = w /\ ~InHand(w)
  BY <1>2 DEF OthersStand, Holds, InHand
<1>4. \A b \in Ads : HoldersOf'[b] = {v \in Workers : Holds(v, b)'}
  BY DEF HoldersOf
<1>5. HoldersOf'[a] = IF InHand(w) THEN {} ELSE {w}
  BY <1>3, <1>4
<1>6. \A b \in Ads : b # a => HoldersOf'[b] = HoldersOf[b]
  BY <1>1, <1>4 DEF HoldersOf
<1>7. /\ DOMAIN HoldersOf = Ads /\ HoldersOf = [b \in Ads |-> HoldersOf[b]]
      /\ DOMAIN HoldersOf' = Ads /\ HoldersOf' = [b \in Ads |-> HoldersOf'[b]]
  BY DEF HoldersOf
<1>8. QED
  BY <1>5, <1>6, <1>7

\* A worker's step is a step of the life cycle or a stutter.
LEMMA WorkerRefines ==
    ASSUME PipelineInv, NEW w \in Workers, OthersStand(w),
           KeepsAd(w) \/ ClaimsAd(w) \/ DropsAd(w) \/ FinishesAd(w) \/ DeliversAd(w)
    PROVE  Lifecycle!LifecycleNext \/ UNCHANGED Lifecycle!lifecycleVars
<1>0. wpc \in [Workers -> WorkerSteps] /\ (wpc[w] \in IdSteps => wid[w] \in Ads)
  BY DEF PipelineInv, TypeOK, WorkerTypeOK
<1>a. wpc[w] \in HoldingSteps => WorkerInv(w) /\ wid[w] \in Ads /\ HoldersOf[wid[w]] = {w}
  BY OnlyHolder DEF PipelineInv
<1> USE DEF InHand
<1>1. CASE KeepsAd(w)
  <2>1. \A v \in Workers : /\ InHand(v)' <=> InHand(v)
                           /\ InHand(v) => wid'[v] = wid[v]
    BY <1>1 DEF KeepsAd, OthersStand
  <2>2. QED
    BY <1>1, <2>1, SeenStutter DEF KeepsAd
<1>2. CASE ClaimsAd(w)
  <2>1. /\ wid[w] \in Ads /\ Becomes(wid[w], "queued", "processing")
        /\ wpc[w] = "cas" /\ wpc'[w] = "reget" /\ wid'[w] = wid[w]
    BY <1>2 DEF ClaimsAd, Becomes
  <2>2. HoldersOf[wid[w]] = {}
    <3>1. \A v \in Workers : ~Holds(v, wid[w])
      BY <2>1, HeldStatus DEF Becomes, Holds
    <3>2. QED
      BY <2>1, <3>1 DEF HoldersOf
  <2>3. HoldersOf' = [HoldersOf EXCEPT ![wid[w]] = {w}]
    BY <2>1, <2>2, HoldersMove DEF HoldingSteps
  <2>4. PICK a \in Ads : a = wid[w]
    BY <2>1
  <2>5. Lifecycle!Claim(a, w)
    BY <2>1, <2>2, <2>3, <2>4, BecomesSeen DEF Lifecycle!Claim, StatusOf, AnalysedOf, HoldersOf
  <2>6. QED
    BY <2>5 DEF Lifecycle!LifecycleNext
<1>3. CASE DropsAd(w)
  <2>1. wpc[w] = "work" /\ wpc[w] \in HoldingSteps /\ wpc'[w] = "loop" /\ AllSeenSame
    BY <1>3 DEF DropsAd, HoldingSteps
  <2>2. ads[wid[w]].status = "processing" /\ wid[w] \in Ads /\ HoldersOf[wid[w]] = {w}
    BY <1>a, <2>1 DEF WorkerInv
  <2>3. HoldersOf' = [HoldersOf EXCEPT ![wid[w]] = {}]
    BY <2>1, <2>2, HoldersMove DEF HoldingSteps
  <2>4. StatusOf' = StatusOf /\ AnalysedOf' = AnalysedOf
    BY <2>1 DEF AllSeenSame, SameSeen, StatusOf, AnalysedOf
  <2>5. PICK a \in Ads : a = wid[w]
    BY <2>2
  <2>6. Lifecycle!Abandon(a)
    BY <2>2, <2>3, <2>4, <2>5 DEF Lifecycle!Abandon, StatusOf, AnalysedOf, HoldersOf
  <2>7. QED
    BY <2>6 DEF Lifecycle!LifecycleNext
<1>4. CASE FinishesAd(w)
  <2>1. /\ wpc[w] = "ccas" /\ wpc[w] \in HoldingSteps /\ wpc'[w] = "cget" /\ wid'[w] = wid[w]
        /\ wid[w] \in Ads /\ Becomes(wid[w], "processing", "completed")
    BY <1>4 DEF FinishesAd, HoldingSteps, Becomes
  <2>2. \A v \in Workers : /\ InHand(v)' <=> InHand(v)
                           /\ InHand(v) => wid'[v] = wid[v]
    BY <2>1 DEF OthersStand, HoldingSteps
  <2>3. HoldersOf' = HoldersOf /\ HoldersOf[wid[w]] # {}
    BY <1>a, <2>1, <2>2, SameHolders
  <2>4. PICK a \in Ads : a = wid[w]
    BY <2>1
  <2>5. Lifecycle!Finish(a)
    BY <2>1, <2>3, <2>4, BecomesSeen DEF Lifecycle!Finish, StatusOf, AnalysedOf, HoldersOf
  <2>6. QED
    BY <2>5 DEF Lifecycle!LifecycleNext
<1>5. CASE DeliversAd(w)
  <2>1. /\ wpc[w] = "cupdate" /\ wpc[w] \in HoldingSteps /\ wpc'[w] = "crelease"
        /\ ads[wid[w]].status = "completed" /\ ads'[wid[w]].status = "completed"
        /\ ads'[wid[w]].analysed = TRUE /\ OthersSeenSame(wid[w])
    BY <1>5 DEF DeliversAd, HoldingSteps
  <2>2. wid[w] \in Ads /\ HoldersOf[wid[w]] = {w}
    BY <1>a, <2>1
  <2>3. HoldersOf' = [HoldersOf EXCEPT ![wid[w]] = {}]
    BY <2>1, <2>2, HoldersMove DEF HoldingSteps
  <2>4. StatusOf' = StatusOf /\ AnalysedOf' = [AnalysedOf EXCEPT ![wid[w]] = TRUE]
    BY <2>1, <2>2 DEF OthersSeenSame, SameSeen, StatusOf, AnalysedOf
  <2>5. PICK a \in Ads : a = wid[w]
    BY <2>2
  <2>6. Lifecycle!Deliver(a)
    BY <2>1, <2>2, <2>3, <2>4, <2>5 DEF Lifecycle!Deliver, StatusOf, AnalysedOf, HoldersOf
  <2>7. QED
    BY <2>6 DEF Lifecycle!LifecycleNext
<1>6. QED
  BY <1>1, <1>2, <1>3, <1>4, <1>5

\* A request's step accepts an ad, admits one to the queue or stutters.
LEMMA RequestRefines ==
    ASSUME PipelineInv, NEW s \in Submitters, SubmitAd(s) \/ Enqueue(s)
    PROVE  Lifecycle!LifecycleNext \/ UNCHANGED Lifecycle!lifecycleVars
<1>1. UNCHANGED <<wpc, wid>>
  BY DEF SubmitAd, Enqueue, EnqueueAdmit, EnqueueUpdate, EnqueuePush, workerVars
<1>2. \A w \in Workers : /\ InHand(w)' <=> InHand(w)
                         /\ InHand(w) => wid'[w] = wid[w]
  BY <1>1 DEF InHand
<1>3. HoldersOf' = HoldersOf
  BY <1>2, SameHolders
<1>4. CASE SubmitAd(s)
  <2>1. PICK a \in Ads : Becomes(a, "absent", "submitted")
    BY <1>4, SubmitSeen
  <2>2. Lifecycle!Accept(a)
    BY <1>3, <2>1, BecomesSeen DEF Lifecycle!Accept, StatusOf, AnalysedOf, HoldersOf
  <2>3. QED
    BY <2>2 DEF Lifecycle!LifecycleNext
<1>5. CASE Enqueue(s)
  <2>1. CASE AllSeenSame
    BY <1>2, <2>1, SeenStutter
  <2>2. CASE Becomes(sid[s], "submitted", "queued")
    <3>1. PICK a \in Ads : a = sid[s]
      BY <2>2 DEF Becomes
    <3>2. Lifecycle!Admit(a)
      BY <1>3, <2>2, <3>1, BecomesSeen DEF Lifecycle!Admit, StatusOf, AnalysedOf, HoldersOf
    <3>3. QED
      BY <3>2 DEF Lifecycle!LifecycleNext
  <2>3. QED
    BY <1>5, <2>1, <2>2, EnqueueSeen
<1>6. QED
  BY <1>4, <1>5

\* The steps of nobody's ad: maintenance, the pool, shutdown, time and other
\* processes change nothing clients see and move no worker.
LEMMA BackgroundSeen ==
    ASSUME PipelineInv,
           \/ \E w \in Workers : StopWorker(w)
           \/ \E i \in Instances : Maintenance(i) \/ BeginShutdown(i) \/ Cancel(i) \/ Close(i)
           \/ Tick
           \/ OtherProcessPush
           \/ OtherProcessPop
           \/ UNCHANGED vars
    PROVE  AllSeenSame /\ UNCHANGED <<wpc, wid>>
<1>1. CASE \E i \in Instances : Maintenance(i)
  <2>1. UNCHANGED <<wpc, wid>>
    BY <1>1 DEF outsideMaintenance, Maintenance, MaintenanceExit, MaintenanceScan, MaintenanceDone,
      PriorityItem, PriorityGet, PriorityUpdate, PriorityPush, RequeueItem, workerVars
  <2>2. QED
    BY <1>1, <2>1, MaintenanceSeen
<1>2. CASE \/ \E w \in Workers : StopWorker(w)
           \/ \E i \in Instances : BeginShutdown(i) \/ Cancel(i) \/ Close(i)
           \/ Tick
           \/ OtherProcessPush
           \/ OtherProcessPop
           \/ UNCHANGED vars
  <2>1. UNCHANGED <<ads, wpc, wid>>
    BY <1>2 DEF StopWorker, BeginShutdown, Cancel, Close, Tick, OtherProcessPush, OtherProcessPop, vars, repoVars,
      workerVars
  <2>2. QED
    BY <2>1, UnwrittenSeen
<1>3. QED
  BY <1>1, <1>2

\* What a step of the service may be to the ads and to the workers that have
\* them.
LEMMA NextSeen ==
    ASSUME PipelineInv, [Next]_vars
    PROVE  \/ AllSeenSame /\ UNCHANGED <<wpc, wid>>
           \/ \E s \in Submitters : (SubmitAd(s) \/ Enqueue(s)) /\ UNCHANGED <<wpc, wid>>
           \/ \E w \in Workers :
                /\ OthersStand(w)
                /\ KeepsAd(w) \/ ClaimsAd(w) \/ DropsAd(w) \/ FinishesAd(w) \/ DeliversAd(w)
<1>1. ASSUME NEW w \in Workers, processLoop(w)
      PROVE  /\ OthersStand(w)
             /\ KeepsAd(w) \/ ClaimsAd(w) \/ DropsAd(w) \/ FinishesAd(w) \/ DeliversAd(w)
  <2>1. Dequeue(w) \/ Complete(w) \/ LoopHead(w) \/ ProcessAdInterrupted(w)
    BY <1>1 DEF processLoop
  <2>2. QED
    BY <2>1, WorkersStandApart, DequeueSeen, CompleteSeen, LoopSeen
<1>2. ASSUME NEW s \in Submitters, SubmitAd(s) \/ Enqueue(s)
      PROVE  UNCHANGED <<wpc, wid>>
  BY <1>2 DEF SubmitAd, Enqueue, EnqueueAdmit, EnqueueUpdate, EnqueuePush, workerVars
<1>3. QED
  BY <1>1, <1>2, BackgroundSeen DEF Next

\* Every step of the service is a step of the life cycle or a stutter.
LEMMA NextRefines ==
    ASSUME PipelineInv, [Next]_vars
    PROVE  [Lifecycle!LifecycleNext]_(Lifecycle!lifecycleVars)
<1>1. ASSUME AllSeenSame, UNCHANGED <<wpc, wid>>
      PROVE  UNCHANGED Lifecycle!lifecycleVars
  BY <1>1, SeenStutter DEF InHand
<1>2. QED
  BY <1>1, NextSeen, RequestRefines, WorkerRefines

\* An empty store in nobody's hands is where the life cycle begins.
LEMMA InitRefines == Init => Lifecycle!LifecycleInit
<1> SUFFICES ASSUME Init
             PROVE  Lifecycle!LifecycleInit
  OBVIOUS
<1>1. NoAd.status = "absent" /\ NoAd.analysed = FALSE
  BY DEF NoAd, NewAd
<1>2. \A a \in Ads : ads[a] = NoAd
  BY DEF Init
<1>3. \A a \in Ads : \A w \in Workers : ~Holds(w, a)
  BY DEF Init, Holds, HoldingSteps
<1>4. QED
  BY <1>1, <1>2, <1>3 DEF Lifecycle!LifecycleInit

\* For every value of the constants the service implements the life cycle: no
\* goroutine takes an ad back to an earlier status, claims an ad that someone
\* has, or overwrites an analysis, whatever the interleaving of requests,
\* workers, maintenance, shutdown and lost cache calls.
THEOREM ImplementsLifecycle == Spec => RefinesLifecycle
<1>1. PipelineInv /\ [Next]_vars => [Lifecycle!LifecycleNext]_(Lifecycle!lifecycleVars)
  BY NextRefines
<1>2. QED
  BY <1>1, InitRefines, InvariantCorrect, PTL DEF Spec, RefinesLifecycle, Lifecycle!LifecycleSpec

-----------------------------------------------------------------------------
(* The analysis of a completed ad.                                         *)

\* A completed ad whose analysis is still to come is in the hands of a worker
\* between the status update and the Update of Complete.
HalfInv ==
    \A a \in Ads :
        ads[a].status = "completed" /\ ~ads[a].analysed =>
            \E w \in Workers : wpc[w] \in HalfSteps /\ wid[w] = a

\* A request's step touches no completed ad.
LEMMA RequestKeepsCompleted ==
    ASSUME PipelineInv, NEW s \in Submitters, SubmitAd(s) \/ Enqueue(s), NEW a \in Ads,
           ads'[a].status = "completed"
    PROVE  SameSeen(a)
BY SubmitSeen, EnqueueSeen DEF Becomes, OthersSeenSame, AllSeenSame

\* Every step keeps it: Complete's own steps pass the ad on, and nobody else
\* completes one.
LEMMA HalfStep ==
    ASSUME PipelineInv, HalfInv, [Next]_vars
    PROVE  HalfInv'
<1> SUFFICES ASSUME NEW a \in Ads, ads'[a].status = "completed", ~ads'[a].analysed
             PROVE  \E w \in Workers : wpc'[w] \in HalfSteps /\ wid'[w] = a
  BY DEF HalfInv
<1>1. ASSUME SameSeen(a)
      PROVE  \E w \in Workers : wpc[w] \in HalfSteps /\ wid[w] = a
  BY <1>1 DEF HalfInv, SameSeen
<1>2. ASSUME NEW w \in Workers, OthersStand(w), SameSeen(a),
             wpc[w] \in HalfSteps /\ wid[w] = a => wpc'[w] \in HalfSteps /\ wid'[w] = a
      PROVE  \E v \in Workers : wpc'[v] \in HalfSteps /\ wid'[v] = a
  BY <1>1, <1>2 DEF OthersStand
<1>3. CASE AllSeenSame /\ UNCHANGED <<wpc, wid>>
  BY <1>1, <1>3 DEF AllSeenSame
<1>4. CASE \E s \in Submitters : (SubmitAd(s) \/ Enqueue(s)) /\ UNCHANGED <<wpc, wid>>
  BY <1>1, <1>4, RequestKeepsCompleted
<1>5. ASSUME NEW w \in Workers, OthersStand(w), KeepsAd(w)
      PROVE  \E v \in Workers : wpc'[v] \in HalfSteps /\ wid'[v] = a
  BY <1>2, <1>5 DEF KeepsAd, AllSeenSame, InHand, HalfSteps, HoldingSteps
<1>6. ASSUME NEW w \in Workers, OthersStand(w), ClaimsAd(w)
      PROVE  \E v \in Workers : wpc'[v] \in HalfSteps /\ wid'[v] = a
  BY <1>2, <1>6 DEF ClaimsAd, Becomes, OthersSeenSame, HalfSteps
<1>7. ASSUME NEW w \in Workers, OthersStand(w), DropsAd(w)
      PROVE  \E v \in Workers : wpc'[v] \in HalfSteps /\ wid'[v] = a
  BY <1>2, <1>7 DEF DropsAd, AllSeenSame, HalfSteps
<1>8. ASSUME NEW w \in Workers, OthersStand(w), FinishesAd(w)
      PROVE  \E v \in Workers : wpc'[v] \in HalfSteps /\ wid'[v] = a
  BY <1>2, <1>8 DEF FinishesAd, Becomes, OthersSeenSame, HalfSteps
<1>9. ASSUME NEW w \in Workers, OthersStand(w), DeliversAd(w)
      PROVE  \E v \in Workers : wpc'[v] \in HalfSteps /\ wid'[v] = a
  BY <1>2, <1>9 DEF DeliversAd, OthersSeenSame, HalfSteps
<1>10. QED
  BY <1>3, <1>4, <1>5, <1>6, <1>7, <1>8, <1>9, NextSeen

\* For every value of the constants, a client that sees a completed ad without
\* its analysis sees it while a worker is about to store that analysis; it is
\* never lost, not even when workers are stopped.
THEOREM CompletedIsDelivered == Spec => []HalfInv
<1>1. Init => HalfInv
  <2>1. NoAd.status = "absent"
    BY DEF NoAd
  <2>2. QED
    BY <2>1 DEF Init, HalfInv
<1>2. PipelineInv /\ HalfInv /\ [Next]_vars => HalfInv'
  BY HalfStep
<1>3. QED
  BY <1>1, <1>2, InvariantCorrect, PTL DEF Spec

\* Who may change what: the phases move by the shutdown sequence, the clock by
\* Tick, the stopped workers by StopWorker and the locks by the workers.
LEMMA StepScope ==
    ASSUME [Next]_vars
    PROVE  /\ UNCHANGED phase \/ \E i \in Instances : BeginShutdown(i) \/ Cancel(i) \/ Close(i)
           /\ UNCHANGED now \/ Tick
           /\ UNCHANGED stopped \/ \E w \in Workers : StopWorker(w)
           /\ UNCHANGED locks \/ \E w \in Workers : Dequeue(w) \/ Complete(w)
<1>1. ASSUME NEW w \in Workers, Dequeue(w) \/ Complete(w)
      PROVE  UNCHANGED <<phase, now>>
  <2>1. othersUnchanged
    BY <1>1 DEF Dequeue, DequeueClosed, DequeuePop, DequeuePopMiss, DequeueGet, DequeueFind,
      DequeueLock, DequeueLockDenied, DequeueClaim, DequeueReget, DequeueAssign, DequeueRelease,
      DequeueUnwind, Complete, CompleteLock, CompleteStatus, CompleteGet, CompleteUpdate,
      CompleteRelease
  <2>2. QED
    BY <2>1 DEF othersUnchanged
<1>2. ASSUME NEW w \in Workers, LoopHead(w) \/ ProcessAdInterrupted(w)
      PROVE  UNCHANGED <<phase, now, stopped, locks>>
  BY <1>2 DEF LoopHead, ProcessAdInterrupted, othersUnchanged, repoVars
<1>3. ASSUME NEW w \in Workers, StopWorker(w)
      PROVE  UNCHANGED <<phase, now, locks>>
  BY <1>3 DEF StopWorker, repoVars
<1>4. ASSUME NEW s \in Submitters, SubmitAd(s)
      PROVE  UNCHANGED <<phase, now, stopped, locks>>
  BY <1>4 DEF SubmitAd
<1>5. ASSUME NEW s \in Submitters, Enqueue(s)
      PROVE  UNCHANGED <<phase, now, locks>>
  BY <1>5 DEF Enqueue, EnqueueAdmit, EnqueueUpdate, EnqueuePush, repoVars
<1>6. ASSUME NEW i \in Instances, Maintenance(i)
      PROVE  UNCHANGED <<phase, now, locks>>
  BY <1>6 DEF outsideMaintenance, Maintenance, MaintenanceExit, MaintenanceScan, MaintenanceDone,
    PriorityItem, PriorityGet, PriorityUpdate, PriorityPush, RequeueItem
<1>7. ASSUME NEW i \in Instances, BeginShutdown(i) \/ Cancel(i) \/ Close(i)
      PROVE  UNCHANGED <<now, locks>>
  BY <1>7 DEF BeginShutdown, Cancel, Close, repoVars
<1>8. ASSUME NEW i \in Instances, BeginShutdown(i) \/ Cancel(i)
      PROVE  UNCHANGED stopped
  BY <1>8 DEF BeginShutdown, Cancel
<1>9. Tick => UNCHANGED <<phase, stopped, locks>>
  BY DEF Tick, repoVars
<1>10. OtherProcessPush \/ OtherProcessPop \/ UNCHANGED vars => UNCHANGED <<phase, now, stopped, locks>>
  BY DEF OtherProcessPush, OtherProcessPop, vars, repoVars
<1>11. QED
  BY <1>1, <1>2, <1>3, <1>4, <1>5, <1>6, <1>7, <1>8, <1>9, <1>10 DEF Next, processLoop, queueOnly

\* All goroutines of the process share one queue, as in cmd/server.go.
OneQueue == \A i, j \in Instances : i = j

\* Close waits for every Complete of its own queue, so with one queue it finds
\* none of them half way.
LEMMA CloseFinds ==
    ASSUME OneQueue, PipelineInv, HalfInv, [Next]_vars, NEW i \in Instances, ~closed(i), closed(i)'
    PROVE  \A a \in WithStatus("completed") : ads[a].analysed
<1>1. phase \in [Instances -> Phases]
  BY DEF PipelineInv, TypeOK, ProcessTypeOK
<1>2. PICK j \in Instances : Close(j)
  <2>1. ASSUME UNCHANGED phase
        PROVE  FALSE
    BY <2>1 DEF closed
  <2>2. ASSUME NEW j \in Instances, BeginShutdown(j) \/ Cancel(j)
        PROVE  FALSE
    BY <1>1, <2>2 DEF BeginShutdown, Cancel, closed
  <2>3. QED
    BY <2>1, <2>2, StepScope
<1>3. \A w \in Workers : ~InsideComplete(w)
  <2>1. \A w \in Workers : InstanceOf[w] \in Instances
    BY QueueAssumption
  <2>2. QED
    BY <1>2, <2>1 DEF OneQueue, Close
<1>4. QED
  BY <1>3 DEF HalfInv, WithStatus, InsideComplete, HalfSteps

\* In a process with one queue, whatever the number of workers and requests,
\* the exit of the process separates no ad from its analysis.
THEOREM CloseWaitsForAnalyses ==
    ASSUME OneQueue
    PROVE  Spec => CloseFindsNoHalfComplete
<1>1. PipelineInv /\ HalfInv /\ [Next]_vars =>
        [\A i \in Instances : ~closed(i) /\ closed(i)' =>
            \A a \in WithStatus("completed") : ads[a].analysed]_vars
  BY CloseFinds
<1>2. QED
  BY <1>1, InvariantCorrect, CompletedIsDelivered, PTL DEF Spec, CloseFindsNoHalfComplete

=============================================================================
