----------------------------- MODULE LockProofs -----------------------------
(***************************************************************************)
(* What the locks of the repository are worth, proved for every value of   *)
(* the constants: no lock is forgotten, and a Complete gives an analysis   *)
(* up only to a Dequeue of another queue.  With one queue a claimed ad is  *)
(* never given up at all, except by a worker told to stop.                 *)
(***************************************************************************)
EXTENDS LifecycleProofs, SequenceTheorems

\* The ads whose lock a worker will release when its calls of Dequeue return.
Deferred(w) == {wdefers[w][k] : k \in DOMAIN wdefers[w]}

\* The steps at which a worker works under the lock of its ad.
UnderLock == {"cas", "release", "crelease"} \union HoldingSteps

\* Between the lock of Dequeue and the assignment.
ClaimSteps == {"cas", "reget", "assign"}

\* The faster path has deferred the release of its lock, deferred releases
\* are pending only inside Dequeue, and Complete releases completed ads.
DeferInv ==
    \A w \in Workers :
        /\ wpc[w] \in ClaimSteps /\ ~wslow[w] => wid[w] \in Deferred(w)
        /\ wdefers[w] # <<>> => InsideDequeue(w)
        /\ wpc[w] = "crelease" => ads[wid[w]].status = "completed"

\* The lock of a has a worker of its owner that still has to release it.
HasReleaser(a) == \E w \in Workers : InstanceOf[w] = locks[a].owner /\ a \in LockedBy(w)

\* Its worker gave a up.
Abandoned(a) == ads[a].status = "processing" /\ \A w \in Workers : ~Holds(w, a)

\* A worker of the lock's owner was told to stop.
OwnerStopped(a) == \E w \in Workers : InstanceOf[w] = locks[a].owner /\ ToldToStop(w)

LockInv ==
    \A a \in Ads :
        locks[a] # NoLock =>
            /\ HasReleaser(a) \/ (Abandoned(a) /\ OwnerStopped(a))
            /\ locks[a].owner \in Instances

-----------------------------------------------------------------------------
(* What a step of a worker is to the locks.                                *)

TakesLock(w) ==
    \E id \in Ads :
        /\ AcquireLockOK(id, InstanceOf[w])
        /\ AcquireLock(id, InstanceOf[w])
        /\ id \in LockedBy(w)'
        /\ LockedBy(w) \subseteq LockedBy(w)'
        /\ wpc'[w] \in ClaimSteps => id = wid'[w]

FreesLock(w) ==
    /\ \E id \in Ads :
        /\ ReleaseLock(id, InstanceOf[w])
        /\ LockedBy(w) \subseteq LockedBy(w)' \union {id}
    /\ wpc'[w] \notin ClaimSteps

LeavesLocks(w) ==
    /\ UNCHANGED locks
    /\ LockedBy(w) \subseteq LockedBy(w)'
    /\ wpc'[w] \in ClaimSteps => wpc[w] \in ClaimSteps /\ wid'[w] = wid[w]

LosesLock(w) ==
    /\ UNCHANGED locks
    /\ DropsAd(w)
    /\ LockedBy(w) \subseteq LockedBy(w)' \union {wid[w]}

\* A worker's lock is that of a deferred release or of the ad at hand.
LEMMA LockedByMembers ==
    ASSUME NEW w \in Workers, NEW a
    PROVE  /\ a \in LockedBy(w) <=> a \in Deferred(w) \/ (wpc[w] \in UnderLock /\ a = wid[w])
           /\ a \in LockedBy(w)' <=> a \in Deferred(w)' \/ (wpc'[w] \in UnderLock /\ a = wid'[w])
BY DEF LockedBy, Deferred, UnderLock

\* The last element of a sequence and the rest.
LEMMA FrontFacts ==
    ASSUME NEW S, NEW s \in Seq(S), s # <<>>
    PROVE  /\ s[Len(s)] \in S
           /\ Len(SubSeq(s, 1, Len(s) - 1)) = Len(s) - 1
           /\ Len(s) = 1 => SubSeq(s, 1, Len(s) - 1) = <<>>
           /\ \A k \in DOMAIN s :
                \/ k = Len(s)
                \/ /\ k \in DOMAIN SubSeq(s, 1, Len(s) - 1)
                   /\ SubSeq(s, 1, Len(s) - 1)[k] = s[k]
<1> DEFINE front == SubSeq(s, 1, Len(s) - 1)
<1>1. Len(s) \in Nat \ {0} /\ s[Len(s)] \in S /\ DOMAIN s = 1 .. Len(s)
  OBVIOUS
<1>2. front = [k \in 1 .. Len(s) - 1 |-> s[k]]
  BY <1>1
<1>3. front \in Seq(S) /\ Len(front) = Len(s) - 1 /\ DOMAIN front = 1 .. Len(s) - 1
  BY <1>1, <1>2
<1>4. \A k \in 1 .. Len(s) - 1 : front[k] = s[k]
  BY <1>1, <1>2
<1>5. Len(front) = 0 => front = <<>>
  BY <1>3, EmptySeq
<1> HIDE DEF front
<1>6. /\ s[Len(s)] \in S /\ Len(front) = Len(s) - 1 /\ (Len(s) = 1 => front = <<>>)
      /\ \A k \in DOMAIN s : k = Len(s) \/ (k \in DOMAIN front /\ front[k] = s[k])
  BY <1>1, <1>3, <1>4, <1>5
<1>7. QED
  BY <1>6 DEF front

\* Appending adds one element.
LEMMA AppendFacts ==
    ASSUME NEW S, NEW s \in Seq(S), NEW x \in S
    PROVE  /\ Append(s, x) # <<>>
           /\ Len(s) + 1 \in DOMAIN Append(s, x)
           /\ Append(s, x)[Len(s) + 1] = x
           /\ \A k \in DOMAIN s : k \in DOMAIN Append(s, x) /\ Append(s, x)[k] = s[k]
OBVIOUS

\* A new deferred release joins the ones that wait.
LEMMA DeferOne ==
    ASSUME WorkerTypeOK, NEW w \in Workers, NEW x \in Ads,
           wdefers' = [wdefers EXCEPT ![w] = Append(wdefers[w], x)]
    PROVE  Deferred(w) \subseteq Deferred(w)' /\ x \in Deferred(w)'
<1>1. wdefers[w] \in Seq(Ads) /\ wdefers'[w] = Append(wdefers[w], x)
  BY DEF WorkerTypeOK
<1>2. QED
  BY <1>1, AppendFacts DEF Deferred

\* A deferred release that runs is no longer waiting; the others are.
LEMMA RunOne ==
    ASSUME WorkerTypeOK, NEW w \in Workers, wdefers[w] # <<>>,
           wdefers' = [wdefers EXCEPT ![w] = SubSeq(wdefers[w], 1, Len(wdefers[w]) - 1)]
    PROVE  /\ wdefers[w][Len(wdefers[w])] \in Ads
           /\ Deferred(w) \subseteq Deferred(w)' \union {wdefers[w][Len(wdefers[w])]}
           /\ Len(wdefers[w]) \in Nat \ {0}
           /\ Len(wdefers[w]) = 1 => wdefers'[w] = <<>>
<1>1. /\ wdefers[w] \in Seq(Ads)
      /\ wdefers'[w] = SubSeq(wdefers[w], 1, Len(wdefers[w]) - 1)
  BY DEF WorkerTypeOK
<1>2. QED
  BY <1>1, FrontFacts DEF Deferred

\* A step that takes and frees nothing leaves every lock with its worker, as
\* long as the ad at hand is kept or its release is deferred.
LEMMA QuietLocks ==
    ASSUME PipelineInv, NEW w \in Workers, UNCHANGED <<locks, wdefers>>, NEW step, goto(w, step),
           \/ wpc[w] \notin UnderLock
           \/ step \in UnderLock /\ wid'[w] = wid[w]
           \/ wid[w] \in Deferred(w),
           step \in ClaimSteps => wpc[w] \in ClaimSteps /\ wid'[w] = wid[w]
    PROVE  LeavesLocks(w)
<1>1. wpc'[w] = step
  BY DEF PipelineInv, TypeOK, WorkerTypeOK, goto
<1>2. Deferred(w)' = Deferred(w)
  BY DEF Deferred
<1>3. \A a \in LockedBy(w) : a \in LockedBy(w)'
  BY <1>1, <1>2, LockedByMembers
<1>4. QED
  BY <1>1, <1>3 DEF LeavesLocks

\* The Update of Dequeue meets no conflict, so Dequeue returns the ad.
LEMMA AssignSucceeds ==
    ASSUME PipelineInv, NEW w \in Workers, DequeueAssign(w)
    PROVE  returnAd(w)
<1> DEFINE assigned == IncrementAttempts(AssignWorker(wad[w], InstanceOf[w]))
<1>1. wpc[w] = "assign" /\ wad[w] \in AdRecord
  BY DEF DequeueAssign, PipelineInv, TypeOK, WorkerTypeOK
<1>2. assigned.version = wad[w].version
  BY <1>1 DEF IncrementAttempts, AssignWorker, AdRecord
<1> HIDE DEF assigned
<1>3. UpdateOK(wid[w], assigned)
  BY <1>1, <1>2 DEF PipelineInv, WorkerInv, UpdateOK
<1>4. QED
  BY <1>3 DEF DequeueAssign, assigned

\* Dequeue takes the lock it works under, frees the ones it answers for, and
\* loses none.
LEMMA DequeueLocks ==
    ASSUME PipelineInv, DeferInv, NEW w \in Workers, Dequeue(w)
    PROVE  TakesLock(w) \/ FreesLock(w) \/ LeavesLocks(w)
<1>0. /\ WorkerTypeOK /\ wpc \in [Workers -> WorkerSteps]
      /\ wpc[w] \in IdSteps => wid[w] \in Ads
      /\ locks \in [Ads -> LockInfo]
  BY DEF PipelineInv, TypeOK, WorkerTypeOK, RepositoryTypeOK
<1>a. WorkerInv(w)
  BY DEF PipelineInv
<1>b. ASSUME UNCHANGED <<locks, wdefers>>, wpc[w] \notin UnderLock \/ wid[w] \in Deferred(w),
             returnErr(w) \/ recurse(w)
      PROVE  LeavesLocks(w)
  <2>1. PICK step \in {"loop", "returnErr", "dequeue"} : goto(w, step)
    BY <1>b DEF returnErr, recurse
  <2>2. QED
    BY <1>b, <2>1, QuietLocks DEF ClaimSteps
<1> USE DEF UnderLock, ClaimSteps, HoldingSteps
<1>1. CASE DequeueClosed(w)
  BY <1>1, <1>b DEF DequeueClosed, repoVars
<1>2. CASE DequeuePop(w)
  BY <1>2, QuietLocks DEF DequeuePop, repoVars
<1>3. CASE DequeuePopMiss(w)
  BY <1>3, QuietLocks DEF DequeuePopMiss, repoVars
<1>4. CASE DequeueGet(w)
  BY <1>4, <1>b, QuietLocks DEF DequeueGet, repoVars
<1>5. CASE DequeueFind(w)
  BY <1>5, <1>b, QuietLocks DEF DequeueFind, repoVars
<1>6. CASE DequeueLock(w)
  <2>1. /\ wpc[w] = "lock" /\ wid[w] \in Ads /\ wpc'[w] = "cas" /\ wid' = wid
        /\ AcquireLockOK(wid[w], InstanceOf[w]) /\ AcquireLock(wid[w], InstanceOf[w])
    BY <1>0, <1>6 DEF DequeueLock, goto, IdSteps, WorkerSteps
  <2>2. Deferred(w) \subseteq Deferred(w)'
    <3>1. CASE UNCHANGED wdefers
      BY <3>1 DEF Deferred
    <3>2. CASE wdefers' = [wdefers EXCEPT ![w] = Append(wdefers[w], wid[w])]
      BY <1>0, <2>1, <3>2, DeferOne
    <3>3. QED
      BY <1>6, <3>1, <3>2 DEF DequeueLock
  <2>3. wid[w] \in LockedBy(w)' /\ \A a \in LockedBy(w) : a \in LockedBy(w)'
    BY <2>1, <2>2, LockedByMembers
  <2>4. QED
    BY <2>1, <2>3 DEF TakesLock
<1>7. CASE DequeueLockDenied(w)
  BY <1>7, <1>b DEF DequeueLockDenied, repoVars
<1>8. CASE DequeueClaim(w)
  <2>0. wpc[w] = "cas" /\ UNCHANGED <<locks, wdefers>>
    BY <1>8 DEF DequeueClaim
  <2>1. CASE recurse(w) /\ ~wslow[w]
    BY <1>b, <2>0, <2>1 DEF DeferInv
  <2>2. CASE goto(w, "release") /\ UNCHANGED wid
    BY <2>0, <2>2, QuietLocks
  <2>3. CASE goto(w, "reget") /\ UNCHANGED wid
    BY <2>0, <2>3, QuietLocks
  <2>4. QED
    BY <1>8, <2>1, <2>2, <2>3 DEF DequeueClaim
<1>9. CASE DequeueReget(w)
  BY <1>9, QuietLocks DEF DequeueReget, repoVars
<1>10. CASE DequeueAssign(w)
  <2>1. wpc[w] = "assign" /\ UNCHANGED <<locks, wdefers>>
    BY <1>10 DEF DequeueAssign
  <2>2. returnAd(w)
    BY <1>10, <2>1, AssignSucceeds
  <2>3. PICK step \in {"work", "returnAd"} : goto(w, step)
    BY <2>2 DEF returnAd
  <2>4. QED
    BY <2>1, <2>2, <2>3, QuietLocks DEF returnAd
<1>11. CASE DequeueRelease(w)
  <2>1. /\ wpc[w] = "release" /\ wid[w] \in Ads /\ ReleaseLock(wid[w], InstanceOf[w])
        /\ UNCHANGED wdefers /\ wpc'[w] \in {"loop", "returnErr"}
    BY <1>0, <1>11 DEF DequeueRelease, returnErr, goto, IdSteps, WorkerSteps
  <2>2. \A a \in LockedBy(w) : a \in LockedBy(w)' \union {wid[w]}
    BY <2>1, LockedByMembers DEF Deferred
  <2>3. QED
    BY <2>1, <2>2 DEF FreesLock
<1>12. CASE DequeueUnwind(w)
  <2> DEFINE top == wdefers[w][Len(wdefers[w])]
  <2>1. /\ wpc[w] \in {"returnAd", "returnErr"} /\ ReleaseLock(top, InstanceOf[w]) /\ wid' = wid
        /\ wdefers[w] # <<>>
        /\ wdefers' = [wdefers EXCEPT ![w] = SubSeq(wdefers[w], 1, Len(wdefers[w]) - 1)]
    BY <1>12 DEF DequeueUnwind
  <2>2. /\ wpc'[w] \in {"returnAd", "returnErr", "work", "loop"}
        /\ wpc[w] = "returnAd" => wpc'[w] \in {"returnAd", "work"}
        /\ wpc[w] = "returnErr" => wpc'[w] \in {"returnErr", "loop"}
    BY <1>0, <1>12 DEF DequeueUnwind, goto
  <2>3. top \in Ads /\ Deferred(w) \subseteq Deferred(w)' \union {top}
    BY <1>0, <2>1, RunOne
  <2> HIDE DEF top
  <2>4. \A a \in LockedBy(w) : a \in LockedBy(w)' \union {top}
    BY <2>1, <2>2, <2>3, LockedByMembers
  <2>5. QED
    BY <2>1, <2>2, <2>3, <2>4 DEF FreesLock
<1>13. QED
  BY <1>1, <1>2, <1>3, <1>4, <1>5, <1>6, <1>7, <1>8, <1>9, <1>10, <1>11, <1>12 DEF Dequeue

\* Complete takes the lock for its writes and frees it; it loses a lock only
\* when it gives the ad up.
LEMMA CompleteLocks ==
    ASSUME PipelineInv, NEW w \in Workers, Complete(w)
    PROVE  TakesLock(w) \/ FreesLock(w) \/ LeavesLocks(w) \/ LosesLock(w)
<1>0. /\ WorkerTypeOK /\ wpc \in [Workers -> WorkerSteps]
      /\ wpc[w] \in IdSteps => wid[w] \in Ads
  BY DEF PipelineInv, TypeOK, WorkerTypeOK
<1> USE DEF UnderLock, ClaimSteps, HoldingSteps
<1>1. CASE CompleteLock(w)
  <2>0. wpc[w] = "work" /\ wid[w] \in Ads /\ UNCHANGED wdefers /\ UNCHANGED ads
    BY <1>0, <1>1 DEF CompleteLock, IdSteps, WorkerSteps
  <2>1. CASE /\ AcquireLockOK(wid[w], InstanceOf[w]) /\ AcquireLock(wid[w], InstanceOf[w])
             /\ goto(w, "ccas") /\ UNCHANGED wid
    <3>1. wpc'[w] = "ccas"
      BY <1>0, <2>1 DEF goto
    <3>2. wid[w] \in LockedBy(w)' /\ \A a \in LockedBy(w) : a \in LockedBy(w)'
      BY <2>0, <2>1, <3>1, LockedByMembers DEF Deferred
    <3>3. QED
      BY <2>0, <2>1, <3>1, <3>2 DEF TakesLock
  <2>2. CASE ~AcquireLockOK(wid[w], InstanceOf[w]) /\ goto(w, "loop") /\ UNCHANGED locks
    <3>1. wpc'[w] = "loop"
      BY <1>0, <2>2 DEF goto
    <3>2. \A a \in LockedBy(w) : a \in LockedBy(w)' \union {wid[w]}
      BY <2>0, <2>2, <3>1, LockedByMembers DEF Deferred
    <3>3. DropsAd(w)
      BY <2>0, <2>2, <3>1, UnwrittenSeen DEF DropsAd
    <3>4. QED
      BY <2>2, <3>2, <3>3 DEF LosesLock
  <2>3. QED
    BY <1>1, <2>1, <2>2 DEF CompleteLock
<1>2. CASE CompleteStatus(w)
  BY <1>2, QuietLocks DEF CompleteStatus
<1>3. CASE CompleteGet(w)
  BY <1>3, QuietLocks DEF CompleteGet, repoVars
<1>4. CASE CompleteUpdate(w)
  BY <1>4, QuietLocks DEF CompleteUpdate
<1>5. CASE CompleteRelease(w)
  <2>1. /\ wpc[w] = "crelease" /\ wid[w] \in Ads /\ ReleaseLock(wid[w], InstanceOf[w])
        /\ UNCHANGED wdefers /\ wpc'[w] = "loop"
    BY <1>0, <1>5 DEF CompleteRelease, goto, IdSteps, WorkerSteps
  <2>2. \A a \in LockedBy(w) : a \in LockedBy(w)' \union {wid[w]}
    BY <2>1, LockedByMembers DEF Deferred
  <2>3. QED
    BY <2>1, <2>2 DEF FreesLock
<1>6. QED
  BY <1>1, <1>2, <1>3, <1>4, <1>5 DEF Complete

\* The head of processLoop has no lock; an interrupted processAd loses one.
LEMMA LoopLocks ==
    ASSUME PipelineInv, NEW w \in Workers, LoopHead(w) \/ ProcessAdInterrupted(w)
    PROVE  LeavesLocks(w) \/ LosesLock(w)
<1>0. wpc \in [Workers -> WorkerSteps]
  BY DEF PipelineInv, TypeOK, WorkerTypeOK
<1>1. CASE LoopHead(w)
  <2>1. PICK step \in {"exited", "dequeue"} : goto(w, step)
    BY <1>1 DEF LoopHead
  <2>2. QED
    BY <1>1, <2>1, QuietLocks DEF LoopHead, repoVars, UnderLock, HoldingSteps, ClaimSteps
<1>2. CASE ProcessAdInterrupted(w)
  <2>1. /\ wpc[w] = "work" /\ ToldToStop(w) /\ wpc'[w] = "loop" /\ UNCHANGED <<ads, locks, wdefers>>
    BY <1>0, <1>2 DEF ProcessAdInterrupted, goto, repoVars
  <2>2. \A a \in LockedBy(w) : a \in LockedBy(w)' \union {wid[w]}
    BY <2>1, LockedByMembers DEF Deferred
  <2>3. QED
    BY <2>1, <2>2, UnwrittenSeen DEF LosesLock, DropsAd
<1>3. QED
  BY <1>1, <1>2

-----------------------------------------------------------------------------
(* What only moves one way.                                                *)

\* A completed ad stays completed.
LEMMA CompletedStays ==
    ASSUME PipelineInv, [Next]_vars, NEW a \in Ads, ads[a].status = "completed"
    PROVE  ads'[a].status = "completed"
<1>1. CASE AllSeenSame
  BY <1>1 DEF AllSeenSame, SameSeen
<1>2. CASE \E s \in Submitters : SubmitAd(s) \/ Enqueue(s)
  BY <1>2, SubmitSeen, EnqueueSeen DEF AllSeenSame, Becomes, OthersSeenSame, SameSeen
<1>3. CASE \E w \in Workers : ClaimsAd(w) \/ FinishesAd(w) \/ DeliversAd(w)
  BY <1>3 DEF ClaimsAd, FinishesAd, DeliversAd, Becomes, OthersSeenSame, SameSeen
<1>4. QED
  BY <1>1, <1>2, <1>3, NextSeen DEF KeepsAd, DropsAd

\* An abandoned ad stays abandoned: nothing takes it back to the queue.
LEMMA AbandonedStays ==
    ASSUME PipelineInv, [Next]_vars, NEW a \in Ads, Abandoned(a)
    PROVE  Abandoned(a)'
<1> USE DEF Abandoned, Holds
<1>1. CASE AllSeenSame /\ UNCHANGED <<wpc, wid>>
  BY <1>1 DEF AllSeenSame, SameSeen
<1>2. CASE \E s \in Submitters : (SubmitAd(s) \/ Enqueue(s)) /\ UNCHANGED <<wpc, wid>>
  BY <1>2, SubmitSeen, EnqueueSeen DEF AllSeenSame, Becomes, OthersSeenSame, SameSeen
<1>3. ASSUME NEW w \in Workers, OthersStand(w), KeepsAd(w) \/ DropsAd(w)
      PROVE  Abandoned(a)'
  BY <1>3 DEF OthersStand, KeepsAd, DropsAd, AllSeenSame, SameSeen, InHand, HoldingSteps
<1>4. ASSUME NEW w \in Workers, OthersStand(w), ClaimsAd(w) \/ FinishesAd(w) \/ DeliversAd(w)
      PROVE  Abandoned(a)'
  <2>1. wid[w] # a
    BY <1>4 DEF ClaimsAd, FinishesAd, DeliversAd, Becomes, HoldingSteps
  <2>2. SameSeen(a)
    BY <1>4, <2>1 DEF ClaimsAd, FinishesAd, DeliversAd, Becomes, OthersSeenSame
  <2>3. wid'[w] # a \/ wpc'[w] \notin HoldingSteps
    BY <1>4, <2>1 DEF ClaimsAd, FinishesAd, DeliversAd, HoldingSteps
  <2>4. QED
    BY <1>4, <2>2, <2>3 DEF OthersStand, SameSeen
<1>5. QED
  BY <1>1, <1>2, <1>3, <1>4, NextSeen

\* Whoever was told to stop stays told to stop.
LEMMA StoppedStays ==
    ASSUME PipelineInv, [Next]_vars, NEW w \in Workers, ToldToStop(w)
    PROVE  ToldToStop(w)'
<1>1. phase \in [Instances -> Phases] /\ InstanceOf[w] \in Instances
  BY QueueAssumption DEF PipelineInv, TypeOK, ProcessTypeOK
<1>2. cancelled(InstanceOf[w]) => cancelled(InstanceOf[w])'
  BY <1>1, StepScope DEF cancelled, BeginShutdown, Cancel, Close
<1>3. w \in stopped => w \in stopped'
  BY StepScope DEF StopWorker
<1>4. QED
  BY <1>2, <1>3 DEF ToldToStop

-----------------------------------------------------------------------------
(* The bookkeeping of deferred releases.                                   *)

\* A worker's defers and path are its own.
LEMMA DefersApart ==
    ASSUME PipelineInv, NEW w \in Workers,
           Dequeue(w) \/ Complete(w) \/ LoopHead(w) \/ ProcessAdInterrupted(w),
           NEW v \in Workers, v # w
    PROVE  wdefers'[v] = wdefers[v] /\ wslow'[v] = wslow[v]
<1>0. /\ wdefers \in [Workers -> Seq(Ads)] /\ wslow \in [Workers -> BOOLEAN]
  BY DEF PipelineInv, TypeOK, WorkerTypeOK
<1> USE <1>0 DEF forget, returnErr, returnAd, recurse
<1>1. ASSUME DequeueClosed(w) \/ DequeuePop(w) \/ DequeuePopMiss(w) \/ DequeueGet(w) \/ DequeueFind(w)
      PROVE  wdefers'[v] = wdefers[v] /\ wslow'[v] = wslow[v]
  BY <1>1 DEF DequeueClosed, DequeuePop, DequeuePopMiss, DequeueGet, DequeueFind
<1>2. ASSUME DequeueLock(w) \/ DequeueLockDenied(w) \/ DequeueClaim(w) \/ DequeueReget(w)
      PROVE  wdefers'[v] = wdefers[v] /\ wslow'[v] = wslow[v]
  BY <1>2 DEF DequeueLock, DequeueLockDenied, DequeueClaim, DequeueReget
<1>3. ASSUME DequeueAssign(w) \/ DequeueRelease(w) \/ DequeueUnwind(w)
      PROVE  wdefers'[v] = wdefers[v] /\ wslow'[v] = wslow[v]
  BY <1>3 DEF DequeueAssign, DequeueRelease, DequeueUnwind
<1>4. ASSUME Complete(w)
      PROVE  wdefers'[v] = wdefers[v] /\ wslow'[v] = wslow[v]
  BY <1>4 DEF Complete, CompleteLock, CompleteStatus, CompleteGet, CompleteUpdate, CompleteRelease
<1>5. ASSUME LoopHead(w) \/ ProcessAdInterrupted(w)
      PROVE  wdefers'[v] = wdefers[v] /\ wslow'[v] = wslow[v]
  BY <1>5 DEF LoopHead, ProcessAdInterrupted
<1>6. QED
  BY <1>1, <1>2, <1>3, <1>4, <1>5 DEF Dequeue

\* A worker between lock and assignment came through the lock, and kept path
\* and defers since.
LEMMA OwnDeferClaim ==
    ASSUME PipelineInv, DeferInv, NEW w \in Workers,
           Dequeue(w) \/ Complete(w) \/ LoopHead(w) \/ ProcessAdInterrupted(w),
           wpc'[w] \in ClaimSteps, ~wslow'[w]
    PROVE  wid'[w] \in Deferred(w)'
<1>0. /\ WorkerTypeOK /\ wpc \in [Workers -> WorkerSteps] /\ wslow \in [Workers -> BOOLEAN]
      /\ wpc[w] \in IdSteps => wid[w] \in Ads
  BY DEF PipelineInv, TypeOK, WorkerTypeOK
<1> USE DEF ClaimSteps, goto
<1>1. CASE DequeueLock(w)
  <2>1. wid[w] \in Ads /\ wid' = wid /\ wdefers' = [wdefers EXCEPT ![w] = Append(wdefers[w], wid[w])]
    BY <1>0, <1>1 DEF DequeueLock, IdSteps, WorkerSteps
  <2>2. QED
    BY <1>0, <2>1, DeferOne
<1>2. CASE DequeueClaim(w) \/ DequeueReget(w)
  <2>1. wpc[w] \in ClaimSteps /\ UNCHANGED <<wid, wslow, wdefers>>
    BY <1>0, <1>2 DEF DequeueClaim, DequeueReget, recurse
  <2>2. QED
    BY <2>1 DEF DeferInv, Deferred
<1>3. CASE DequeueClosed(w) \/ DequeuePop(w) \/ DequeuePopMiss(w) \/ DequeueGet(w) \/ DequeueFind(w)
  BY <1>0, <1>3 DEF DequeueClosed, DequeuePop, DequeuePopMiss, DequeueGet, DequeueFind, returnErr, recurse
<1>4. CASE DequeueLockDenied(w) \/ DequeueRelease(w) \/ DequeueUnwind(w)
  BY <1>0, <1>4 DEF DequeueLockDenied, DequeueRelease, DequeueUnwind, returnErr, recurse
<1>5. CASE DequeueAssign(w)
  BY <1>0, <1>5, AssignSucceeds DEF returnAd
<1>6. CASE Complete(w)
  BY <1>0, <1>6 DEF Complete, CompleteLock, CompleteStatus, CompleteGet, CompleteUpdate, CompleteRelease
<1>7. CASE LoopHead(w) \/ ProcessAdInterrupted(w)
  BY <1>0, <1>7 DEF LoopHead, ProcessAdInterrupted
<1>8. QED
  BY <1>1, <1>2, <1>3, <1>4, <1>5, <1>6, <1>7 DEF Dequeue

\* The frames of the recursion return until nothing is deferred.
LEMMA UnwindReturns ==
    ASSUME WorkerTypeOK, NEW w \in Workers, DequeueUnwind(w)
    PROVE  wdefers'[w] = <<>> \/ wpc'[w] = wpc[w]
<1> DEFINE n == Len(wdefers[w])
<1>1. /\ wdefers[w] # <<>>
      /\ wdefers' = [wdefers EXCEPT ![w] = SubSeq(wdefers[w], 1, Len(wdefers[w]) - 1)]
  BY DEF DequeueUnwind
<1>2. n \in Nat \ {0} /\ (n = 1 => wdefers'[w] = <<>>)
  BY <1>1, RunOne
<1>3. n > 1 => wpc'[w] = wpc[w]
  <2> DEFINE next == IF n > 1 THEN wpc[w]
                       ELSE IF wpc[w] = "returnAd" THEN "work" ELSE "loop"
  <2>1. wpc' = [wpc EXCEPT ![w] = next]
    BY DEF DequeueUnwind, goto
  <2>2. wpc'[w] = next
    BY <2>1, Zenon DEF WorkerTypeOK
  <2> HIDE DEF n
  <2>3. n > 1 => next = wpc[w]
    OBVIOUS
  <2>4. QED
    BY <2>2, <2>3
<1> HIDE DEF n
<1>4. n = 1 \/ n > 1
  BY <1>2
<1>5. QED
  BY <1>2, <1>3, <1>4

\* Dequeue returns to the loop, or with an ad, once nothing is deferred.
LEMMA OwnDeferInside ==
    ASSUME PipelineInv, DeferInv, NEW w \in Workers,
           Dequeue(w) \/ Complete(w) \/ LoopHead(w) \/ ProcessAdInterrupted(w),
           wdefers'[w] # <<>>
    PROVE  InsideDequeue(w)'
<1>0. WorkerTypeOK /\ wpc \in [Workers -> WorkerSteps] /\ wdefers \in [Workers -> Seq(Ads)]
  BY DEF PipelineInv, TypeOK, WorkerTypeOK
<1> DEFINE Outside == {"loop", "work", "exited", "ccas", "cget", "cupdate", "crelease"}
<1>a. InsideDequeue(w)' <=> wpc'[w] \notin Outside
  BY DEF InsideDequeue, InsideComplete
<1>b. wdefers[w] = <<>> \/ wpc[w] \notin Outside
  BY DEF DeferInv, InsideDequeue, InsideComplete
<1> HIDE DEF Outside
<1>1. CASE DequeueUnwind(w)
  <2>1. wpc'[w] = wpc[w] /\ wpc[w] \in {"returnAd", "returnErr"}
    BY <1>0, <1>1, UnwindReturns DEF DequeueUnwind
  <2>2. QED
    BY <1>a, <2>1 DEF Outside
<1>2. ASSUME UNCHANGED wdefers, returnErr(w) \/ recurse(w) \/ returnAd(w)
      PROVE  wpc'[w] \notin Outside
  BY <1>0, <1>2 DEF returnErr, recurse, returnAd, goto, Outside
<1>3. ASSUME NEW step, step \notin Outside, goto(w, step)
      PROVE  wpc'[w] \notin Outside
  BY <1>0, <1>3 DEF goto
<1>4. CASE DequeueClosed(w) \/ DequeuePop(w) \/ DequeuePopMiss(w) \/ DequeueGet(w) \/ DequeueFind(w)
  <2>1. "get" \notin Outside /\ "find" \notin Outside /\ "lock" \notin Outside
    BY DEF Outside
  <2>2. QED
    BY <1>4, <1>2, <1>3, <1>a, <2>1
      DEF DequeueClosed, DequeuePop, DequeuePopMiss, DequeueGet, DequeueFind
<1>5. CASE DequeueLock(w) \/ DequeueLockDenied(w) \/ DequeueClaim(w) \/ DequeueReget(w)
  <2>1. "cas" \notin Outside /\ "reget" \notin Outside /\ "release" \notin Outside /\ "assign" \notin Outside
    BY DEF Outside
  <2>2. QED
    BY <1>5, <1>2, <1>3, <1>a, <2>1 DEF DequeueLock, DequeueLockDenied, DequeueClaim, DequeueReget
<1>6. CASE DequeueAssign(w) \/ DequeueRelease(w)
  BY <1>6, <1>2, <1>a, AssignSucceeds DEF DequeueAssign, DequeueRelease
<1>7. CASE Complete(w)
  BY <1>7, <1>b DEF Complete, CompleteLock, CompleteStatus, CompleteGet, CompleteUpdate,
    CompleteRelease, Outside
<1>8. CASE LoopHead(w) \/ ProcessAdInterrupted(w)
  BY <1>8, <1>b DEF LoopHead, ProcessAdInterrupted, Outside
<1>9. QED
  BY <1>1, <1>4, <1>5, <1>6, <1>7, <1>8 DEF Dequeue

\* Complete reaches its release by its Update only.
LEMMA OwnRelease ==
    ASSUME PipelineInv, DeferInv, NEW w \in Workers,
           Dequeue(w) \/ Complete(w) \/ LoopHead(w) \/ ProcessAdInterrupted(w),
           wpc'[w] = "crelease"
    PROVE  ads'[wid'[w]].status = "completed"
<1>0. wpc \in [Workers -> WorkerSteps]
  BY DEF PipelineInv, TypeOK, WorkerTypeOK
<1>1. CASE CompleteUpdate(w)
  <2>1. wpc[w] = "cupdate" /\ wid' = wid
    BY <1>1 DEF CompleteUpdate
  <2>2. DeliversAd(w)
    BY <1>1, <2>1, CompleteSeen DEF Complete, KeepsAd, DropsAd, FinishesAd, HalfSteps
  <2>3. QED
    BY <2>1, <2>2 DEF DeliversAd
<1>2. CASE CompleteStatus(w)
  <2>1. wpc[w] = "ccas"
    BY <1>2 DEF CompleteStatus
  <2>2. AtomicStatusUpdateOK(wid[w], wad[w].version, "processing")
    BY <2>1 DEF PipelineInv, WorkerInv, AtomicStatusUpdateOK
  <2>3. QED
    BY <1>0, <1>2, <2>2 DEF CompleteStatus, goto
<1>3. CASE CompleteLock(w) \/ CompleteGet(w) \/ CompleteRelease(w)
  BY <1>0, <1>3 DEF CompleteLock, CompleteGet, CompleteRelease, goto
<1>4. CASE Dequeue(w) \/ LoopHead(w) \/ ProcessAdInterrupted(w)
  <2>1. CASE Dequeue(w)
    BY <1>0, <2>1 DEF Dequeue, DequeueClosed, DequeuePop, DequeuePopMiss, DequeueGet, DequeueFind,
      DequeueLock, DequeueLockDenied, DequeueClaim, DequeueReget, DequeueAssign, DequeueRelease,
      DequeueUnwind, returnErr, recurse, returnAd, goto
  <2>2. QED
    BY <1>0, <1>4, <2>1 DEF LoopHead, ProcessAdInterrupted, goto
<1>5. QED
  BY <1>1, <1>2, <1>3, <1>4 DEF Complete

\* Either some worker takes a step, or workers and locks stay as they are.
LEMMA WorkerScope ==
    ASSUME [Next]_vars
    PROVE  \/ \E w \in Workers : Dequeue(w) \/ Complete(w) \/ LoopHead(w) \/ ProcessAdInterrupted(w)
           \/ UNCHANGED <<locks, wpc, wid, wslow, wdefers>>
<1>1. ASSUME NEW s \in Submitters, SubmitAd(s) \/ Enqueue(s)
      PROVE  UNCHANGED <<locks, wpc, wid, wslow, wdefers>>
  BY <1>1 DEF SubmitAd, Enqueue, EnqueueAdmit, EnqueueUpdate, EnqueuePush, workerVars, repoVars
<1>2. ASSUME NEW i \in Instances, Maintenance(i)
      PROVE  UNCHANGED <<locks, wpc, wid, wslow, wdefers>>
  BY <1>2 DEF outsideMaintenance, Maintenance, MaintenanceExit, MaintenanceScan, MaintenanceDone,
    PriorityItem, PriorityGet, PriorityUpdate, PriorityPush, RequeueItem, workerVars
<1>3. ASSUME NEW w \in Workers, StopWorker(w)
      PROVE  UNCHANGED <<locks, wpc, wid, wslow, wdefers>>
  BY <1>3 DEF StopWorker, workerVars, repoVars
<1>4. ASSUME NEW i \in Instances, BeginShutdown(i) \/ Cancel(i) \/ Close(i)
      PROVE  UNCHANGED <<locks, wpc, wid, wslow, wdefers>>
  BY <1>4 DEF BeginShutdown, Cancel, Close, workerVars, repoVars
<1>5. Tick \/ OtherProcessPush \/ OtherProcessPop \/ UNCHANGED vars => UNCHANGED <<locks, wpc, wid, wslow, wdefers>>
  BY DEF Tick, OtherProcessPush, OtherProcessPop, vars, workerVars, repoVars
<1>6. QED
  BY <1>1, <1>2, <1>3, <1>4, <1>5 DEF Next, processLoop

\* Every step keeps the bookkeeping of deferred releases in order.
LEMMA DeferStep ==
    ASSUME PipelineInv, DeferInv, [Next]_vars
    PROVE  DeferInv'
<1> DEFINE Bookkeeping(v) ==
      /\ wpc[v] \in ClaimSteps /\ ~wslow[v] => wid[v] \in Deferred(v)
      /\ wdefers[v] # <<>> => InsideDequeue(v)
      /\ wpc[v] = "crelease" => ads[wid[v]].status = "completed"
<1> SUFFICES ASSUME NEW v \in Workers
             PROVE  Bookkeeping(v)'
  BY DEF DeferInv
<1>1. Bookkeeping(v)
  BY DEF DeferInv
<1>2. wpc[v] = "crelease" => ads'[wid[v]].status = "completed"
  BY <1>1, CompletedStays DEF PipelineInv, TypeOK, WorkerTypeOK, IdSteps, WorkerSteps
<1>3. ASSUME wpc'[v] = wpc[v], wid'[v] = wid[v], wslow'[v] = wslow[v], wdefers'[v] = wdefers[v]
      PROVE  Bookkeeping(v)'
  BY <1>1, <1>2, <1>3 DEF Deferred, InsideDequeue, InsideComplete
<1>4. ASSUME NEW w \in Workers,
             Dequeue(w) \/ Complete(w) \/ LoopHead(w) \/ ProcessAdInterrupted(w)
      PROVE  Bookkeeping(v)'
  <2>1. CASE v # w
    BY <1>3, <1>4, <2>1, WorkersStandApart, DefersApart DEF OthersStand
  <2>2. CASE v = w
    BY <1>4, <2>2, OwnDeferClaim, OwnDeferInside, OwnRelease
  <2>3. QED
    BY <2>1, <2>2
<1>5. QED
  BY <1>3, <1>4, WorkerScope

-----------------------------------------------------------------------------
(* No lock is forgotten.                                                   *)

\* The lock of an ad keeps its worker unless that worker's own step ends it.
LEMMA ReleaserStays ==
    ASSUME PipelineInv, NEW w \in Workers,
           Dequeue(w) \/ Complete(w) \/ LoopHead(w) \/ ProcessAdInterrupted(w),
           NEW a \in Ads, locks'[a] = locks[a], HasReleaser(a),
           InstanceOf[w] = locks[a].owner /\ a \in LockedBy(w) => a \in LockedBy(w)'
    PROVE  HasReleaser(a)'
<1>1. \A v \in Workers : v # w => wpc'[v] = wpc[v] /\ wid'[v] = wid[v] /\ wdefers'[v] = wdefers[v]
  BY WorkersStandApart, DefersApart DEF OthersStand
<1>2. PICK v \in Workers : InstanceOf[v] = locks[a].owner /\ a \in LockedBy(v)
  BY DEF HasReleaser
<1>3. a \in LockedBy(v)'
  <2>1. CASE v = w
    BY <1>2, <2>1
  <2>2. CASE v # w
    <3>1. Deferred(v)' = Deferred(v)
      BY <1>1, <2>2 DEF Deferred
    <3>2. QED
      BY <1>1, <1>2, <2>2, <3>1, LockedByMembers
  <2>3. QED
    BY <2>1, <2>2
<1>4. QED
  BY <1>2, <1>3 DEF HasReleaser

\* A worker gives up an ad whose lock is its own queue's only when told to
\* stop, and then the ad is abandoned.
LEMMA LoserWasStopped ==
    ASSUME PipelineInv, NEW w \in Workers, OthersStand(w), DropsAd(w), NEW a \in Ads, a = wid[w],
           locks[a].owner = InstanceOf[w]
    PROVE  ToldToStop(w) /\ Abandoned(a)'
<1>1. wpc[w] = "work" /\ wpc'[w] = "loop" /\ ads'[a].status = ads[a].status /\ ToldToStop(w)
  BY DEF DropsAd, AcquireLockOK, AllSeenSame, SameSeen
<1>2. ads[a].status = "processing" /\ \A v \in Workers : v # w => ~Holds(v, a)
  BY <1>1 DEF PipelineInv, WorkerInv, ExclusiveClaim, Holds, HoldingSteps
<1>3. ads'[a].status = "processing" /\ \A v \in Workers : ~Holds(v, a)'
  BY <1>1, <1>2 DEF OthersStand, Holds, HoldingSteps
<1>4. QED
  BY <1>1, <1>3 DEF Abandoned

\* Every step leaves every lock with someone to release it.
LEMMA LockStep ==
    ASSUME PipelineInv, DeferInv, LockInv, [Next]_vars
    PROVE  LockInv'
<1>0. /\ locks \in [Ads -> LockInfo] /\ now \in Nat /\ LockTTL \in Nat
      /\ \A w \in Workers : InstanceOf[w] \in Instances
  BY QueueAssumption, LockAssumption DEF PipelineInv, TypeOK, RepositoryTypeOK, ProcessTypeOK
<1> SUFFICES ASSUME NEW a \in Ads, locks'[a] # NoLock
             PROVE  /\ HasReleaser(a)' \/ (Abandoned(a)' /\ OwnerStopped(a)')
                    /\ locks'[a].owner \in Instances
  BY DEF LockInv
<1>1. \A w \in Workers : ToldToStop(w) => ToldToStop(w)'
  BY StoppedStays
<1>2. ASSUME locks'[a] = locks[a], HasReleaser(a) => HasReleaser(a)' \/ (Abandoned(a)' /\ OwnerStopped(a)')
      PROVE  /\ HasReleaser(a)' \/ (Abandoned(a)' /\ OwnerStopped(a)')
             /\ locks'[a].owner \in Instances
  BY <1>1, <1>2, AbandonedStays DEF LockInv, OwnerStopped
<1>3. CASE UNCHANGED <<locks, wpc, wid, wslow, wdefers>>
  <2>1. HasReleaser(a) => HasReleaser(a)'
    BY <1>3 DEF HasReleaser, LockedBy
  <2>2. QED
    BY <1>2, <1>3, <2>1
<1>4. ASSUME NEW w \in Workers,
             Dequeue(w) \/ Complete(w) \/ LoopHead(w) \/ ProcessAdInterrupted(w)
      PROVE  /\ HasReleaser(a)' \/ (Abandoned(a)' /\ OwnerStopped(a)')
             /\ locks'[a].owner \in Instances
  <2>1. CASE TakesLock(w)
    <3>1. PICK id \in Ads :
            /\ AcquireLock(id, InstanceOf[w]) /\ id \in LockedBy(w)' /\ LockedBy(w) \subseteq LockedBy(w)'
      BY <2>1 DEF TakesLock
    <3>2. CASE a # id
      <4>1. locks'[a] = locks[a]
        BY <1>0, <3>1, <3>2 DEF AcquireLock
      <4>2. QED
        BY <1>2, <1>4, <3>1, <4>1, ReleaserStays
    <3>3. CASE a = id
      <4>1. locks'[a] = [owner |-> InstanceOf[w], expiresAt |-> now + LockTTL]
        BY <1>0, <3>1, <3>3 DEF AcquireLock
      <4>2. locks'[a].owner = InstanceOf[w] /\ locks'[a].expiresAt = now + LockTTL
        BY <4>1
      <4>3. QED
        BY <1>0, <3>1, <3>3, <4>2 DEF HasReleaser
    <3>4. QED
      BY <3>2, <3>3
  <2>2. CASE FreesLock(w)
    <3>1. PICK id \in Ads : ReleaseLock(id, InstanceOf[w]) /\ LockedBy(w) \subseteq LockedBy(w)' \union {id}
      BY <2>2 DEF FreesLock
    <3>2. locks'[a] = locks[a] /\ (a = id => locks[a].owner # InstanceOf[w])
      BY <1>0, <3>1 DEF ReleaseLock
    <3>3. QED
      BY <1>2, <1>4, <3>1, <3>2, ReleaserStays
  <2>3. CASE LeavesLocks(w)
    BY <1>2, <1>4, <2>3, ReleaserStays DEF LeavesLocks
  <2>4. CASE LosesLock(w)
    <3>1. locks'[a] = locks[a] /\ DropsAd(w) /\ LockedBy(w) \subseteq LockedBy(w)' \union {wid[w]}
      BY <2>4 DEF LosesLock
    <3>2. CASE a = wid[w] /\ locks[a].owner = InstanceOf[w]
      <4>1. ToldToStop(w) /\ Abandoned(a)'
        BY <1>4, <3>1, <3>2, LoserWasStopped, WorkersStandApart
      <4>2. OwnerStopped(a)'
        BY <1>1, <3>1, <3>2, <4>1 DEF OwnerStopped
      <4>3. QED
        BY <1>2, <3>1, <4>1, <4>2
    <3>3. CASE ~(a = wid[w] /\ locks[a].owner = InstanceOf[w])
      BY <1>2, <1>4, <3>1, <3>3, ReleaserStays
    <3>4. QED
      BY <3>2, <3>3
  <2>5. QED
    BY <1>4, <2>1, <2>2, <2>3, <2>4, DequeueLocks, CompleteLocks, LoopLocks
<1>5. QED
  BY <1>3, <1>4, WorkerScope

\* The locks' inductive invariant holds of every behaviour.
THEOREM LocksAreAccounted == Spec => [](DeferInv /\ LockInv)
<1>1. Init => DeferInv /\ LockInv
  BY DEF Init, DeferInv, LockInv, ClaimSteps
<1>2. PipelineInv /\ (DeferInv /\ LockInv) /\ [Next]_vars => (DeferInv /\ LockInv)'
  BY DeferStep, LockStep
<1>3. QED
  BY <1>1, <1>2, InvariantCorrect, PTL DEF Spec

\* No path of Dequeue or Complete, at any depth of the recursion and whatever
\* expires, leaves a lock behind that nobody is going to release, unless its
\* worker was stopped while it processed the ad.
THEOREM NoLockIsForgotten == Spec => []LockHasHolder
<1>1. LockInv => LockHasHolder
  BY DEF LockInv, LockHasHolder, HasReleaser, Abandoned, OwnerStopped, Held
<1>2. QED
  BY <1>1, LocksAreAccounted, PTL

-----------------------------------------------------------------------------
(* What a claimed ad is given up for.                                      *)

\* A worker goes from its work back to the loop only by dropping the ad.
LEMMA BackToLoopDrops ==
    ASSUME PipelineInv, [Next]_vars, NEW w \in Workers, wpc[w] = "work", wpc'[w] = "loop"
    PROVE  DropsAd(w)
<1>1. PICK v \in Workers :
        /\ OthersStand(v)
        /\ KeepsAd(v) \/ ClaimsAd(v) \/ DropsAd(v) \/ FinishesAd(v) \/ DeliversAd(v)
  BY NextSeen
<1>2. v = w
  BY <1>1 DEF OthersStand
<1>3. QED
  BY <1>1, <1>2 DEF KeepsAd, ClaimsAd, FinishesAd, DeliversAd, InHand, HoldingSteps

\* A lock that keeps Complete out is in the hands of a Dequeue of another
\* queue: whoever else answers for a lock would have to have the ad.
LEMMA LockedOut ==
    ASSUME PipelineInv, DeferInv, LockInv, NEW w \in Workers, wpc[w] = "work",
           ~AcquireLockOK(wid[w], InstanceOf[w])
    PROVE  \E v \in Workers : /\ InstanceOf[v] # InstanceOf[w]
                              /\ InsideDequeue(v)
                              /\ wid[w] \in LockedBy(v)
<1>1. PICK a \in Ads : a = wid[w]
  BY HeldStatus DEF HoldingSteps
<1>2. locks[a] # NoLock /\ locks[a].owner # InstanceOf[w]
  BY <1>1 DEF AcquireLockOK
<1>3. Holds(w, a) /\ ads[a].status = "processing"
  BY <1>1 DEF Holds, HoldingSteps, PipelineInv, WorkerInv
<1>4. PICK v \in Workers : InstanceOf[v] = locks[a].owner /\ a \in LockedBy(v)
  BY <1>2, <1>3 DEF LockInv, HasReleaser, Abandoned
<1>5. v # w
  BY <1>2, <1>4
<1>6. InsideDequeue(v)
  <2>1. CASE a \in Deferred(v)
    <3>1. wdefers[v] \in Seq(Ads)
      BY DEF PipelineInv, TypeOK, WorkerTypeOK
    <3>2. wdefers[v] # <<>>
      BY <2>1, <3>1 DEF Deferred
    <3>3. QED
      BY <3>2 DEF DeferInv
  <2>2. CASE wpc[v] \in UnderLock /\ a = wid[v]
    <3>1. wpc[v] \notin HoldingSteps
      BY <1>3, <1>5, <2>2 DEF PipelineInv, ExclusiveClaim, Holds
    <3>2. wpc[v] # "crelease"
      BY <1>3, <2>2 DEF DeferInv
    <3>3. QED
      BY <2>2, <3>1, <3>2 DEF UnderLock, InsideDequeue, InsideComplete
  <2>3. QED
    BY <1>4, <2>1, <2>2, LockedByMembers
<1>7. QED
  BY <1>1, <1>2, <1>4, <1>6

\* For any number of queues over one repository, an analysis that is given up
\* without anyone being stopped is given up to a Dequeue of another queue.
THEOREM AnalysisLostOnlyToDequeue == Spec => LockedOutOnlyByDequeue
<1>1. PipelineInv /\ (DeferInv /\ LockInv) /\ [Next]_vars =>
        [\A w \in Workers :
            wpc[w] = "work" /\ wpc'[w] = "loop" =>
                \/ ToldToStop(w)
                \/ \E v \in Workers :
                    /\ InstanceOf[v] # InstanceOf[w]
                    /\ InsideDequeue(v)
                    /\ wid[w] \in LockedBy(v)]_vars
  BY BackToLoopDrops, LockedOut DEF DropsAd
<1>2. QED
  BY <1>1, InvariantCorrect, LocksAreAccounted, PTL DEF Spec, LockedOutOnlyByDequeue

\* With one queue its own locks never stand in the way of Complete.
LEMMA OwnQueueNotLockedOut ==
    ASSUME OneQueue, PipelineInv, LockInv, NEW w \in Workers, wpc[w] = "work"
    PROVE  AcquireLockOK(wid[w], InstanceOf[w])
<1>1. wid[w] \in Ads /\ InstanceOf[w] \in Instances
  BY HeldStatus, QueueAssumption DEF HoldingSteps
<1>2. QED
  BY <1>1 DEF LockInv, OneQueue, AcquireLockOK

\* A step that leaves an ad in processing without a worker found it so, or is
\* the step of a worker told to stop that had it.
LEMMA AbandonStep ==
    ASSUME OneQueue, PipelineInv, LockInv, [Next]_vars, NEW a \in Ads,
           ads'[a].status = "processing", ~Held(a)', Held(a) \/ ads[a].status # "processing"
    PROVE  \E w \in Workers : Holds(w, a) /\ ToldToStop(w)
<1>1. SameSeen(a) => \E w \in Workers : Holds(w, a)
  BY DEF SameSeen, Held
<1>2. CASE AllSeenSame /\ UNCHANGED <<wpc, wid>>
  BY <1>1, <1>2 DEF AllSeenSame, Holds, Held
<1>3. CASE \E s \in Submitters : (SubmitAd(s) \/ Enqueue(s)) /\ UNCHANGED <<wpc, wid>>
  <2>1. SameSeen(a)
    BY <1>3, SubmitSeen, EnqueueSeen DEF AllSeenSame, Becomes, OthersSeenSame
  <2>2. QED
    BY <1>1, <1>3, <2>1 DEF Holds, Held
<1>4. ASSUME NEW w \in Workers, OthersStand(w), KeepsAd(w)
      PROVE  Held(a)'
  BY <1>1, <1>4 DEF KeepsAd, OthersStand, AllSeenSame, Holds, InHand, Held
<1>5. ASSUME NEW w \in Workers, OthersStand(w), ClaimsAd(w)
      PROVE  Held(a)'
  BY <1>1, <1>5 DEF ClaimsAd, OthersStand, Becomes, OthersSeenSame, Holds, HoldingSteps, Held
<1>6. ASSUME NEW w \in Workers, OthersStand(w), DropsAd(w)
      PROVE  Holds(w, a) /\ ToldToStop(w)
  <2>1. ToldToStop(w) /\ wpc[w] = "work" /\ SameSeen(a)
    BY <1>6, OwnQueueNotLockedOut DEF DropsAd, AllSeenSame
  <2>2. PICK v \in Workers : Holds(v, a)
    BY <1>1, <2>1
  <2>3. v = w
    BY <1>6, <2>2 DEF OthersStand, Holds, Held
  <2>4. QED
    BY <2>1, <2>2, <2>3
<1>7. ASSUME NEW w \in Workers, OthersStand(w), FinishesAd(w) \/ DeliversAd(w)
      PROVE  Held(a)'
  BY <1>1, <1>7 DEF FinishesAd, DeliversAd, OthersStand, Becomes, OthersSeenSame, Holds, Held
<1>8. QED
  BY <1>2, <1>3, <1>4, <1>5, <1>6, <1>7, NextSeen

\* In a process with one queue, whatever the number of workers, requests and
\* ads, a claimed ad is given up only by a worker that was told to stop while
\* it had the ad.
THEOREM ClaimedIsWorkedOn ==
    ASSUME OneQueue
    PROVE  Spec => OnlyStopsAbandon
<1>1. PipelineInv /\ (DeferInv /\ LockInv) /\ [Next]_vars =>
        [\A a \in Ads :
            (ads[a].status = "processing" /\ ~Held(a))' =>
                \/ ads[a].status = "processing" /\ ~Held(a)
                \/ \E w \in Workers : Holds(w, a) /\ ToldToStop(w)]_vars
  BY AbandonStep
<1>2. QED
  BY <1>1, InvariantCorrect, LocksAreAccounted, PTL DEF Spec, OnlyStopsAbandon

=============================================================================
