--------------------------- MODULE PriorityProofs ---------------------------
(***************************************************************************)
(* The effective priorities, proved for every value of the constants: they *)
(* stay between 1 and the ad's own priority, and, in a process with one    *)
(* queue, waiting costs an ad its place in two named cases only.           *)
(***************************************************************************)
EXTENDS LifecycleProofs

-----------------------------------------------------------------------------
(* The aging formula.                                                      *)

\* A product of natural numbers is one, and grows with its factors.
LEMMA ProductFacts ==
    ASSUME NEW x \in Nat, NEW y \in Nat, x =< y, NEW f \in Nat
    PROVE  x * f \in Nat /\ y * f \in Nat /\ x * f =< y * f
OBVIOUS

\* So is and does a quotient.
LEMMA QuotientFacts ==
    ASSUME NEW x \in Nat, NEW y \in Nat, x =< y, NEW d \in Nat \ {0}
    PROVE  x \div d \in Nat /\ y \div d \in Nat /\ x \div d =< y \div d
OBVIOUS

\* The boost of PriorityBoost is never negative and grows with the waiting.
LEMMA BoostMonotone ==
    ASSUME NEW p \in Nat, NEW t \in Nat, NEW u \in Nat, t =< u
    PROVE  /\ PriorityBoost(p, t) \in Nat
           /\ PriorityBoost(p, u) \in Nat
           /\ PriorityBoost(p, t) =< PriorityBoost(p, u)
<1> DEFINE cap(x) == IF x > MaxWaitTime THEN MaxWaitTime ELSE x
<1>1. /\ MaxWaitTime \in Nat \ {0} /\ AgingNum \in Nat /\ AgingDen \in Nat \ {0}
      /\ MaxWaitTime * AgingDen \in Nat \ {0}
  <2>1. /\ MaxWaitTime \in Nat \ {0} /\ AgingNum \in Nat /\ AgingDen \in Nat \ {0}
    BY AgingAssumption
  <2>2. ASSUME NEW x \in Nat \ {0}, NEW y \in Nat \ {0}
        PROVE  x * y \in Nat \ {0}
    OBVIOUS
  <2>3. QED
    BY <2>1, <2>2
<1>2. cap(t) \in Nat /\ cap(u) \in Nat /\ cap(t) =< cap(u)
  BY <1>1
<1> HIDE DEF cap
<1>3. cap(t) * p \in Nat /\ cap(u) * p \in Nat /\ cap(t) * p =< cap(u) * p
  BY <1>2, ProductFacts
<1>4. p * cap(t) = cap(t) * p /\ p * cap(u) = cap(u) * p
  BY <1>2
<1>5. /\ (p * cap(t)) * AgingNum \in Nat /\ (p * cap(u)) * AgingNum \in Nat
      /\ (p * cap(t)) * AgingNum =< (p * cap(u)) * AgingNum
  BY <1>1, <1>3, <1>4, ProductFacts
<1>6. /\ PriorityBoost(p, t) = ((p * cap(t)) * AgingNum) \div (MaxWaitTime * AgingDen)
      /\ PriorityBoost(p, u) = ((p * cap(u)) * AgingNum) \div (MaxWaitTime * AgingDen)
  BY DEF PriorityBoost, cap
<1>7. QED
  BY <1>1, <1>5, <1>6, QuotientFacts

\* What aging makes of a priority after some waiting.
Aged(p, waiting) ==
    IF p - PriorityBoost(p, waiting) < 1 THEN 1 ELSE p - PriorityBoost(p, waiting)

\* An aged priority stays between 1 and the ad's own, and only falls.
LEMMA AgedFacts ==
    ASSUME NEW p \in Nat, p >= 1, NEW t \in Nat, NEW u \in Nat, t =< u
    PROVE  /\ Aged(p, t) \in 1 .. p
           /\ Aged(p, u) \in 1 .. p
           /\ Aged(p, u) =< Aged(p, t)
<1>1. /\ PriorityBoost(p, t) \in Nat
      /\ PriorityBoost(p, u) \in Nat
      /\ PriorityBoost(p, t) =< PriorityBoost(p, u)
  BY BoostMonotone
<1>2. QED
  BY <1>1 DEF Aged

\* CalculateEffectivePriority of a queued ad is that.
LEMMA EffectiveIsAged ==
    ASSUME NEW ad, ad.status = "queued", ad.queuedAt # Never, NEW t
    PROVE  CalculateEffectivePriority(ad, t) = Aged(ad.priority, t - ad.queuedAt)
BY DEF CalculateEffectivePriority, Aged

-----------------------------------------------------------------------------
(* What a step does to what is stored of an ad: its own priority and its   *)
(* queueing time are set once, its effective priority in four places.      *)

\* The ad keeps its own priority and the time at which it was queued.
SameRank(a) ==
    /\ ads'[a].priority = ads[a].priority
    /\ ads'[a].queuedAt = ads[a].queuedAt

RankKept(a) ==
    /\ SameRank(a)
    /\ ads'[a].status = ads[a].status
    /\ ads'[a].effective = ads[a].effective

\* The ad is in the hands of a worker, or done, after the step.
RankLeft(a) ==
    /\ SameRank(a)
    /\ ads[a].status \in {"queued", "processing", "completed"}
    /\ ads'[a].status \in {"processing", "completed"}

RankSubmitted(a) ==
    /\ ads[a].status = "absent" /\ ads'[a].status = "submitted"
    /\ ads'[a].priority >= 1

RankQueued(a) ==
    /\ ads[a].status = "submitted" /\ ads'[a].status = "queued"
    /\ ads'[a].priority = ads[a].priority
    /\ ads'[a].effective = ads[a].priority
    /\ ads'[a].queuedAt = now

\* The push of the ad's own Enqueue lands, or one of the maintenance loop's
\* writes does.
RankPushed(s, a) ==
    /\ SameRank(a) /\ ads'[a].status = ads[a].status
    /\ spc[s] = "push" /\ sid[s] = a
    /\ ads'[a].effective = sad[s].effective

RankMoved(i, a) ==
    /\ SameRank(a) /\ ads'[a].status = ads[a].status
    /\ mpc[i] \in {"update", "push"} /\ mid[i] = a
    /\ ads'[a].effective = mcopy[i].effective

OthersRankKept(id) == \A a \in Ads : a # id => RankKept(a)

\* A copy with the stored version has the stored priority and queueing time.
LEMMA CheckedRank ==
    ASSUME NEW stored \in AdRecord, NEW copy \in AdRecord, Coherent(stored, copy),
           stored.version = copy.version
    PROVE  copy.priority = stored.priority /\ copy.queuedAt = stored.queuedAt
<1>1. [copy EXCEPT !.effective = 0] = [stored EXCEPT !.effective = 0]
  BY DEF Coherent, SameContent
<1>2. /\ [copy EXCEPT !.effective = 0].priority = copy.priority
      /\ [copy EXCEPT !.effective = 0].queuedAt = copy.queuedAt
      /\ [stored EXCEPT !.effective = 0].priority = stored.priority
      /\ [stored EXCEPT !.effective = 0].queuedAt = stored.queuedAt
  BY DEF AdRecord
<1>3. QED
  BY <1>1, <1>2

\* A store that is not written keeps every rank.
LEMMA UnwrittenRank ==
    ASSUME UNCHANGED ads
    PROVE  \A a \in Ads : RankKept(a)
BY DEF RankKept, SameRank

\* A write to one ad keeps the ranks of the others.
LEMMA OneWriteRank ==
    ASSUME ads \in [Ads -> AdRecord], NEW id \in Ads, NEW ad, ads' = [ads EXCEPT ![id] = ad]
    PROVE  OthersRankKept(id) /\ ads'[id] = ad
BY DEF OthersRankKept, RankKept, SameRank

\* A push sets the effective priority of one ad, or nothing.
LEMMA PushRank ==
    ASSUME ads \in [Ads -> AdRecord], NEW id \in Ads, NEW p \in Nat, PushToQueue(id, p)
    PROVE  /\ OthersRankKept(id)
           /\ \/ RankKept(id)
              \/ SameRank(id) /\ ads'[id].status = ads[id].status /\ ads'[id].effective = p
<1>1. CASE UNCHANGED ads
  BY <1>1, UnwrittenRank DEF OthersRankKept
<1>2. CASE SetEffective(id, p)
  <2> DEFINE ad == [ads[id] EXCEPT !.effective = p]
  <2>1. /\ ad.status = ads[id].status /\ ad.priority = ads[id].priority
        /\ ad.queuedAt = ads[id].queuedAt /\ ad.effective = p
    BY DEF AdRecord
  <2>2. ads' = [ads EXCEPT ![id] = ad]
    BY <1>2 DEF SetEffective
  <2> HIDE DEF ad
  <2>3. OthersRankKept(id) /\ ads'[id] = ad
    BY <2>2, OneWriteRank
  <2>4. QED
    BY <2>1, <2>3 DEF SameRank
<1>3. QED
  BY <1>1, <1>2 DEF PushToQueue

\* SubmitAd gives a new ad its priority, at least 1.
LEMMA SubmitRank ==
    ASSUME PipelineInv, NEW s \in Submitters, SubmitAd(s)
    PROVE  \E a \in Ads : /\ RankSubmitted(a) /\ OthersRankKept(a)
                          /\ sid'[s] = a /\ sad'[s].priority = ads'[a].priority
                          /\ spc'[s] = "admit"
<1>0. /\ ads \in [Ads -> AdRecord] /\ spc \in [Submitters -> EnqueueSteps \union {"idle"}]
      /\ sad \in [Submitters -> AdRecord] /\ sid \in [Submitters -> Ads \union {None}]
  BY DEF PipelineInv, TypeOK, RepositoryTypeOK, SubmitterTypeOK
<1>1. PICK a \in Ads, p \in PriorityInputs :
        /\ ads[a].status = "absent"
        /\ ads' = [ads EXCEPT ![a] = NewAd(p, now)]
        /\ sid' = [sid EXCEPT ![s] = a]
        /\ sad' = [sad EXCEPT ![s] = NewAd(p, now)]
  BY DEF SubmitAd, WithStatus, Save
<1>2. NewAd(p, now).status = "submitted" /\ NewAd(p, now).priority >= 1
  BY PipelineAssumption DEF NewAd, DefaultPriority
<1>3. OthersRankKept(a) /\ ads'[a] = NewAd(p, now)
  BY <1>0, <1>1, OneWriteRank
<1>4. sid'[s] = a /\ sad'[s] = NewAd(p, now) /\ spc'[s] = "admit"
  BY <1>0, <1>1 DEF SubmitAd
<1>5. QED
  BY <1>1, <1>2, <1>3, <1>4 DEF RankSubmitted

\* Enqueue gives the ad its queueing time and its first effective priority in
\* one write; its push may set the effective priority once more.
LEMMA EnqueueRank ==
    ASSUME PipelineInv, NEW s \in Submitters, Enqueue(s)
    PROVE  \/ /\ \A a \in Ads : RankKept(a)
              /\ spc'[s] = "idle"
           \/ /\ \A a \in Ads : RankKept(a)
              /\ spc[s] = "admit" /\ spc'[s] = "update" /\ UNCHANGED <<sid, sad>>
           \/ /\ sid[s] \in Ads /\ RankQueued(sid[s]) /\ OthersRankKept(sid[s])
              /\ spc[s] = "update" /\ spc'[s] = "push" /\ sid'[s] = sid[s]
              /\ sad'[s].priority = sad[s].priority /\ sad'[s].effective = sad[s].priority
           \/ /\ sid[s] \in Ads /\ RankPushed(s, sid[s]) /\ OthersRankKept(sid[s])
              /\ spc'[s] = "idle"
<1>0. /\ ads \in [Ads -> AdRecord] /\ spc \in [Submitters -> EnqueueSteps \union {"idle"}]
      /\ sad \in [Submitters -> AdRecord]
      /\ spc[s] # "idle" => sid[s] \in Ads
      /\ now \in Nat
  BY DEF PipelineInv, TypeOK, RepositoryTypeOK, SubmitterTypeOK, ProcessTypeOK
<1>1. CASE EnqueueAdmit(s)
  BY <1>0, <1>1, UnwrittenRank DEF EnqueueAdmit, EnqueueReturn, repoVars
<1>2. CASE EnqueueUpdate(s)
  <2> DEFINE queued == SetStatus(sad[s], "queued", now)
  <2>1. CASE ~UpdateOK(sid[s], queued)
    BY <1>0, <1>2, <2>1, UnwrittenRank DEF EnqueueUpdate, EnqueueReturn
  <2>2. CASE UpdateOK(sid[s], queued)
    <3>1. /\ sid[s] \in Ads /\ spc[s] = "update" /\ spc' = [spc EXCEPT ![s] = "push"]
          /\ ads' = [ads EXCEPT ![sid[s]] = NextVersion(queued)]
          /\ ads[sid[s]].version = queued.version
          /\ sad' = [sad EXCEPT ![s] = NextVersion(queued)] /\ UNCHANGED sid
      BY <1>0, <1>2, <2>2 DEF EnqueueUpdate, Update, UpdateOK
    <3>2. queued \in AdRecord
      BY <1>0, SetStatusType DEF Statuses
    <3>3. /\ queued.version = sad[s].version /\ queued.priority = sad[s].priority
          /\ queued.status = "queued" /\ queued.effective = sad[s].priority /\ queued.queuedAt = now
      BY <1>0 DEF SetStatus, AdRecord
    <3> HIDE DEF queued
    <3>4. ads[sid[s]].status = "submitted" /\ ads[sid[s]].priority = sad[s].priority
      BY <1>0, <3>1, <3>3, CheckedCopy, CheckedRank DEF PipelineInv, SubmitterInv
    <3>5. OthersRankKept(sid[s]) /\ ads'[sid[s]] = NextVersion(queued)
      BY <1>0, <3>1, OneWriteRank
    <3>6. sad'[s] = NextVersion(queued) /\ spc'[s] = "push" /\ sid'[s] = sid[s]
      BY <1>0, <3>1
    <3>7. /\ NextVersion(queued).status = "queued" /\ NextVersion(queued).priority = sad[s].priority
          /\ NextVersion(queued).effective = sad[s].priority /\ NextVersion(queued).queuedAt = now
      BY <3>2, <3>3, NextVersionFields
    <3>8. QED
      BY <3>1, <3>4, <3>5, <3>6, <3>7 DEF RankQueued
  <2>3. QED
    BY <2>1, <2>2
<1>3. CASE EnqueuePush(s)
  <2>1. spc[s] = "push" /\ sid[s] \in Ads /\ sad[s].effective \in Nat
    BY <1>0, <1>3 DEF EnqueuePush, AdRecord
  <2>2. /\ OthersRankKept(sid[s])
        /\ \/ RankKept(sid[s])
           \/ /\ SameRank(sid[s]) /\ ads'[sid[s]].status = ads[sid[s]].status
              /\ ads'[sid[s]].effective = sad[s].effective
    BY <1>0, <1>3, <2>1, PushRank DEF EnqueuePush
  <2>3. spc'[s] = "idle"
    BY <1>0, <1>3 DEF EnqueuePush, EnqueueReturn
  <2>4. QED
    BY <2>1, <2>2, <2>3 DEF RankPushed, OthersRankKept
<1>4. QED
  BY <1>1, <1>2, <1>3 DEF Enqueue

\* A worker changes no rank of an ad it does not take out of the queue.
LEMMA WorkerRank ==
    ASSUME PipelineInv, NEW w \in Workers,
           Dequeue(w) \/ Complete(w) \/ LoopHead(w) \/ ProcessAdInterrupted(w)
    PROVE  \A a \in Ads : RankKept(a) \/ RankLeft(a)
<1>0. /\ ads \in [Ads -> AdRecord]
      /\ wpc \in [Workers -> WorkerSteps] /\ wad \in [Workers -> AdRecord]
      /\ wpc[w] \in IdSteps => wid[w] \in Ads
  BY DEF PipelineInv, TypeOK, RepositoryTypeOK, WorkerTypeOK
<1>a. WorkerInv(w)
  BY DEF PipelineInv
<1>b. ASSUME NEW id \in Ads, NEW ad, ads' = [ads EXCEPT ![id] = ad],
             ads[id].status \in {"queued", "processing", "completed"},
             ad.status \in {"processing", "completed"},
             ad.priority = ads[id].priority, ad.queuedAt = ads[id].queuedAt
      PROVE  \A a \in Ads : RankKept(a) \/ RankLeft(a)
  <2>1. OthersRankKept(id) /\ ads'[id] = ad
    BY <1>0, <1>b, OneWriteRank
  <2>2. RankLeft(id)
    BY <1>b, <2>1 DEF RankLeft, SameRank
  <2>3. QED
    BY <2>1, <2>2 DEF OthersRankKept
<1>1. CASE UNCHANGED ads
  BY <1>1, UnwrittenRank
<1>2. CASE DequeueClaim(w) /\ ~UNCHANGED ads
  <2>1. /\ wid[w] \in Ads /\ AtomicStatusUpdate(wid[w], "processing")
        /\ ads[wid[w]].status = "queued"
    BY <1>0, <1>2 DEF DequeueClaim, ClaimOK, AtomicStatusUpdateOK, IdSteps, WorkerSteps
  <2>2. ads[wid[w]] \in AdRecord /\ "processing" \in Statuses
    BY <1>0, <2>1 DEF Statuses
  <2>3. QED
    BY <1>b, <2>1, <2>2, StatusFields DEF AtomicStatusUpdate
<1>3. CASE DequeueAssign(w) /\ ~UNCHANGED ads
  <2> DEFINE assigned == IncrementAttempts(AssignWorker(wad[w], InstanceOf[w]))
  <2>1. wpc[w] = "assign" /\ wid[w] \in Ads /\ InstanceOf[w] \in Instances
    BY <1>0, <1>3, QueueAssumption DEF DequeueAssign, IdSteps, WorkerSteps
  <2>2. assigned \in AdRecord
    BY <1>0, <2>1, AssignedType
  <2>3. /\ assigned.status = wad[w].status
        /\ assigned.priority = wad[w].priority /\ assigned.queuedAt = wad[w].queuedAt
    BY <1>0 DEF IncrementAttempts, AssignWorker, AdRecord
  <2>4. ads' = [ads EXCEPT ![wid[w]] = NextVersion(assigned)]
    BY <1>3 DEF DequeueAssign, Update
  <2> HIDE DEF assigned
  <2>5. /\ ads[wid[w]].version = wad[w].version
        /\ ads[wid[w]].status = "processing"
        /\ Coherent(ads[wid[w]], wad[w])
    BY <1>a, <2>1 DEF WorkerInv, CopySteps, IdSteps, WorkerSteps
  <2>6. /\ wad[w].status = "processing" /\ wad[w].priority = ads[wid[w]].priority
        /\ wad[w].queuedAt = ads[wid[w]].queuedAt
    BY <1>0, <2>1, <2>5, CheckedCopy, CheckedRank
  <2>7. QED
    BY <1>b, <2>1, <2>2, <2>3, <2>4, <2>5, <2>6, NextVersionFields
<1>4. CASE CompleteStatus(w) /\ ~UNCHANGED ads
  <2>1. /\ wid[w] \in Ads /\ AtomicStatusUpdate(wid[w], "completed")
        /\ ads[wid[w]].status = "processing"
    BY <1>0, <1>4 DEF CompleteStatus, AtomicStatusUpdateOK, IdSteps, WorkerSteps
  <2>2. ads[wid[w]] \in AdRecord /\ "completed" \in Statuses
    BY <1>0, <2>1 DEF Statuses
  <2>3. QED
    BY <1>b, <2>1, <2>2, StatusFields DEF AtomicStatusUpdate
<1>5. CASE CompleteUpdate(w) /\ ~UNCHANGED ads
  <2> DEFINE done == SetAnalysisResults(wad[w])
  <2>1. wpc[w] = "cupdate" /\ wid[w] \in Ads
    BY <1>0, <1>5 DEF CompleteUpdate, IdSteps, WorkerSteps
  <2>2. done \in AdRecord
    BY <1>0, AnalysedType
  <2>3. /\ done.status = wad[w].status
        /\ done.priority = wad[w].priority /\ done.queuedAt = wad[w].queuedAt
    BY <1>0 DEF SetAnalysisResults, AdRecord
  <2>4. ads' = [ads EXCEPT ![wid[w]] = NextVersion(done)]
    BY <1>5 DEF CompleteUpdate, Update
  <2> HIDE DEF done
  <2>5. /\ ads[wid[w]].version = wad[w].version
        /\ ads[wid[w]].status = "completed"
        /\ Coherent(ads[wid[w]], wad[w])
    BY <1>a, <2>1 DEF WorkerInv, CopySteps, IdSteps, WorkerSteps
  <2>6. /\ wad[w].status = "completed" /\ wad[w].priority = ads[wid[w]].priority
        /\ wad[w].queuedAt = ads[wid[w]].queuedAt
    BY <1>0, <2>1, <2>5, CheckedCopy, CheckedRank
  <2>7. QED
    BY <1>b, <2>1, <2>2, <2>3, <2>4, <2>5, <2>6, NextVersionFields
<1>6. UNCHANGED ads \/ DequeueClaim(w) \/ DequeueAssign(w) \/ CompleteStatus(w) \/ CompleteUpdate(w)
  BY DEF Dequeue, Complete, LoopHead, ProcessAdInterrupted, DequeueClosed, DequeuePop, DequeuePopMiss,
         DequeueGet, DequeueFind, DequeueLock, DequeueLockDenied, DequeueReget, DequeueRelease,
         DequeueUnwind, CompleteLock, CompleteGet, CompleteRelease, repoVars
<1>7. QED
  BY <1>1, <1>2, <1>3, <1>4, <1>5, <1>6

\* The maintenance loop moves the effective priority of the ad it is at, or
\* changes no rank.
LEMMA MaintenanceRank ==
    ASSUME PipelineInv, NEW i \in Instances, Maintenance(i)
    PROVE  \/ \A a \in Ads : RankKept(a)
           \/ mid[i] \in Ads /\ RankMoved(i, mid[i]) /\ OthersRankKept(mid[i])
<1>0. /\ ads \in [Ads -> AdRecord] /\ mcopy \in [Instances -> AdRecord]
      /\ mpc[i] \in {"get", "update", "push"} => mid[i] \in Ads
  BY DEF PipelineInv, TypeOK, RepositoryTypeOK, MaintenanceTypeOK
<1>1. CASE UNCHANGED ads
  BY <1>1, UnwrittenRank
<1>2. CASE PriorityUpdate(i) /\ ~UNCHANGED ads
  <2>1. /\ mpc[i] = "update" /\ mid[i] \in Ads
        /\ ads[mid[i]].version = mcopy[i].version
        /\ ads' = [ads EXCEPT ![mid[i]] = NextVersion(mcopy[i])]
    BY <1>0, <1>2 DEF PriorityUpdate, UpdateOK, Update
  <2>2. Coherent(ads[mid[i]], mcopy[i])
    BY <2>1 DEF PipelineInv, MaintenanceInv
  <2>3. /\ mcopy[i].status = ads[mid[i]].status /\ mcopy[i].priority = ads[mid[i]].priority
        /\ mcopy[i].queuedAt = ads[mid[i]].queuedAt
    BY <1>0, <2>1, <2>2, CheckedCopy, CheckedRank
  <2>4. OthersRankKept(mid[i]) /\ ads'[mid[i]] = NextVersion(mcopy[i])
    BY <1>0, <2>1, OneWriteRank
  <2>5. QED
    BY <1>0, <2>1, <2>3, <2>4, NextVersionFields DEF RankMoved, SameRank
<1>3. CASE PriorityPush(i)
  <2>1. mpc[i] = "push" /\ mid[i] \in Ads /\ mcopy[i].effective \in Nat
    BY <1>0, <1>3 DEF PriorityPush, AdRecord
  <2>2. /\ OthersRankKept(mid[i])
        /\ \/ RankKept(mid[i])
           \/ /\ SameRank(mid[i]) /\ ads'[mid[i]].status = ads[mid[i]].status
              /\ ads'[mid[i]].effective = mcopy[i].effective
    BY <1>0, <1>3, <2>1, PushRank DEF PriorityPush
  <2>3. QED
    BY <2>1, <2>2 DEF RankMoved, OthersRankKept
<1>4. CASE RequeueItem(i)
  <2>1. \A x \in mitems[i] : ~Expired(x)
    BY DEF PipelineInv, MaintenanceInv, Expired
  <2>2. UNCHANGED ads
    BY <1>4, <2>1 DEF RequeueItem, NewestItems
  <2>3. QED
    BY <2>2, UnwrittenRank
<1>5. CASE MaintenanceExit(i) \/ MaintenanceScan(i) \/ MaintenanceDone(i) \/ PriorityItem(i) \/ PriorityGet(i)
  BY <1>5, UnwrittenRank DEF MaintenanceExit, MaintenanceScan, MaintenanceDone, PriorityItem, PriorityGet
<1>6. QED
  BY <1>1, <1>2, <1>3, <1>4, <1>5 DEF Maintenance

\* All that a step may do to the rank of an ad.
RankStep(a) ==
    \/ RankKept(a)
    \/ RankLeft(a)
    \/ RankSubmitted(a)
    \/ RankQueued(a)
    \/ \E s \in Submitters : RankPushed(s, a)
    \/ \E i \in Instances : RankMoved(i, a)

\* Every step of the service is one of these to every ad, and time does not
\* run backwards.
LEMMA NextRank ==
    ASSUME PipelineInv, [Next]_vars
    PROVE  /\ \A a \in Ads : RankStep(a)
           /\ now \in Nat /\ now' \in Nat /\ now =< now'
<1>0. now \in Nat
  BY DEF PipelineInv, TypeOK, ProcessTypeOK
<1>1. ASSUME NEW s \in Submitters, SubmitAd(s)
      PROVE  (\A a \in Ads : RankStep(a)) /\ now' = now
  <2>1. PICK a \in Ads : RankSubmitted(a) /\ OthersRankKept(a)
    BY <1>1, SubmitRank
  <2>2. now' = now
    BY <1>1 DEF SubmitAd
  <2>3. QED
    BY <2>1, <2>2 DEF RankStep, OthersRankKept
<1>2. ASSUME NEW s \in Submitters, Enqueue(s)
      PROVE  (\A a \in Ads : RankStep(a)) /\ now' = now
  <2>1. now' = now
    BY <1>2 DEF Enqueue, EnqueueAdmit, EnqueueUpdate, EnqueuePush
  <2>2. \A a \in Ads : RankKept(a) \/ RankQueued(a) \/ RankPushed(s, a)
    BY <1>2, EnqueueRank DEF OthersRankKept
  <2>3. QED
    BY <2>1, <2>2 DEF RankStep
<1>3. ASSUME NEW w \in Workers, processLoop(w)
      PROVE  (\A a \in Ads : RankStep(a)) /\ now' = now
  <2>1. Dequeue(w) \/ Complete(w) \/ LoopHead(w) \/ ProcessAdInterrupted(w)
    BY <1>3 DEF processLoop
  <2>2. now' = now
    BY <2>1 DEF othersUnchanged, Dequeue, DequeueClosed, DequeuePop, DequeuePopMiss, DequeueGet,
      DequeueFind, DequeueLock, DequeueLockDenied, DequeueClaim, DequeueReget, DequeueAssign,
      DequeueRelease, DequeueUnwind, Complete, CompleteLock, CompleteStatus, CompleteGet,
      CompleteUpdate, CompleteRelease, LoopHead, ProcessAdInterrupted
  <2>3. QED
    BY <2>1, <2>2, WorkerRank DEF RankStep
<1>4. ASSUME NEW i \in Instances, Maintenance(i)
      PROVE  (\A a \in Ads : RankStep(a)) /\ now' = now
  <2>1. now' = now
    BY <1>4 DEF outsideMaintenance, Maintenance, MaintenanceExit, MaintenanceScan, MaintenanceDone,
      PriorityItem, PriorityGet, PriorityUpdate, PriorityPush, RequeueItem
  <2>2. \A a \in Ads : RankKept(a) \/ RankMoved(i, a)
    BY <1>4, MaintenanceRank DEF OthersRankKept
  <2>3. QED
    BY <2>1, <2>2 DEF RankStep
<1>5. ASSUME \/ \E w \in Workers : StopWorker(w)
             \/ \E i \in Instances : BeginShutdown(i) \/ Cancel(i) \/ Close(i)
             \/ OtherProcessPush
             \/ OtherProcessPop
             \/ UNCHANGED vars
             \/ Tick
      PROVE  (\A a \in Ads : RankStep(a)) /\ (now' = now \/ now' = now + 1)
  <2>1. UNCHANGED ads /\ (now' = now \/ now' = now + 1)
    BY <1>5 DEF StopWorker, BeginShutdown, Cancel, Close, OtherProcessPush, OtherProcessPop, Tick, vars, repoVars
  <2>2. QED
    BY <2>1, UnwrittenRank DEF RankStep
<1>6. QED
  BY <1>0, <1>1, <1>2, <1>3, <1>4, <1>5 DEF Next

-----------------------------------------------------------------------------
(* The invariant: what is stored of an ad, and what the copies in Enqueue  *)
(* and in the maintenance loops will write over it.                        *)

Enqueued(a) == ads[a].status \notin {"absent", "submitted"}

\* The effective priority the ad has earned by waiting until now.
AgedNow(a) == Aged(ads[a].priority, now - ads[a].queuedAt)

\* A queued ad is in range, and no more urgent than its waiting has earned it
\* unless it was boosted to the maximum.
StoredPriority(a) ==
    /\ ads[a].priority >= 1
    /\ Enqueued(a) => ads[a].queuedAt \in 0 .. now
    /\ ads[a].status = "queued" =>
        /\ ads[a].effective \in 1 .. ads[a].priority
        /\ ads[a].effective = 1 \/ ads[a].effective >= AgedNow(a)

RequestPriority(s) ==
    /\ spc[s] # "idle" =>
        ads[sid[s]].status # "absent" /\ sad[s].priority = ads[sid[s]].priority
    /\ spc[s] = "push" => sad[s].effective = sad[s].priority

RankingSteps == {"get", "update", "push"}

ItemPriority(x) ==
    /\ Enqueued(x.id)
    /\ x.ad.priority = ads[x.id].priority
    /\ x.ad.queuedAt = ads[x.id].queuedAt

\* The new priority was right for the ad when it was computed, and time has
\* only made it worse than what the ad has earned since.
LoopPriority(i) ==
    /\ \A x \in mitems[i] : ItemPriority(x)
    /\ mpc[i] \in RankingSteps =>
        /\ mtask[i] = "aging" \/ (mtask[i] = "boost" /\ mnew[i] = 1)
        /\ Enqueued(mid[i])
        /\ mnew[i] \in 1 .. ads[mid[i]].priority
        /\ mnew[i] = 1 \/ mnew[i] >= AgedNow(mid[i])
    /\ mpc[i] \in {"update", "push"} => mcopy[i].effective = mnew[i]

PriorityInv ==
    /\ \A a \in Ads : StoredPriority(a)
    /\ \A s \in Submitters : RequestPriority(s)
    /\ \A i \in Instances : LoopPriority(i)

\* An accepted ad stays in the map with the priority it has, and once queued
\* also with its queueing time.
LEMMA RankStays ==
    ASSUME NEW a \in Ads, RankStep(a)
    PROVE  /\ ads[a].status # "absent" =>
                ads'[a].status # "absent" /\ ads'[a].priority = ads[a].priority
           /\ Enqueued(a) => Enqueued(a)' /\ SameRank(a)
BY DEF RankStep, RankKept, RankLeft, RankSubmitted, RankQueued, RankPushed, RankMoved, SameRank, Enqueued

\* What waiting earns an ad only falls.
LEMMA AgedNowFalls ==
    ASSUME NEW a \in Ads, ads \in [Ads -> AdRecord], StoredPriority(a), Enqueued(a), SameRank(a),
           now \in Nat, now' \in Nat, now =< now'
    PROVE  /\ AgedNow(a) \in 1 .. ads[a].priority
           /\ AgedNow(a)' \in 1 .. ads[a].priority
           /\ AgedNow(a)' =< AgedNow(a)
<1>1. /\ ads[a].priority \in Nat /\ ads[a].priority >= 1
      /\ now - ads[a].queuedAt \in Nat /\ now' - ads[a].queuedAt \in Nat
      /\ now - ads[a].queuedAt =< now' - ads[a].queuedAt
  BY DEF StoredPriority, AdRecord
<1>2. AgedNow(a)' = Aged(ads[a].priority, now' - ads[a].queuedAt)
  BY DEF AgedNow, SameRank
<1>3. QED
  BY <1>1, <1>2, AgedFacts DEF AgedNow

\* The stored part of the invariant is kept.
LEMMA StoredStep ==
    ASSUME PipelineInv, PriorityInv, NEW a \in Ads, RankStep(a), TypeOK',
           now \in Nat, now' \in Nat, now =< now'
    PROVE  StoredPriority(a)'
<1>0. /\ ads \in [Ads -> AdRecord] /\ ads' \in [Ads -> AdRecord] /\ StoredPriority(a)
      /\ sad \in [Submitters -> AdRecord] /\ mnew \in [Instances -> Nat]
  BY DEF PipelineInv, TypeOK, RepositoryTypeOK, SubmitterTypeOK, MaintenanceTypeOK, PriorityInv
<1>1. ads[a].priority \in Nat /\ ads[a].priority >= 1 /\ ads[a].effective \in Nat
      /\ ads'[a].priority \in Nat /\ ads[a].queuedAt \in Int
  BY <1>0 DEF AdRecord, StoredPriority
<1>2. CASE ads'[a].status # "queued"
  <2>1. CASE Enqueued(a)
    <3>1. ads[a].queuedAt \in 0 .. now /\ SameRank(a)
      BY <1>0, <2>1, RankStays DEF StoredPriority
    <3>2. QED
      BY <1>1, <1>2, <3>1 DEF StoredPriority, SameRank
  <2>2. CASE ~Enqueued(a)
    <3>1. ads'[a].priority >= 1 /\ ads'[a].status \in {"absent", "submitted"}
      BY <1>1, <1>2, <2>2 DEF RankStep, RankKept, RankLeft, RankSubmitted, RankQueued, RankPushed,
        RankMoved, SameRank, Enqueued
    <3>2. QED
      BY <1>2, <3>1 DEF StoredPriority, Enqueued
  <2>3. QED
    BY <2>1, <2>2
<1>3. CASE RankQueued(a)
  <2>0. now' - now \in Nat
    <3>1. ASSUME NEW t \in Nat, NEW u \in Nat, t =< u
          PROVE  u - t \in Nat
      BY <3>1
    <3>2. QED
      BY <3>1
  <2>1. AgedNow(a)' = Aged(ads[a].priority, now' - now)
    BY <1>3 DEF AgedNow, RankQueued
  <2>2. AgedNow(a)' \in 1 .. ads[a].priority
    BY <1>1, <2>0, <2>1, AgedFacts
  <2>3. QED
    BY <1>1, <1>3, <2>2 DEF StoredPriority, RankQueued
<1>4. CASE /\ ads[a].status = "queued" /\ ads'[a].status = "queued" /\ SameRank(a)
           /\ \/ ads'[a].effective = ads[a].effective
              \/ ads'[a].effective = ads[a].priority
              \/ /\ ads'[a].effective \in 1 .. ads[a].priority
                 /\ ads'[a].effective = 1 \/ ads'[a].effective >= AgedNow(a)
  <2>1. /\ AgedNow(a) \in 1 .. ads[a].priority
        /\ AgedNow(a)' \in 1 .. ads[a].priority
        /\ AgedNow(a)' =< AgedNow(a)
    BY <1>0, <1>4, AgedNowFalls DEF Enqueued
  <2>2. /\ ads'[a].priority = ads[a].priority /\ ads'[a].queuedAt = ads[a].queuedAt
        /\ ads[a].queuedAt \in 0 .. now
        /\ ads[a].effective \in 1 .. ads[a].priority
        /\ ads[a].effective = 1 \/ ads[a].effective >= AgedNow(a)
    BY <1>0, <1>4 DEF StoredPriority, SameRank, Enqueued
  <2>3. /\ ads'[a].effective \in 1 .. ads[a].priority
        /\ ads'[a].effective = 1 \/ ads'[a].effective >= AgedNow(a)'
    BY <1>1, <1>4, <2>1, <2>2
  <2>4. QED
    BY <1>1, <2>2, <2>3 DEF StoredPriority
<1>5. CASE ads'[a].status = "queued" /\ ~RankQueued(a)
  <2>1. ads[a].status = "queued" /\ SameRank(a)
    BY <1>5 DEF RankStep, RankKept, RankLeft, RankSubmitted, RankPushed, RankMoved
  <2>2. CASE RankKept(a)
    BY <1>4, <1>5, <2>1, <2>2 DEF RankKept
  <2>3. CASE \E s \in Submitters : RankPushed(s, a)
    <3>1. PICK s \in Submitters : RankPushed(s, a)
      BY <2>3
    <3>2. ads'[a].effective = ads[a].priority
      BY <3>1 DEF RankPushed, PriorityInv, RequestPriority
    <3>3. QED
      BY <1>4, <1>5, <2>1, <3>2
  <2>4. CASE \E i \in Instances : RankMoved(i, a)
    <3>1. PICK i \in Instances : RankMoved(i, a)
      BY <2>4
    <3>2. /\ mid[i] = a /\ ads'[a].effective = mnew[i]
          /\ mnew[i] \in 1 .. ads[a].priority
          /\ mnew[i] = 1 \/ mnew[i] >= AgedNow(a)
      BY <3>1 DEF RankMoved, PriorityInv, LoopPriority, RankingSteps
    <3>3. QED
      BY <1>4, <1>5, <2>1, <3>2
  <2>5. QED
    BY <1>5, <2>2, <2>3, <2>4 DEF RankStep, RankLeft, RankSubmitted
<1>6. QED
  BY <1>2, <1>3, <1>5

\* The variables of a request change by its own steps only.
LEMMA RequestScope ==
    ASSUME PipelineInv, [Next]_vars, NEW s \in Submitters, ~SubmitAd(s), ~Enqueue(s)
    PROVE  spc'[s] = spc[s] /\ sid'[s] = sid[s] /\ sad'[s] = sad[s]
<1>0. /\ spc \in [Submitters -> EnqueueSteps \union {"idle"}]
      /\ sad \in [Submitters -> AdRecord] /\ sid \in [Submitters -> Ads \union {None}]
  BY DEF PipelineInv, TypeOK, SubmitterTypeOK
<1>1. ASSUME NEW r \in Submitters, r # s, SubmitAd(r) \/ Enqueue(r)
      PROVE  spc'[s] = spc[s] /\ sid'[s] = sid[s] /\ sad'[s] = sad[s]
  BY <1>0, <1>1 DEF SubmitAd, Enqueue, EnqueueAdmit, EnqueueUpdate, EnqueuePush, EnqueueReturn
<1>2. ASSUME NEW w \in Workers, processLoop(w) \/ StopWorker(w)
      PROVE  UNCHANGED submitVars
  BY <1>2 DEF processLoop, StopWorker, othersUnchanged, Dequeue, DequeueClosed, DequeuePop,
    DequeuePopMiss, DequeueGet, DequeueFind, DequeueLock, DequeueLockDenied, DequeueClaim,
    DequeueReget, DequeueAssign, DequeueRelease, DequeueUnwind, Complete, CompleteLock,
    CompleteStatus, CompleteGet, CompleteUpdate, CompleteRelease, LoopHead, ProcessAdInterrupted
<1>3. ASSUME NEW i \in Instances, Maintenance(i) \/ BeginShutdown(i) \/ Cancel(i) \/ Close(i)
      PROVE  UNCHANGED submitVars
  BY <1>3 DEF BeginShutdown, Cancel, Close, outsideMaintenance, Maintenance, MaintenanceExit,
    MaintenanceScan, MaintenanceDone, PriorityItem, PriorityGet, PriorityUpdate, PriorityPush,
    RequeueItem
<1>4. ASSUME Tick \/ OtherProcessPush \/ OtherProcessPop \/ UNCHANGED vars
      PROVE  UNCHANGED submitVars
  BY <1>4 DEF Tick, OtherProcessPush, OtherProcessPop, vars, submitVars
<1>5. CASE UNCHANGED submitVars
  BY <1>5 DEF submitVars
<1>6. QED
  BY <1>1, <1>2, <1>3, <1>4, <1>5 DEF Next

\* The variables of a maintenance loop change by its own steps only.
LEMMA LoopScope ==
    ASSUME PipelineInv, [Next]_vars, NEW i \in Instances, ~Maintenance(i)
    PROVE  /\ mpc'[i] = mpc[i] /\ mtask'[i] = mtask[i] /\ mitems'[i] = mitems[i]
           /\ mid'[i] = mid[i] /\ mcopy'[i] = mcopy[i] /\ mnew'[i] = mnew[i]
<1>0. MaintenanceTypeOK
  BY DEF PipelineInv, TypeOK
<1>1. ASSUME NEW j \in Instances, j # i, Maintenance(j)
      PROVE  /\ mpc'[i] = mpc[i] /\ mtask'[i] = mtask[i] /\ mitems'[i] = mitems[i]
             /\ mid'[i] = mid[i] /\ mcopy'[i] = mcopy[i] /\ mnew'[i] = mnew[i]
  <2>1. CASE MaintenanceExit(j) \/ MaintenanceScan(j) \/ MaintenanceDone(j) \/ RequeueItem(j)
    BY <1>0, <1>1, <2>1 DEF MaintenanceTypeOK, MaintenanceExit, MaintenanceScan, MaintenanceDone,
      RequeueItem, mgoto
  <2>2. CASE PriorityItem(j) \/ PriorityGet(j) \/ PriorityUpdate(j) \/ PriorityPush(j)
    BY <1>0, <1>1, <2>2 DEF MaintenanceTypeOK, PriorityItem, PriorityGet, PriorityUpdate,
      PriorityPush, mgoto, nextItem
  <2>3. QED
    BY <1>1, <2>1, <2>2 DEF Maintenance
<1>2. ASSUME NEW w \in Workers, processLoop(w) \/ StopWorker(w)
      PROVE  UNCHANGED maintVars
  BY <1>2 DEF processLoop, StopWorker, othersUnchanged, Dequeue, DequeueClosed, DequeuePop,
    DequeuePopMiss, DequeueGet, DequeueFind, DequeueLock, DequeueLockDenied, DequeueClaim,
    DequeueReget, DequeueAssign, DequeueRelease, DequeueUnwind, Complete, CompleteLock,
    CompleteStatus, CompleteGet, CompleteUpdate, CompleteRelease, LoopHead, ProcessAdInterrupted
<1>3. ASSUME NEW s \in Submitters, SubmitAd(s) \/ Enqueue(s)
      PROVE  UNCHANGED maintVars
  BY <1>3 DEF SubmitAd, Enqueue, EnqueueAdmit, EnqueueUpdate, EnqueuePush
<1>4. ASSUME \/ \E j \in Instances : BeginShutdown(j) \/ Cancel(j) \/ Close(j)
             \/ Tick \/ OtherProcessPush \/ OtherProcessPop \/ UNCHANGED vars
      PROVE  UNCHANGED maintVars
  BY <1>4 DEF BeginShutdown, Cancel, Close, Tick, OtherProcessPush, OtherProcessPop, vars, maintVars
<1>5. CASE UNCHANGED maintVars
  BY <1>5 DEF maintVars
<1>6. QED
  BY <1>1, <1>2, <1>3, <1>4, <1>5 DEF Next

\* What a request knows of its ad's priority is kept.
LEMMA RequestStep ==
    ASSUME PipelineInv, PriorityInv, [Next]_vars, NEW s \in Submitters
    PROVE  RequestPriority(s)'
<1>0. /\ \A a \in Ads : RankStep(a)
      /\ RequestPriority(s)
      /\ spc[s] # "idle" => sid[s] \in Ads
  BY NextRank DEF PriorityInv, PipelineInv, TypeOK, SubmitterTypeOK
<1>1. spc[s] # "idle" => /\ ads'[sid[s]].status # "absent"
                         /\ sad[s].priority = ads'[sid[s]].priority
  BY <1>0, RankStays DEF RequestPriority
<1>2. CASE SubmitAd(s)
  <2>1. PICK a \in Ads : /\ RankSubmitted(a) /\ sid'[s] = a
                         /\ sad'[s].priority = ads'[a].priority /\ spc'[s] = "admit"
    BY <1>2, SubmitRank
  <2>2. QED
    BY <2>1 DEF RequestPriority, RankSubmitted
<1>3. CASE Enqueue(s)
  <2>1. \/ spc'[s] = "idle"
        \/ spc[s] = "admit" /\ spc'[s] = "update" /\ sid'[s] = sid[s] /\ sad'[s] = sad[s]
        \/ /\ spc[s] = "update" /\ spc'[s] = "push" /\ sid'[s] = sid[s]
           /\ sad'[s].priority = sad[s].priority /\ sad'[s].effective = sad[s].priority
    BY <1>3, EnqueueRank
  <2>2. QED
    BY <1>1, <2>1 DEF RequestPriority
<1>4. CASE spc'[s] = spc[s] /\ sid'[s] = sid[s] /\ sad'[s] = sad[s]
  BY <1>0, <1>1, <1>4 DEF RequestPriority
<1>5. QED
  BY <1>2, <1>3, <1>4, RequestScope

\* What the conjuncts of LoopPriority say of the item at hand.
AtHand(i) ==
    /\ mtask[i] = "aging" \/ (mtask[i] = "boost" /\ mnew[i] = 1)
    /\ Enqueued(mid[i])
    /\ mnew[i] \in 1 .. ads[mid[i]].priority
    /\ mnew[i] = 1 \/ mnew[i] >= AgedNow(mid[i])

\* Snapshot items stay what they are while ads keep their ranks.
LEMMA ItemsStay ==
    ASSUME PipelineInv, PriorityInv, [Next]_vars, NEW i \in Instances, NEW x \in mitems[i]
    PROVE  ItemPriority(x)'
<1>1. x.id \in Ads /\ ItemPriority(x) /\ RankStep(x.id)
  BY NextRank DEF PipelineInv, TypeOK, MaintenanceTypeOK, Item, PriorityInv, LoopPriority
<1>2. Enqueued(x.id)' /\ SameRank(x.id)
  BY <1>1, RankStays DEF ItemPriority
<1>3. QED
  BY <1>1, <1>2 DEF ItemPriority, SameRank

\* So does the item at hand, as time goes by.
LEMMA AtHandStays ==
    ASSUME PipelineInv, PriorityInv, [Next]_vars, NEW i \in Instances, mpc[i] \in RankingSteps,
           mid'[i] = mid[i], mnew'[i] = mnew[i], mtask'[i] = mtask[i]
    PROVE  AtHand(i)'
<1>1. PICK a \in Ads : a = mid[i]
  BY DEF PipelineInv, TypeOK, MaintenanceTypeOK, RankingSteps
<1>2. /\ RankStep(a) /\ StoredPriority(a)
      /\ now \in Nat /\ now' \in Nat /\ now =< now'
      /\ ads \in [Ads -> AdRecord] /\ mnew[i] \in Nat
  BY NextRank DEF PriorityInv, PipelineInv, TypeOK, RepositoryTypeOK, MaintenanceTypeOK
<1>3. /\ mtask[i] = "aging" \/ (mtask[i] = "boost" /\ mnew[i] = 1)
      /\ Enqueued(a) /\ mnew[i] \in 1 .. ads[a].priority
      /\ mnew[i] = 1 \/ mnew[i] >= AgedNow(a)
  BY <1>1 DEF PriorityInv, LoopPriority
<1>4. Enqueued(a)' /\ SameRank(a)
  BY <1>2, <1>3, RankStays
<1>5. /\ AgedNow(a) \in 1 .. ads[a].priority /\ AgedNow(a)' \in 1 .. ads[a].priority
      /\ AgedNow(a)' =< AgedNow(a)
  BY <1>2, <1>3, <1>4, AgedNowFalls
<1>6. ads[a].priority \in Nat /\ ads'[a].priority = ads[a].priority
  BY <1>2, <1>4 DEF SameRank, AdRecord
<1>7. mnew[i] = 1 \/ mnew[i] >= AgedNow(a)'
  BY <1>2, <1>3, <1>5, <1>6
<1>8. a = mid'[i]
  BY <1>1
<1>9. Enqueued(mid[i])' /\ AgedNow(mid[i])' = AgedNow(a)'
  BY <1>4, <1>8 DEF Enqueued, AgedNow
<1>10. QED
  BY <1>3, <1>6, <1>7, <1>8, <1>9 DEF AtHand

\* A task that wants a priority wants the aged one or the maximum.
LEMMA WantedCases ==
    ASSUME NEW i, NEW ad, WantedPriority(i, ad) # Never
    PROVE  \/ mtask[i] = "aging" /\ WantedPriority(i, ad) = CalculateEffectivePriority(ad, now)
           \/ mtask[i] # "aging" /\ WantedPriority(i, ad) = 1
<1> DEFINE aged == CalculateEffectivePriority(ad, now)
           ages == ad.queuedAt # Never /\ mtask[i] = "aging" /\ aged # ad.effective
           boosts == ad.queuedAt # Never /\ mtask[i] # "aging" /\ HasExceededMaxWaitTime(ad, now)
<1>1. WantedPriority(i, ad) = CASE ages -> aged [] boosts -> 1 [] OTHER -> Never
  BY DEF WantedPriority
<1>2. CASE ages
  <2>1. ~boosts
    BY <1>2
  <2>2. QED
    BY <1>1, <1>2, <2>1
<1>3. CASE boosts
  <2>1. ~ages
    BY <1>3
  <2>2. QED
    BY <1>1, <1>3, <2>1
<1>4. CASE ~ages /\ ~boosts
  BY <1>1, <1>4
<1>5. QED
  BY <1>2, <1>3, <1>4

\* The priority a task wants for an item: what the ad has earned by now, for
\* aging, and the maximum for a boost.
LEMMA WantedIsEarned ==
    ASSUME PipelineInv, PriorityInv, NEW i \in Instances, mtask[i] \in {"aging", "boost"},
           NEW x \in mitems[i], WantedPriority(i, x.ad) # Never
    PROVE  /\ x.id \in Ads /\ Enqueued(x.id)
           /\ AgedNow(x.id) \in 1 .. ads[x.id].priority /\ ads[x.id].priority \in Nat
           /\ \/ mtask[i] = "aging" /\ WantedPriority(i, x.ad) = AgedNow(x.id)
              \/ mtask[i] = "boost" /\ WantedPriority(i, x.ad) = 1
<1>1. x.id \in Ads /\ x.ad \in AdRecord /\ ItemPriority(x) /\ x.ad.status = "queued"
  BY DEF PipelineInv, TypeOK, MaintenanceTypeOK, Item, PriorityInv, LoopPriority, MaintenanceInv
<1>2. PICK a \in Ads : a = x.id
  BY <1>1
<1>3. /\ Enqueued(a) /\ x.ad.priority = ads[a].priority /\ x.ad.queuedAt = ads[a].queuedAt
      /\ StoredPriority(a) /\ now \in Nat /\ ads \in [Ads -> AdRecord]
  BY <1>1, <1>2 DEF ItemPriority, PriorityInv, PipelineInv, TypeOK, ProcessTypeOK, RepositoryTypeOK
<1>4. /\ x.ad.queuedAt \in 0 .. now /\ x.ad.queuedAt # Never
      /\ ads[a].priority \in Nat /\ ads[a].priority >= 1
      /\ now - ads[a].queuedAt \in Nat
  BY <1>3 DEF StoredPriority, Never, AdRecord
<1>5. AgedNow(a) \in 1 .. ads[a].priority
  BY <1>4, AgedFacts DEF AgedNow
<1>6. CalculateEffectivePriority(x.ad, now) = AgedNow(a)
  BY <1>1, <1>3, <1>4, EffectiveIsAged DEF AgedNow
<1>7. CASE mtask[i] = "aging"
  BY <1>2, <1>3, <1>4, <1>5, <1>6, <1>7, WantedCases
<1>8. CASE mtask[i] = "boost"
  BY <1>2, <1>3, <1>4, <1>5, <1>8, WantedCases
<1>9. QED
  BY <1>7, <1>8

\* The maintenance loops' part of the invariant is kept.
LEMMA LoopStep ==
    ASSUME PipelineInv, PriorityInv, [Next]_vars, NEW i \in Instances
    PROVE  LoopPriority(i)'
<1>0. MaintenanceTypeOK /\ LoopPriority(i) /\ ads \in [Ads -> AdRecord]
  BY DEF PipelineInv, TypeOK, RepositoryTypeOK, PriorityInv
<1>a. SUFFICES /\ \A x \in mitems'[i] : ItemPriority(x)'
               /\ mpc'[i] \in RankingSteps => AtHand(i)'
               /\ mpc'[i] \in {"update", "push"} => mcopy'[i].effective = mnew'[i]
  BY DEF LoopPriority, AtHand
<1>b. \A x \in mitems[i] : ItemPriority(x)'
  BY ItemsStay
<1>1. CASE ~Maintenance(i)
  <2>1. /\ mpc'[i] = mpc[i] /\ mtask'[i] = mtask[i] /\ mitems'[i] = mitems[i]
        /\ mid'[i] = mid[i] /\ mcopy'[i] = mcopy[i] /\ mnew'[i] = mnew[i]
    BY <1>1, LoopScope
  <2>2. QED
    BY <1>0, <1>b, <2>1, AtHandStays DEF LoopPriority
<1>2. CASE MaintenanceExit(i) \/ MaintenanceDone(i) \/ RequeueItem(i)
  <2>1. mpc'[i] \notin RankingSteps /\ mitems'[i] \subseteq mitems[i]
    BY <1>0, <1>2 DEF MaintenanceExit, MaintenanceDone, RequeueItem, mgoto, MaintenanceTypeOK, RankingSteps
  <2>2. QED
    BY <1>b, <2>1 DEF RankingSteps
<1>3. CASE MaintenanceScan(i)
  <2>1. UNCHANGED ads /\ mpc'[i] \notin RankingSteps
    BY <1>0, <1>3 DEF MaintenanceScan, mgoto, MaintenanceTypeOK, RankingSteps
  <2>2. CASE mitems'[i] = mitems[i]
    BY <1>b, <2>1, <2>2 DEF RankingSteps
  <2>3. CASE mitems'[i] # mitems[i]
    <3>1. PICK st \in {"processing", "queued"} :
            \E S \in FindByStatus(st, ScanLimit) :
              mitems' = [mitems EXCEPT ![i] = {[id |-> a, ad |-> ads[a], at |-> now] : a \in S}]
      BY <1>3, <2>3 DEF MaintenanceScan
    <3>2. PICK S \in FindByStatus(st, ScanLimit) :
            mitems' = [mitems EXCEPT ![i] = {[id |-> a, ad |-> ads[a], at |-> now] : a \in S}]
      BY <3>1
    <3>3. \A a \in S : a \in Ads /\ ads[a].status = st
      BY <3>2 DEF FindByStatus, WithStatus
    <3>4. ASSUME NEW x \in mitems'[i] PROVE ItemPriority(x)'
      <4>1. PICK a \in S : x = [id |-> a, ad |-> ads[a], at |-> now]
        BY <1>0, <3>2, <3>4 DEF MaintenanceTypeOK
      <4>2. x.id = a /\ x.ad = ads[a]
        BY <4>1
      <4>3. QED
        BY <2>1, <3>1, <3>3, <4>2 DEF ItemPriority, Enqueued
    <3>5. QED
      BY <2>1, <3>4 DEF RankingSteps
  <2>4. QED
    BY <2>2, <2>3
<1>4. CASE PriorityItem(i)
  <2>1. PICK x \in mitems[i] :
          /\ mitems' = [mitems EXCEPT ![i] = mitems[i] \ {x}]
          /\ \/ UNCHANGED mpc
             \/ /\ WantedPriority(i, x.ad) # Never
                /\ mid' = [mid EXCEPT ![i] = x.id]
                /\ mnew' = [mnew EXCEPT ![i] = WantedPriority(i, x.ad)]
                /\ mpc' = [mpc EXCEPT ![i] = "get"]
    BY <1>4 DEF PriorityItem, NewestItems, mgoto
  <2>2. /\ mpc[i] = "next" /\ mtask[i] \in {"aging", "boost"} /\ UNCHANGED <<ads, mtask, now>>
    BY <1>4 DEF PriorityItem, outsideMaintenance
  <2>3. mitems'[i] \subseteq mitems[i]
    BY <1>0, <2>1 DEF MaintenanceTypeOK
  <2>4. CASE UNCHANGED mpc
    BY <1>b, <2>2, <2>3, <2>4 DEF RankingSteps
  <2>5. CASE /\ WantedPriority(i, x.ad) # Never
             /\ mid' = [mid EXCEPT ![i] = x.id]
             /\ mnew' = [mnew EXCEPT ![i] = WantedPriority(i, x.ad)]
             /\ mpc' = [mpc EXCEPT ![i] = "get"]
    <3>1. mid'[i] = x.id /\ mnew'[i] = WantedPriority(i, x.ad) /\ mpc'[i] = "get"
      BY <1>0, <2>5 DEF MaintenanceTypeOK
    <3>2. /\ x.id \in Ads /\ Enqueued(x.id)
          /\ AgedNow(x.id) \in 1 .. ads[x.id].priority /\ ads[x.id].priority \in Nat
          /\ \/ mtask[i] = "aging" /\ mnew'[i] = AgedNow(x.id)
             \/ mtask[i] = "boost" /\ mnew'[i] = 1
      BY <2>2, <2>5, <3>1, WantedIsEarned
    <3>3. PICK a \in Ads : a = x.id
      BY <3>2
    <3>4. /\ mtask'[i] = "aging" \/ (mtask'[i] = "boost" /\ mnew'[i] = 1)
          /\ mnew'[i] \in 1 .. ads[a].priority
          /\ mnew'[i] = 1 \/ mnew'[i] >= AgedNow(a)
      BY <2>2, <3>2, <3>3
    <3>5. /\ Enqueued(mid[i])' /\ AgedNow(mid[i])' = AgedNow(a)
          /\ ads'[mid'[i]].priority = ads[a].priority
      BY <2>2, <3>1, <3>2, <3>3 DEF Enqueued, AgedNow
    <3>6. AtHand(i)'
      BY <3>4, <3>5 DEF AtHand
    <3>7. QED
      BY <1>b, <2>3, <3>1, <3>6
  <2>6. QED
    BY <2>1, <2>4, <2>5
<1>5. CASE PriorityGet(i) \/ PriorityUpdate(i) \/ PriorityPush(i)
  <2>1. mitems' = mitems /\ mtask' = mtask /\ mpc[i] \in RankingSteps
    BY <1>5 DEF PriorityGet, PriorityUpdate, PriorityPush, RankingSteps
  <2>2. CASE mpc'[i] \notin RankingSteps
    BY <1>b, <2>1, <2>2 DEF RankingSteps
  <2>3. CASE mpc'[i] \in RankingSteps
    <3>1. mid' = mid /\ mnew' = mnew
      BY <1>0, <1>5, <2>3 DEF PriorityGet, PriorityUpdate, PriorityPush, nextItem, mgoto,
        MaintenanceTypeOK, RankingSteps
    <3>2. AtHand(i)'
      BY <2>1, <3>1, AtHandStays
    <3>3. mcopy'[i].effective = mnew[i]
      <4>1. CASE PriorityGet(i)
        <5>1. PICK a \in Ads : a = mid[i]
          BY <1>0, <2>1 DEF MaintenanceTypeOK, RankingSteps
        <5>2. mcopy'[i] = [ads[a] EXCEPT !.effective = mnew[i]]
          BY <1>0, <2>3, <4>1, <5>1 DEF PriorityGet, nextItem, mgoto, MaintenanceTypeOK, RankingSteps
        <5>3. QED
          BY <1>0, <5>2 DEF AdRecord
      <4>2. CASE PriorityUpdate(i)
        <5>1. mcopy'[i] = NextVersion(mcopy[i]) /\ mpc[i] = "update"
          BY <1>0, <2>3, <4>2 DEF PriorityUpdate, nextItem, mgoto, MaintenanceTypeOK, RankingSteps
        <5>2. mcopy[i] \in AdRecord /\ mcopy[i].effective = mnew[i]
          BY <1>0, <5>1 DEF MaintenanceTypeOK, LoopPriority
        <5>3. QED
          BY <5>1, <5>2, NextVersionFields
      <4>3. ~PriorityPush(i)
        BY <1>0, <2>3 DEF PriorityPush, nextItem, mgoto, MaintenanceTypeOK, RankingSteps
      <4>4. QED
        BY <1>5, <4>1, <4>2, <4>3
    <3>4. QED
      BY <1>b, <2>1, <3>1, <3>2, <3>3
  <2>4. QED
    BY <2>2, <2>3
<1>6. QED
  BY <1>1, <1>2, <1>3, <1>4, <1>5 DEF Maintenance

\* The invariant holds before the first request.
LEMMA InitPriority == Init => PriorityInv
<1>1. NoAd.priority = 1 /\ NoAd.status = "absent"
  BY DEF NoAd, NewAd
<1>2. SUFFICES ASSUME Init PROVE PriorityInv
  OBVIOUS
<1>3. \A a \in Ads : ads[a].status = "absent" /\ ads[a].priority = 1
  BY <1>1, <1>2 DEF Init
<1>4. /\ \A s \in Submitters : spc[s] = "idle"
      /\ \A i \in Instances : mpc[i] = "select" /\ mitems[i] = {}
  BY <1>2 DEF Init
<1>5. QED
  BY <1>3, <1>4 DEF PriorityInv, StoredPriority, RequestPriority, LoopPriority, Enqueued, RankingSteps

\* Every step keeps it.
LEMMA NextPriority == PipelineInv /\ PriorityInv /\ [Next]_vars => PriorityInv'
<1>1. SUFFICES ASSUME PipelineInv, PriorityInv, [Next]_vars
               PROVE  PriorityInv'
  OBVIOUS
<1>2. TypeOK'
  BY <1>1, NextTypeOK DEF PipelineInv
<1>3. \A a \in Ads : StoredPriority(a)'
  BY <1>1, <1>2, NextRank, StoredStep
<1>4. QED
  BY <1>1, <1>3, RequestStep, LoopStep DEF PriorityInv

\* What Enqueue and the maintenance loops know of priorities is right in every
\* reachable state.
THEOREM PrioritiesAreAccounted == Spec => []PriorityInv
BY InvariantCorrect, InitPriority, NextPriority, PTL DEF Spec

\* The effective priority of a queued ad stays between 1 and the ad's own
\* priority, whatever aging, boosting and the in-place pushes of PushToQueue
\* do to it and in whatever order, with any number of queues.
THEOREM PriorityStaysInRange == Spec => []EffectiveInRange
<1>1. PriorityInv => EffectiveInRange
  BY DEF PriorityInv, StoredPriority, EffectiveInRange, WithStatus
<1>2. QED
  BY <1>1, PrioritiesAreAccounted, PTL

\* No race makes a queued ad more urgent than its waiting has earned it by
\* CalculateEffectivePriority, unless it was boosted to the maximum: a late
\* push or an aging pass with an old copy only ever writes too little.
THEOREM UrgencyIsEarned ==
    Spec => [](\A a \in Ads : ads[a].status = "queued" /\ ads[a].effective # 1 =>
                   ads[a].effective >= CalculateEffectivePriority(ads[a], now))
<1>1. ASSUME PriorityInv, NEW a \in Ads, ads[a].status = "queued", ads[a].effective # 1
      PROVE  ads[a].effective >= CalculateEffectivePriority(ads[a], now)
  <2>1. /\ ads[a].effective >= AgedNow(a) /\ ads[a].queuedAt # Never
    BY <1>1 DEF PriorityInv, StoredPriority, Enqueued, Never
  <2>2. QED
    BY <1>1, <2>1, EffectiveIsAged DEF AgedNow
<1>2. PriorityInv =>
        \A a \in Ads : ads[a].status = "queued" /\ ads[a].effective # 1 =>
            ads[a].effective >= CalculateEffectivePriority(ads[a], now)
  BY <1>1
<1>3. QED
  BY <1>2, PrioritiesAreAccounted, PTL

-----------------------------------------------------------------------------
(* Waiting in a process with one queue.                                    *)

\* A write an aging pass is about to make does not demote its ad, unless the
\* ad has been boosted to the maximum.
AgingInv ==
    \A i \in Instances :
        mpc[i] \in RankingSteps /\ mtask[i] = "aging" /\ ads[mid[i]].status = "queued" =>
            ads[mid[i]].effective = 1 \/ ads[mid[i]].effective >= mnew[i]

\* With one queue nobody but the loop itself and the late push, which writes
\* the ad's own priority, moves the ad it is at.
LEMMA AgingStep ==
    ASSUME OneQueue, PipelineInv, PriorityInv, AgingInv, [Next]_vars
    PROVE  AgingInv'
<1>1. SUFFICES ASSUME NEW i \in Instances, mpc'[i] \in RankingSteps, mtask'[i] = "aging",
                      ads'[mid'[i]].status = "queued"
               PROVE  ads'[mid'[i]].effective = 1 \/ ads'[mid'[i]].effective >= mnew'[i]
  BY DEF AgingInv
<1>0. /\ MaintenanceTypeOK /\ MaintenanceTypeOK' /\ LoopPriority(i) /\ ads \in [Ads -> AdRecord]
      /\ ads' \in [Ads -> AdRecord]
  BY NextTypeOK DEF PipelineInv, TypeOK, RepositoryTypeOK, PriorityInv
<1>2. PICK a \in Ads : a = mid'[i]
  BY <1>0, <1>1 DEF MaintenanceTypeOK, RankingSteps
<1>3. RankStep(a) /\ StoredPriority(a)
  BY NextRank DEF PriorityInv
<1>4. ads[a].effective \in Nat /\ ads[a].priority \in Nat /\ mnew[i] \in Nat
  BY <1>0 DEF AdRecord, MaintenanceTypeOK
<1>5. CASE PriorityItem(i)
  <2>1. PICK x \in mitems[i] :
             \/ UNCHANGED mpc
             \/ /\ WantedPriority(i, x.ad) # Never
                /\ mid' = [mid EXCEPT ![i] = x.id]
                /\ mnew' = [mnew EXCEPT ![i] = WantedPriority(i, x.ad)]
    BY <1>5 DEF PriorityItem, NewestItems
  <2>2. /\ mpc[i] = "next" /\ mtask[i] \in {"aging", "boost"} /\ UNCHANGED <<ads, mtask>>
    BY <1>5 DEF PriorityItem
  <2>3. /\ WantedPriority(i, x.ad) # Never /\ mid'[i] = x.id
        /\ mnew'[i] = WantedPriority(i, x.ad)
    BY <1>0, <1>1, <2>1, <2>2 DEF MaintenanceTypeOK, RankingSteps
  <2>4. mnew'[i] = AgedNow(a)
    BY <1>1, <1>2, <2>2, <2>3, WantedIsEarned
  <2>5. QED
    BY <1>1, <1>2, <1>3, <2>2, <2>4 DEF StoredPriority
<1>6. CASE ~PriorityItem(i)
  <2>1. mid'[i] = mid[i] /\ mnew'[i] = mnew[i] /\ mtask'[i] = mtask[i] /\ mpc[i] \in RankingSteps
    <3>1. CASE ~Maintenance(i)
      BY <1>1, <3>1, LoopScope
    <3>2. CASE MaintenanceExit(i) \/ MaintenanceScan(i) \/ MaintenanceDone(i) \/ RequeueItem(i)
      BY <1>0, <1>1, <3>2 DEF MaintenanceExit, MaintenanceScan, MaintenanceDone, RequeueItem, mgoto,
        MaintenanceTypeOK, RankingSteps
    <3>3. CASE PriorityGet(i) \/ PriorityUpdate(i) \/ PriorityPush(i)
      BY <1>0, <1>1, <3>3 DEF PriorityGet, PriorityUpdate, PriorityPush, nextItem, mgoto,
        MaintenanceTypeOK, RankingSteps
    <3>4. QED
      BY <1>6, <3>1, <3>2, <3>3 DEF Maintenance
  <2>2. /\ Enqueued(a) /\ mnew[i] \in 1 .. ads[a].priority
    BY <1>0, <1>2, <2>1 DEF LoopPriority
  <2>3. CASE RankKept(a)
    BY <1>1, <1>2, <2>1, <2>3 DEF RankKept, AgingInv
  <2>4. CASE \E s \in Submitters : RankPushed(s, a)
    <3>1. ads'[a].effective = ads[a].priority
      BY <2>4 DEF RankPushed, PriorityInv, RequestPriority
    <3>2. QED
      BY <1>2, <1>4, <2>1, <2>2, <3>1
  <2>5. CASE \E j \in Instances : RankMoved(j, a)
    <3>1. PICK j \in Instances : RankMoved(j, a)
      BY <2>5
    <3>2. j = i
      BY DEF OneQueue
    <3>3. ads'[a].effective = mnew[i]
      BY <1>0, <3>1, <3>2 DEF RankMoved, LoopPriority
    <3>4. QED
      BY <1>2, <1>4, <2>1, <3>3
  <2>6. ~RankLeft(a) /\ ~RankSubmitted(a) /\ ~RankQueued(a)
    BY <1>1, <1>2, <2>2 DEF RankLeft, RankSubmitted, RankQueued, Enqueued
  <2>7. QED
    BY <1>3, <2>3, <2>4, <2>5, <2>6 DEF RankStep
<1>7. QED
  BY <1>5, <1>6

\* A step that demotes a queued ad is a late push or takes back a boost.
LEMMA DemotionStep ==
    ASSUME PipelineInv, PriorityInv, AgingInv, [Next]_vars, NEW a \in Ads,
           ads[a].status = "queued", ads'[a].status = "queued",
           ads'[a].effective > ads[a].effective
    PROVE  \/ \E s \in Submitters : sid[s] = a /\ spc[s] = "push"
           \/ \E i \in Instances : mid[i] = a /\ mtask[i] = "aging" /\ ads[a].effective = 1
<1>1. RankStep(a) /\ StoredPriority(a) /\ ads \in [Ads -> AdRecord] /\ mnew \in [Instances -> Nat]
  BY NextRank DEF PriorityInv, PipelineInv, TypeOK, RepositoryTypeOK, MaintenanceTypeOK
<1>2. ads[a].effective \in Nat /\ ads[a].effective >= 1
  BY <1>1 DEF AdRecord, StoredPriority
<1>3. \/ \E s \in Submitters : RankPushed(s, a)
      \/ \E i \in Instances : RankMoved(i, a)
  BY <1>1, <1>2 DEF RankStep, RankKept, RankLeft, RankSubmitted, RankQueued
<1>4. CASE \E s \in Submitters : RankPushed(s, a)
  BY <1>4 DEF RankPushed
<1>5. CASE \E i \in Instances : RankMoved(i, a)
  <2>1. PICK i \in Instances : RankMoved(i, a)
    BY <1>5
  <2>2. /\ mid[i] = a /\ ads'[a].effective = mnew[i] /\ mpc[i] \in RankingSteps
        /\ mtask[i] = "aging" \/ mnew[i] = 1
    BY <2>1 DEF RankMoved, PriorityInv, LoopPriority, RankingSteps
  <2>3. mtask[i] = "aging"
    BY <1>2, <2>2
  <2>4. ads[a].effective = 1 \/ ads[a].effective >= mnew[i]
    BY <2>2, <2>3 DEF AgingInv
  <2>5. mnew[i] \in Nat
    BY <1>1
  <2>6. QED
    BY <1>2, <2>2, <2>3, <2>4, <2>5
<1>6. QED
  BY <1>3, <1>4, <1>5

\* Waiting never costs an ad its place: with one queue, the effective priority
\* of a queued ad gets worse only when the late push of its own Enqueue lands
\* or an aging pass takes back a boost to the maximum.
THEOREM WaitingIsNotPunished ==
    ASSUME OneQueue
    PROVE  Spec => DemotedOnlyAfterBoost
<1>1. Init => AgingInv
  BY DEF Init, AgingInv, RankingSteps
<1>2. PipelineInv /\ PriorityInv /\ AgingInv /\ [Next]_vars => AgingInv'
  BY AgingStep
<1>3. PipelineInv /\ PriorityInv /\ AgingInv /\ [Next]_vars =>
        [\A a \in Ads :
            /\ ads[a].status = "queued" /\ ads'[a].status = "queued"
            /\ ads'[a].effective > ads[a].effective
            => \/ \E s \in Submitters : sid[s] = a /\ spc[s] = "push"
               \/ \E i \in Instances :
                    mid[i] = a /\ mtask[i] = "aging" /\ ads[a].effective = 1]_vars
  BY DemotionStep
<1>4. QED
  BY <1>1, <1>2, <1>3, InvariantCorrect, PrioritiesAreAccounted, PTL DEF Spec, DemotedOnlyAfterBoost

=============================================================================
