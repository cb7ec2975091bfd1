--------------------------- MODULE CapacityProofs ---------------------------
(***************************************************************************)
(* The capacity of the queue, proved for every value of the constants: the *)
(* check of Enqueue and the queueing of the ad are two steps, and this is  *)
(* how far concurrent requests can overshoot MaxCapacity between them.     *)
(***************************************************************************)
EXTENDS LifecycleProofs, FiniteSetTheorems

Queued == WithStatus("queued")

\* The sets that are counted are finite.
LEMMA CountedSets ==
    /\ IsFiniteSet(Queued) /\ CountByStatus("queued") = Cardinality(Queued)
    /\ IsFiniteSet(Queued') /\ CountByStatus("queued")' = Cardinality(Queued')
    /\ IsFiniteSet(InWindow) /\ IsFiniteSet(InWindow')
    /\ Cardinality(InWindow) \in Nat /\ Cardinality(InWindow') \in Nat
    /\ Cardinality(Queued) \in Nat /\ Cardinality(Queued') \in Nat
    /\ Cardinality(Submitters) \in Nat
    /\ Cardinality(InWindow') =< Cardinality(Submitters)
<1>1. IsFiniteSet(Ads) /\ IsFiniteSet(Submitters)
  BY AdsAssumption, QueueAssumption
<1>2. Queued \subseteq Ads /\ Queued' \subseteq Ads
  BY DEF Queued, WithStatus
<1>3. InWindow \subseteq Submitters /\ InWindow' \subseteq Submitters
  BY DEF InWindow
<1>4. CountByStatus("queued") = Cardinality(Queued) /\ CountByStatus("queued")' = Cardinality(Queued')
  BY DEF CountByStatus, Queued, WithStatus
<1>5. QED
  BY <1>1, <1>2, <1>3, <1>4, FS_Subset, FS_CardinalityType

\* A smaller queue and a smaller window keep the bound.
LEMMA ShrinkKeepsBound ==
    ASSUME OvershootBounded, Queued' \subseteq Queued, InWindow' \subseteq InWindow
    PROVE  OvershootBounded'
<1>1. /\ Cardinality(Queued') =< Cardinality(Queued)
      /\ Cardinality(InWindow') =< Cardinality(InWindow)
  BY CountedSets, FS_Subset
<1>2. MaxCapacity \in Nat
  BY QueueAssumption
<1> DEFINE q1 == Cardinality(Queued)
           q2 == Cardinality(Queued')
           n1 == Cardinality(InWindow)
           n2 == Cardinality(InWindow')
           m  == Cardinality(Submitters)
<1>3. q1 \in Nat /\ q2 \in Nat /\ n1 \in Nat /\ n2 \in Nat /\ m \in Nat
  BY CountedSets
<1>4. MaxCapacity > 0 => q1 + n1 < MaxCapacity + m
  BY CountedSets DEF OvershootBounded
<1>5. q2 =< q1 /\ n2 =< n1
  BY <1>1
<1> HIDE DEF q1, q2, n1, n2, m
<1>6. MaxCapacity > 0 => q2 + n2 < MaxCapacity + m
  BY <1>2, <1>3, <1>4, <1>5
<1>7. QED
  BY <1>6, CountedSets DEF OvershootBounded, q2, n2, m

\* The capacity check: the queue has room for one, and the window holds at
\* most all requests.
LEMMA AdmitKeepsBound ==
    ASSUME HasRoom, Queued' = Queued
    PROVE  OvershootBounded'
<1>1. MaxCapacity \in Nat /\ (MaxCapacity > 0 => Cardinality(Queued) < MaxCapacity)
  BY QueueAssumption, CountedSets DEF HasRoom
<1> DEFINE q == Cardinality(Queued)
           n == Cardinality(InWindow')
           m == Cardinality(Submitters)
<1>2. q \in Nat /\ n \in Nat /\ m \in Nat /\ n =< m
  BY CountedSets
<1>3. CountByStatus("queued")' = q
  BY CountedSets
<1> HIDE DEF q, n, m
<1>4. MaxCapacity > 0 => q + n < MaxCapacity + m
  BY <1>1, <1>2 DEF q
<1>5. QED
  BY <1>3, <1>4 DEF OvershootBounded, n, m

\* The Update of Enqueue moves one unit from the window to the queue.
LEMMA UpdateKeepsBound ==
    ASSUME OvershootBounded, NEW id \in Ads, Queued' = Queued \union {id},
           NEW s \in InWindow, InWindow' = InWindow \ {s}
    PROVE  OvershootBounded'
<1> DEFINE q1 == Cardinality(Queued)
           q2 == Cardinality(Queued')
           n1 == Cardinality(InWindow)
           n2 == Cardinality(InWindow')
           m  == Cardinality(Submitters)
<1>1. /\ q1 \in Nat /\ q2 \in Nat /\ n1 \in Nat /\ n2 \in Nat /\ m \in Nat /\ MaxCapacity \in Nat
  BY CountedSets, QueueAssumption
<1>2. q2 =< q1 + 1
  <2>1. IsFiniteSet(Queued)
    BY CountedSets
  <2>2. Cardinality(Queued \union {id}) = IF id \in Queued THEN q1 ELSE q1 + 1
    BY <2>1, FS_AddElement
  <2>3. QED
    BY <1>1, <2>2
<1>3. n2 = n1 - 1
  <2>1. IsFiniteSet(InWindow)
    BY CountedSets
  <2>2. Cardinality(InWindow \ {s}) = n1 - 1
    BY <2>1, FS_RemoveElement
  <2>3. QED
    BY <2>2
<1>4. MaxCapacity > 0 => q1 + n1 < MaxCapacity + m
  BY CountedSets DEF OvershootBounded
<1> HIDE DEF q1, q2, n1, n2, m
<1>5. MaxCapacity > 0 => q2 + n2 < MaxCapacity + m
  BY <1>1, <1>2, <1>3, <1>4
<1>6. QED
  BY <1>5, CountedSets DEF OvershootBounded, q2, n2, m

\* A request's step keeps the bound.
LEMMA RequestKeepsBound ==
    ASSUME PipelineInv, OvershootBounded, NEW s \in Submitters, SubmitAd(s) \/ Enqueue(s)
    PROVE  OvershootBounded'
<1>0. spc \in [Submitters -> EnqueueSteps \union {"idle"}]
  BY DEF PipelineInv, TypeOK, SubmitterTypeOK
<1>1. CASE SubmitAd(s)
  <2>1. Queued' = Queued
    BY <1>1, SubmitSeen DEF Queued, WithStatus, Becomes, OthersSeenSame, SameSeen
  <2>2. InWindow' \subseteq InWindow
    BY <1>0, <1>1 DEF SubmitAd, InWindow
  <2>3. QED
    BY <2>1, <2>2, ShrinkKeepsBound
<1>2. CASE Enqueue(s)
  <2>0. \A r \in Submitters : r # s => spc'[r] = spc[r]
    BY <1>0, <1>2 DEF Enqueue, EnqueueAdmit, EnqueueUpdate, EnqueuePush, EnqueueReturn
  <2>1. CASE AllSeenSame /\ spc'[s] = "idle"
    <3>1. Queued' = Queued
      BY <2>1 DEF Queued, WithStatus, AllSeenSame, SameSeen
    <3>2. InWindow' \subseteq InWindow
      BY <2>0, <2>1 DEF InWindow
    <3>3. QED
      BY <3>1, <3>2, ShrinkKeepsBound
  <2>2. CASE AllSeenSame /\ HasRoom
    <3>1. Queued' = Queued
      BY <2>2 DEF Queued, WithStatus, AllSeenSame, SameSeen
    <3>2. QED
      BY <2>2, <3>1, AdmitKeepsBound
  <2>3. CASE Becomes(sid[s], "submitted", "queued") /\ spc[s] = "update" /\ spc'[s] = "push"
    <3>1. sid[s] \in Ads /\ Queued' = Queued \union {sid[s]}
      BY <2>3 DEF Queued, WithStatus, Becomes, OthersSeenSame, SameSeen
    <3>2. s \in InWindow /\ InWindow' = InWindow \ {s}
      BY <2>0, <2>3 DEF InWindow
    <3>3. QED
      BY <3>1, <3>2, UpdateKeepsBound
  <2>4. QED
    BY <1>2, <2>1, <2>2, <2>3, EnqueueSeen
<1>3. QED
  BY <1>1, <1>2

\* Everyone else leaves the requests alone and only takes ads off the queue.
LEMMA OthersKeepBound ==
    ASSUME PipelineInv, OvershootBounded, [Next]_vars,
           ~\E s \in Submitters : SubmitAd(s) \/ Enqueue(s)
    PROVE  OvershootBounded'
<1>1. UNCHANGED spc
  <2>1. ASSUME NEW w \in Workers, Dequeue(w) \/ Complete(w)
        PROVE  UNCHANGED spc
    <3>1. othersUnchanged
      BY <2>1 DEF Dequeue, DequeueClosed, DequeuePop, DequeuePopMiss, DequeueGet, DequeueFind,
        DequeueLock, DequeueLockDenied, DequeueClaim, DequeueReget, DequeueAssign, DequeueRelease,
        DequeueUnwind, Complete, CompleteLock, CompleteStatus, CompleteGet, CompleteUpdate,
        CompleteRelease
    <3>2. QED
      BY <3>1 DEF othersUnchanged, submitVars
  <2>2. ASSUME NEW w \in Workers, LoopHead(w) \/ ProcessAdInterrupted(w) \/ StopWorker(w)
        PROVE  UNCHANGED spc
    BY <2>2 DEF LoopHead, ProcessAdInterrupted, StopWorker, othersUnchanged, submitVars
  <2>3. ASSUME NEW i \in Instances, Maintenance(i)
        PROVE  UNCHANGED spc
    BY <2>3 DEF outsideMaintenance, Maintenance, MaintenanceExit, MaintenanceScan, MaintenanceDone,
      PriorityItem, PriorityGet, PriorityUpdate, PriorityPush, RequeueItem, submitVars
  <2>4. ASSUME NEW i \in Instances, BeginShutdown(i) \/ Cancel(i) \/ Close(i)
        PROVE  UNCHANGED spc
    BY <2>4 DEF BeginShutdown, Cancel, Close, submitVars
  <2>5. Tick \/ OtherProcessPush \/ OtherProcessPop \/ UNCHANGED vars => UNCHANGED spc
    BY DEF Tick, OtherProcessPush, OtherProcessPop, vars, submitVars
  <2>6. QED
    BY <2>1, <2>2, <2>3, <2>4, <2>5 DEF Next, processLoop
<1>2. InWindow' \subseteq InWindow
  BY <1>1 DEF InWindow
<1>3. Queued' \subseteq Queued
  <2>1. CASE AllSeenSame
    BY <2>1 DEF Queued, WithStatus, AllSeenSame, SameSeen
  <2>2. CASE \E w \in Workers : ClaimsAd(w) \/ FinishesAd(w) \/ DeliversAd(w)
    BY <2>2 DEF ClaimsAd, FinishesAd, DeliversAd, Queued, WithStatus, Becomes, OthersSeenSame, SameSeen
  <2>3. QED
    BY <2>1, <2>2, NextSeen DEF KeepsAd, DropsAd
<1>4. QED
  BY <1>2, <1>3, ShrinkKeepsBound

\* For any number of concurrent requests the queue exceeds MaxCapacity by less
\* than their number, and a request past the check is accounted for.
THEOREM OvershootIsBounded == Spec => []OvershootBounded
<1>1. Init => OvershootBounded
  <2> SUFFICES ASSUME Init
               PROVE  OvershootBounded
    OBVIOUS
  <2>1. NoAd.status = "absent"
    BY DEF NoAd
  <2>2. Queued = {} /\ InWindow = {}
    BY <2>1 DEF Init, Queued, WithStatus, InWindow
  <2>3. CountByStatus("queued") = 0 /\ Cardinality(InWindow) = 0
    BY <2>2, FS_EmptySet, CountedSets
  <2>4. Cardinality(Submitters) \in Nat /\ MaxCapacity \in Nat
    BY CountedSets, QueueAssumption
  <2>5. QED
    BY <2>3, <2>4 DEF OvershootBounded
<1>2. PipelineInv /\ OvershootBounded /\ [Next]_vars => OvershootBounded'
  BY RequestKeepsBound, OthersKeepBound
<1>3. QED
  BY <1>1, <1>2, InvariantCorrect, PTL DEF Spec

=============================================================================
