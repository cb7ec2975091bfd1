------------------------------ MODULE AdModel ------------------------------
(***************************************************************************)
(* The advertisement of internal/domain/models: its record, the life-cycle *)
(* statuses and the pure methods the queue calls on a private copy of it.  *)
(* Texts, CompletedAt and Error are left out: no operation branches on     *)
(* them.  Times are ticks of a discrete clock and Never stands for a nil   *)
(* *time.Time.                                                             *)
(***************************************************************************)
EXTENDS Integers

CONSTANTS
    Instances,          \* instance IDs, one per DistributedPriorityQueue
    None,               \* the empty WorkerID, no lock owner, no ad ID
    MaxWaitTime,        \* QueueOptions.MaxWaitTime, in ticks
    AgingNum, AgingDen  \* QueueOptions.AgingRate = AgingNum / AgingDen

ASSUME InstanceAssumption == None \notin Instances

ASSUME AgingAssumption ==
    /\ MaxWaitTime \in Nat \ {0}
    /\ AgingNum \in Nat
    /\ AgingDen \in Nat \ {0}

Never == -1

DefaultPriority == 5

\* "absent" is no status of the code: it marks an ID that is not in the map.
Statuses == {"absent", "submitted", "queued", "processing", "completed", "failed"}

AdRecord ==
    [status    : Statuses,
     priority  : Nat,                  \* 1 is the most urgent
     effective : Nat,                  \* EffectivePriority
     createdAt : Int,
     queuedAt  : Int,
     startedAt : Int,                  \* ProcessingStartedAt
     analysed  : BOOLEAN,              \* Analysis # nil
     attempts  : Nat,
     worker    : Instances \union {None},
     version   : Nat]

\* NewAd followed by the initial metadata SubmitAd sets before Save.
NewAd(priorityInput, t) ==
    [status    |-> "submitted",
     priority  |-> IF priorityInput <= 0 THEN DefaultPriority ELSE priorityInput,
     effective |-> 0,
     createdAt |-> t,
     queuedAt  |-> Never,
     startedAt |-> Never,
     analysed  |-> FALSE,
     attempts  |-> 0,
     worker    |-> None,
     version   |-> 1]

NoAd ==
    [NewAd(1, Never) EXCEPT !.status = "absent", !.version = 0]

\* Mutant: the reset of the effective priority is forgotten.
SetStatusKeepingEffective(ad, newStatus, t) ==
    [ad EXCEPT
        !.status    = newStatus,
        !.queuedAt  = IF newStatus = "queued" THEN t ELSE ad.queuedAt,
        !.startedAt = IF newStatus = "processing" THEN t ELSE ad.startedAt]

SetStatus(ad, newStatus, t) ==
    [ad EXCEPT
        !.status    = newStatus,
        !.queuedAt  = IF newStatus = "queued" THEN t ELSE ad.queuedAt,
        !.effective = IF newStatus = "queued" THEN ad.priority ELSE ad.effective,
        !.startedAt = IF newStatus = "processing" THEN t ELSE ad.startedAt]

AssignWorker(ad, instance) == [ad EXCEPT !.worker = instance]

IncrementAttempts(ad) == [ad EXCEPT !.attempts = ad.attempts + 1]

SetAnalysisResults(ad) == [ad EXCEPT !.analysed = TRUE]

IsProcessable(ad) == ad.status \in {"submitted", "queued"}

GetWaitingTime(ad, t) == IF ad.queuedAt = Never THEN 0 ELSE t - ad.queuedAt

HasExceededMaxWaitTime(ad, t) == GetWaitingTime(ad, t) > MaxWaitTime

\* The boost is priority * min(waiting / MaxWaitTime, 1) * AgingRate, truncated.
PriorityBoost(priority, waiting) ==
    LET capped == IF waiting > MaxWaitTime THEN MaxWaitTime ELSE waiting
    IN  (priority * capped * AgingNum) \div (MaxWaitTime * AgingDen)

CalculateEffectivePriority(ad, t) ==
    IF ad.status # "queued" \/ ad.queuedAt = Never
    THEN ad.priority
    ELSE LET aged == ad.priority - PriorityBoost(ad.priority, t - ad.queuedAt)
         IN  IF aged < 1 THEN 1 ELSE aged

=============================================================================
