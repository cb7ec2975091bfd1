---------------------------- MODULE AdLifecycle ----------------------------
(***************************************************************************)
(* What the pipeline promises about each ad, without queue, locks, copies, *)
(* versions or clocks: an ad moves forward through its statuses only, at   *)
(* most one worker has it at any time, and the analysis arrives in the     *)
(* hands of the worker that claimed it.  A claimed ad may be abandoned; it *)
(* then keeps its status for ever, since nothing takes an ad back.         *)
(***************************************************************************)
CONSTANTS Ads, Workers

VARIABLES
    status,     \* the status clients see
    analysed,   \* whether they see an analysis
    holders     \* the workers that have the ad in hand

lifecycleVars == <<status, analysed, holders>>

LifecycleStatuses == {"absent", "submitted", "queued", "processing", "completed"}

LifecycleTypeOK ==
    /\ status \in [Ads -> LifecycleStatuses]
    /\ analysed \in [Ads -> BOOLEAN]
    /\ holders \in [Ads -> SUBSET Workers]

LifecycleInit ==
    /\ status = [a \in Ads |-> "absent"]
    /\ analysed = [a \in Ads |-> FALSE]
    /\ holders = [a \in Ads |-> {}]

Accept(a) ==
    /\ status[a] = "absent"
    /\ status' = [status EXCEPT ![a] = "submitted"]
    /\ UNCHANGED <<analysed, holders>>

Admit(a) ==
    /\ status[a] = "submitted"
    /\ status' = [status EXCEPT ![a] = "queued"]
    /\ UNCHANGED <<analysed, holders>>

Claim(a, w) ==
    /\ status[a] = "queued"
    /\ holders[a] = {}
    /\ status' = [status EXCEPT ![a] = "processing"]
    /\ holders' = [holders EXCEPT ![a] = {w}]
    /\ UNCHANGED analysed

Abandon(a) ==
    /\ status[a] = "processing"
    /\ holders' = [holders EXCEPT ![a] = {}]
    /\ UNCHANGED <<status, analysed>>

Finish(a) ==
    /\ status[a] = "processing"
    /\ holders[a] # {}
    /\ status' = [status EXCEPT ![a] = "completed"]
    /\ UNCHANGED <<analysed, holders>>

Deliver(a) ==
    /\ status[a] = "completed"
    /\ holders[a] # {}
    /\ analysed' = [analysed EXCEPT ![a] = TRUE]
    /\ holders' = [holders EXCEPT ![a] = {}]
    /\ UNCHANGED status

LifecycleNext ==
    \E a \in Ads :
        \/ Accept(a)
        \/ Admit(a)
        \/ \E w \in Workers : Claim(a, w)
        \/ Abandon(a)
        \/ Finish(a)
        \/ Deliver(a)

LifecycleSpec == LifecycleInit /\ [][LifecycleNext]_lifecycleVars

=============================================================================
