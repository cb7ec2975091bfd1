----------------------------- MODULE AdQueries -----------------------------
(***************************************************************************)
(* The reading side of the API: clients of AdListing and AdCache over the  *)
(* repository the pipeline keeps changing.  Readers write nothing the      *)
(* pipeline reads, so AdLifecycle stands for all of it; and they share     *)
(* nothing else, so a workload has one kind of client at a time.           *)
(***************************************************************************)
EXTENDS AdListing, AdCache

CONSTANT
    Workloads       \* which ads are submitted, when they were created, to which
                    \* nodes, and who reads; ads are named in the order of Save

ASSUME WorkloadAssumption ==
    \A l \in Workloads :
        /\ l.ads \in Seq(Ads)
        /\ l.times \in [1 .. Len(l.ads) -> Nat]
        /\ l.caches \subseteq CacheTypes
        /\ l.nodes \subseteq Nodes
        /\ l.readers \in {"pager", "getters"}
        /\ l.readers = "pager" => Cardinality(l.nodes) = 1

VARIABLE
    workload

queryVars == <<lifecycleVars, createdAt, listVars, cacheVars, workload>>

Init ==
    /\ workload \in Workloads
    /\ LifecycleInit
    /\ ListingInit
    /\ CacheInit
    /\ cacheType \in workload.caches

\* A workload is over when its client is done.
going == client \notin {"done", "counted"}

\* A node of the workload accepts the next ad.  The handler takes CreatedAt
\* from the clock before SubmitAd saves the ad, so concurrent requests may be
\* saved in another order than they were created, or have the same time.
AcceptAt(a, n) ==
    /\ going
    /\ n \in workload.nodes
    /\ Accept(a)
    /\ LET k == Cardinality(Matching(NoFilter)) + 1
       IN  /\ k =< Len(workload.ads) /\ a = workload.ads[k]
           /\ createdAt' = [createdAt EXCEPT ![a] = workload.times[k]]
    /\ home' = [home EXCEPT ![a] = n]
    /\ ListingObserves
    /\ UNCHANGED <<cacheType, cache, requestVars, workload>>

\* The pipeline of an ad's node takes it one step further.
Advance(a) ==
    /\ going
    /\ \/ Admit(a)
       \/ \E w \in Workers : Claim(a, w)
       \/ Abandon(a) /\ holders[a] # {}
       \/ Finish(a)
       \/ Deliver(a)
    /\ ListingObserves
    /\ UNCHANGED <<createdAt, cacheVars, workload>>

ListingStep ==
    /\ workload.readers = "pager"
    /\ ListingNext
    /\ UNCHANGED <<lifecycleVars, cacheVars, workload>>

onlyCache == UNCHANGED <<lifecycleVars, createdAt, listVars, workload>>

RequestStep(g) ==
    /\ workload.readers = "getters"
    /\ \/ getAd(g) /\ gnode'[g] \in workload.nodes
       \/ GetAd(g)
    /\ onlyCache

Next ==
    \/ \E a \in Ads, n \in Nodes : AcceptAt(a, n)
    \/ \E a \in Ads : Advance(a)
    \/ ListingStep
    \/ \E g \in Getters : RequestStep(g)
    \/ \E a \in Ads : Expire(a) /\ onlyCache

\* A request in progress is a goroutine that runs to its end, and Redis expires
\* its keys.  Clients need not ask and the pipeline need not move.
Fairness ==
    /\ \A g \in Getters : WF_queryVars(GetAd(g) /\ onlyCache)
    /\ \A a \in Ads : WF_queryVars(Expire(a) /\ onlyCache)

Spec == Init /\ [][Next]_queryVars /\ Fairness

\* Every variable keeps its type; a request in progress has an ad and a node,
\* and a list in progress has a status to read.
QueriesTypeOK == LifecycleTypeOK /\ ListingTypeOK /\ CacheTypeOK

=============================================================================
