------------------------------ MODULE AdCache ------------------------------
(***************************************************************************)
(* GET /ads/{id}: GetAd with the cache in front of the repository, on one  *)
(* or several API nodes.  Every node has a MemoryRepository of its own,    *)
(* which holds the ads it has accepted; the Redis cache is common to all   *)
(* of them.  The cache repository is the node's own memory repository when *)
(* Redis is not used.                                                      *)
(*                                                                         *)
(* A request is up to three calls (cache Get, repository Get, cache Set)   *)
(* and other requests and the pipeline run between them.  Of an ad the     *)
(* model keeps what AdLifecycle has; the fields JSON drops on the way      *)
(* through Redis (attempts, worker, version, effective priority) are not   *)
(* among them, and neither are they part of a response.                    *)
(***************************************************************************)
EXTENDS AdLifecycle, Naturals

CONSTANTS
    Nodes,          \* API nodes
    Getters,        \* goroutines that serve GET /ads/{id}
    None,           \* no ad ID, no node
    CacheTypes,     \* the cache repositories the nodes may start with
    DefaultTTL      \* RedisOptions.DefaultTTL

ASSUME CacheAssumption ==
    /\ None \notin Nodes \union Ads
    /\ CacheTypes \subseteq {"memory", "redis"}
    /\ DefaultTTL \in Nat

VARIABLES
    cacheType,      \* the cache repository of the nodes
    home,           \* the node whose repository holds each ad
    cache,          \* the keys "ad:<id>" of Redis
    gpc, gid,       \* requests: step and ad ID
    gnode,          \* requests: the node that serves them
    gcopy           \* requests: the ad in hand, and at last the answer

requestVars == <<gpc, gid, gnode, gcopy>>
cacheVars   == <<cacheType, home, cache, requestVars>>

View(a) == [status |-> status[a], analysed |-> analysed[a]]

NoView == [status |-> "absent", analysed |-> FALSE]

NoEntry == [ad |-> NoView, ttl |-> 0]

CacheInit ==
    /\ cacheType \in CacheTypes
    /\ home = [a \in Ads |-> None]
    /\ cache = [a \in Ads |-> NoEntry]
    /\ gpc = [g \in Getters |-> "idle"]
    /\ gid = [g \in Getters |-> None]
    /\ gnode = [g \in Getters |-> None]
    /\ gcopy = [g \in Getters |-> NoView]

-----------------------------------------------------------------------------

\* Mutant: a value without expiry, as SetGauge stores them.
noExpiry(ttlSeconds) == 0

\* The TTL of a Set: the caller's, or the repository's own.
entryTTL(ttlSeconds) == IF ttlSeconds > 0 THEN ttlSeconds ELSE DefaultTTL

requestedTTL == 300

ggoto(g, step) == gpc' = [gpc EXCEPT ![g] = step]

hand(g, view) == gcopy' = [gcopy EXCEPT ![g] = view]

\* A client asks any node for an ad whose ID it has seen.
getAd(g) ==
    /\ gpc[g] \in {"idle", "answered", "failed"}
    /\ \E a \in Ads, n \in Nodes :
        /\ status[a] # "absent"
        /\ gid' = [gid EXCEPT ![g] = a]
        /\ gnode' = [gnode EXCEPT ![g] = n]
    /\ ggoto(g, "cache")
    /\ hand(g, NoView)
    /\ UNCHANGED <<cacheType, home, cache>>

Local(g) == home[gid[g]] = gnode[g]

\* What a Get of the cache repository may find, NoView for nothing: the
\* node's own map, or the Redis key unless the call fails.
CacheResults(g) ==
    IF cacheType = "memory"
    THEN {IF Local(g) THEN View(gid[g]) ELSE NoView}
    ELSE {cache[gid[g]].ad, NoView}

\* Mutant: a cache that has no answer is the end of the request.
GetFromCacheOnly(g) ==
    /\ gpc[g] = "cache"
    /\ \E found \in CacheResults(g) :
        /\ hand(g, found)
        /\ ggoto(g, IF found # NoView THEN "answered" ELSE "failed")
    /\ UNCHANGED <<cacheType, home, cache, gid, gnode>>

\* A hit is the answer; a miss or an error sends the request to the repository.
GetFromCache(g) ==
    /\ gpc[g] = "cache"
    /\ \E found \in CacheResults(g) :
        /\ hand(g, found)
        /\ ggoto(g, IF found # NoView THEN "answered" ELSE "repo")
    /\ UNCHANGED <<cacheType, home, cache, gid, gnode>>

\* An ad the node does not have is answered with an internal error: the
\* repository wraps ErrAdNotFound, so GetAd does not recognise it.
GetFromRepository(g) ==
    /\ gpc[g] = "repo"
    /\ IF Local(g)
       THEN hand(g, View(gid[g])) /\ ggoto(g, "set")
       ELSE ggoto(g, "failed") /\ UNCHANGED gcopy
    /\ UNCHANGED <<cacheType, home, cache, gid, gnode>>

\* The ad read is stored, however old it is by now, and returned; an error of
\* the Set is ignored.  Only Redis is ever reached: with the memory cache the
\* Get before has read the same map.
SetInCache(g) ==
    /\ gpc[g] = "set"
    /\ cacheType = "redis"
    /\ cache' \in {cache, [cache EXCEPT ![gid[g]] = [ad |-> gcopy[g], ttl |-> entryTTL(requestedTTL)]]}
    /\ ggoto(g, "answered")
    /\ UNCHANGED <<cacheType, home, gid, gnode, gcopy>>

GetAd(g) ==
    \/ GetFromCache(g)
    \/ GetFromRepository(g)
    \/ SetInCache(g)

\* Redis removes a key when its TTL is over; without one it keeps it.
Expire(a) ==
    /\ cache[a].ttl > 0
    /\ cache' = [cache EXCEPT ![a] = NoEntry]
    /\ UNCHANGED <<cacheType, home, requestVars>>

-----------------------------------------------------------------------------

CacheTypeOK ==
    /\ cacheType \in CacheTypes
    /\ home \in [Ads -> Nodes \union {None}]
    /\ \A a \in Ads : home[a] = None <=> status[a] = "absent"
    /\ \A a \in Ads : cache[a] = NoEntry \/ (cache[a].ttl > 0 /\ cache[a].ad # NoView)
    /\ gpc \in [Getters -> {"idle", "cache", "repo", "set", "answered", "failed"}]
    /\ \A g \in Getters : gpc[g] # "idle" => gid[g] \in Ads /\ gnode[g] \in Nodes

\* "Strong consistency for initial ad submission", on each node: an ad the
\* node has accepted is found there from then on, whether Redis has it, has
\* lost it or does not answer.
AcceptedIsFound ==
    \A g \in Getters : gpc[g] = "failed" => ~Local(g)

\* Nothing but the ad's last state is cached or about to be.
Settled(a) ==
    /\ cache[a].ad \in {NoView, View(a)}
    /\ \A g \in Getters : gpc[g] = "set" /\ gid[g] = a => gcopy[g] = View(a)

\* "Eventual consistency model for status updates": requests store what they
\* read some time ago and overtake each other, so for a while a client may see
\* an ad go back; but once the analysis is there, old states disappear from
\* the cache for good and every node that has an answer has the last one.
CacheConverges == \A a \in Ads : analysed[a] ~> []Settled(a)

=============================================================================
