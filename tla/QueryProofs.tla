---------------------------- MODULE QueryProofs ----------------------------
(***************************************************************************)
(* The reading side of the API, proved for every value of the constants:   *)
(* any number of ads, workers, nodes, requests and workloads.  First the   *)
(* lists FindByStatus returns, then the invariant of the clients, then     *)
(* what they are shown.                                                    *)
(***************************************************************************)
EXTENDS AdQueries, FiniteSetTheorems, SequenceTheorems, TLAPS

-----------------------------------------------------------------------------
(* The invariant.                                                          *)

\* The order in which the statuses are read, which is the one in which ads move.
Place(st) ==
    IF st = "absent" THEN 0
    ELSE IF st = "submitted" THEN 1
    ELSE IF st = "queued" THEN 2
    ELSE IF st = "processing" THEN 3
    ELSE IF st = "completed" THEN 4
    ELSE 5

\* The statuses an accepted ad may have.
ReadStatuses == {"submitted", "queued", "processing", "completed", "failed"}

\* How many statuses a request that reads all of them has behind it.
Passed == 5 - Len(reading)

\* Every ad has a time of creation; nothing says that they differ.
CreatedInv ==
    /\ workload \in Workloads
    /\ createdAt \in [Ads -> Nat]

\* The ads that come before an ad in every sorted list, and those that may.
Newer(a, S) == {b \in S : createdAt[b] > createdAt[a]}
NotOlder(a, S) == {b \in S : createdAt[b] >= createdAt[a]}

\* The places an ad can have in a sorted list of S are Rank + 1 .. LastPlace:
\* one if it is untied, and as many as there are ads of its time otherwise.
Rank(a, S) == Cardinality(Newer(a, S))
LastPlace(a, S) == Cardinality(NotOlder(a, S))

\* The client's own variables.
ClientInv ==
    /\ client \in {"idle", "paging", "listing", "counting", "done", "counted"}
    /\ filter \in Filters \union {NoFilter}
    /\ limit \in Nat /\ offset \in Nat /\ total \in Nat
    /\ page \in Seq(Ads) /\ seen \in Seq(Ads)
    /\ present \subseteq {a \in Ads : status[a] # "absent"}
    /\ changed \in BOOLEAN /\ left \in BOOLEAN
    /\ left => changed
    /\ Len(seen) = offset
    /\ client # "listing" => page = <<>>
    /\ client = "idle" => offset = 0 /\ total = 0 /\ ~changed
    /\ client \in {"paging", "listing"} => limit >= 1
    /\ client = "listing" => Len(page) < limit

\* The statuses a request has yet to read: the last ones of the list, or one.
ReadingInv ==
    /\ reading \in Seq(ReadStatuses)
    /\ client \notin {"listing", "counting"} => reading = <<>>
    /\ client = "listing" /\ filter # NoFilter => reading = <<filter>> /\ page = <<>>
    /\ client = "counting" \/ (client = "listing" /\ filter = NoFilter) =>
        /\ Len(reading) >= 1 /\ Len(reading) =< 5
        /\ \A k \in 1 .. Len(reading) : reading[k] = allStatuses[Passed + k]

\* An ad the request has not come across is in a status it has yet to read.
StatsInv ==
    client \in {"counting", "counted"} =>
        total >= Cardinality({a \in present : Place(status[a]) =< Passed})

FirstPageInv ==
    client = "listing" /\ filter = NoFilter /\ offset = 0 =>
        \A a \in present : a \in ToSet(page) \/ Place(status[a]) > Passed

\* An ad the client has been shown as its k-th may have that place.
PlacedAt(k) ==
    /\ seen[k] \in present
    /\ Rank(seen[k], present) < k
    /\ k =< LastPlace(seen[k], present)

\* The pages of one status: the untied ads ahead of the offset have been shown,
\* and while nothing moves, every ad shown had a place it may have.
PagingInv ==
    client \in {"paging", "listing", "done"} /\ filter # NoFilter =>
        /\ ~left =>
            /\ present \subseteq WithStatus(filter)
            /\ \A a \in present :
                Untied(a) /\ Rank(a, WithStatus(filter)) < offset => a \in ToSet(seen)
        /\ ~changed =>
            /\ present = WithStatus(filter)
            /\ offset =< Cardinality(present)
            /\ \A k \in 1 .. offset : PlacedAt(k)
        /\ client = "done" /\ ~left => \A a \in present : Untied(a) => a \in ToSet(seen)
        /\ client = "done" /\ ~changed => offset = Cardinality(present)

\* What is cached or in hand was read from an ad that exists, and a request
\* that failed did so at a node that does not have the ad.
CacheInv ==
    /\ cacheType \in CacheTypes
    /\ home \in [Ads -> Nodes \union {None}]
    /\ \A a \in Ads : home[a] = None <=> status[a] = "absent"
    /\ cache \in [Ads -> [ad : [status : LifecycleStatuses, analysed : BOOLEAN], ttl : Nat]]
    /\ \A a \in Ads : cache[a] = NoEntry \/ (cache[a].ttl > 0 /\ cache[a].ad # NoView)
    /\ gpc \in [Getters -> {"idle", "cache", "repo", "set", "answered", "failed"}]
    /\ gid \in [Getters -> Ads \union {None}]
    /\ gnode \in [Getters -> Nodes \union {None}]
    /\ gcopy \in [Getters -> [status : LifecycleStatuses, analysed : BOOLEAN]]
    /\ \A g \in Getters :
        /\ gpc[g] # "idle" => gid[g] \in Ads /\ gnode[g] \in Nodes /\ status[gid[g]] # "absent"
        /\ gpc[g] = "set" => gcopy[g] # NoView
        /\ gpc[g] = "failed" => ~Local(g)

QueryInv ==
    /\ LifecycleTypeOK
    /\ CreatedInv
    /\ ClientInv
    /\ ReadingInv
    /\ StatsInv
    /\ FirstPageInv
    /\ PagingInv
    /\ CacheInv

-----------------------------------------------------------------------------
(* The order of creation.                                                  *)

\* Places are numbers, and the last one is not beyond the end of the list.
LEMMA PlaceTypes ==
    ASSUME NEW S, IsFiniteSet(S), NEW a
    PROVE  /\ IsFiniteSet(Newer(a, S)) /\ IsFiniteSet(NotOlder(a, S))
           /\ Rank(a, S) \in Nat /\ LastPlace(a, S) \in Nat
           /\ Cardinality(S) \in Nat /\ LastPlace(a, S) =< Cardinality(S)
<1>1. Newer(a, S) \in SUBSET S /\ NotOlder(a, S) \in SUBSET S
  BY DEF Newer, NotOlder
<1>2. IsFiniteSet(Newer(a, S))
  BY <1>1, FS_Subset
<1>3. IsFiniteSet(NotOlder(a, S)) /\ Cardinality(NotOlder(a, S)) =< Cardinality(S)
  BY <1>1, FS_Subset
<1>4. /\ Cardinality(Newer(a, S)) \in Nat /\ Cardinality(NotOlder(a, S)) \in Nat
      /\ Cardinality(S) \in Nat
  BY <1>2, <1>3, FS_CardinalityType
<1>5. QED
  BY <1>2, <1>3, <1>4 DEF Rank, LastPlace

\* All the places of an ad come before those of an older one.
LEMMA OlderIsLater ==
    ASSUME createdAt \in [Ads -> Nat], NEW S, S \subseteq Ads, IsFiniteSet(S),
           NEW a \in S, NEW b \in S, createdAt[a] > createdAt[b]
    PROVE  LastPlace(a, S) =< Rank(b, S)
<1>1. NotOlder(a, S) \in SUBSET Newer(b, S)
  <2>1. \A c \in S : createdAt[c] \in Nat
    OBVIOUS
  <2>2. QED
    BY <2>1 DEF NotOlder, Newer
<1>2. IsFiniteSet(Newer(b, S))
  BY PlaceTypes
<1>3. QED
  BY <1>1, <1>2, FS_Subset DEF LastPlace, Rank

\* The ads of one time have as many places as they are.
LEMMA TiedPlaces ==
    ASSUME createdAt \in [Ads -> Nat], NEW S, S \subseteq Ads, IsFiniteSet(S), NEW a \in S
    PROVE  LastPlace(a, S) =
                Rank(a, S) + Cardinality({b \in S : createdAt[b] = createdAt[a]})
<1> DEFINE N == Newer(a, S)
           T == {b \in S : createdAt[b] = createdAt[a]}
           M == NotOlder(a, S)
<1>1. M = N \union T /\ N \cap T = {} /\ T \in SUBSET S
  <2>1. \A c \in S : createdAt[c] \in Nat
    OBVIOUS
  <2>2. QED
    BY <2>1 DEF NotOlder, Newer
<1>2. IsFiniteSet(N) /\ IsFiniteSet(T)
  BY <1>1, PlaceTypes, FS_Subset
<1>3. Rank(a, S) = Cardinality(N) /\ LastPlace(a, S) = Cardinality(M)
  BY DEF Rank, LastPlace
<1> HIDE DEF N, T, M
<1>4. Cardinality(N \union T) = Cardinality(N) + Cardinality(T) - Cardinality(N \cap T)
  BY <1>2, FS_Union
<1>5. Cardinality(N \cap T) = 0
  BY <1>1, FS_EmptySet
<1>6. Cardinality(N) \in Nat /\ Cardinality(T) \in Nat
  BY <1>2, FS_CardinalityType
<1>7. Cardinality(M) = Cardinality(N) + Cardinality(T)
  BY <1>1, <1>4, <1>5, <1>6
<1>8. QED
  BY <1>3, <1>7 DEF T

\* An ad that shares its time with no other has one place.
LEMMA UntiedPlace ==
    ASSUME createdAt \in [Ads -> Nat], NEW S, S \subseteq Ads, IsFiniteSet(S), NEW a \in S,
           \A b \in S : createdAt[b] = createdAt[a] => b = a
    PROVE  LastPlace(a, S) = Rank(a, S) + 1
<1> DEFINE T == {b \in S : createdAt[b] = createdAt[a]}
<1>1. T = {a}
  OBVIOUS
<1>2. LastPlace(a, S) = Rank(a, S) + Cardinality(T)
  BY TiedPlaces
<1> HIDE DEF T
<1>3. Cardinality(T) = 1
  BY <1>1, FS_Singleton
<1>4. QED
  BY <1>2, <1>3

-----------------------------------------------------------------------------
(* The lists of FindByStatus.                                              *)

\* The ads of a status are finitely many.
LEMMA StatusSet ==
    ASSUME NEW st
    PROVE  /\ IsFiniteSet(WithStatus(st)) /\ WithStatus(st) \subseteq Ads
           /\ CountByStatus(st) \in Nat /\ CountByStatus(st) = Cardinality(WithStatus(st))
<1>1. WithStatus(st) \in SUBSET Ads
  BY DEF WithStatus
<1>2. IsFiniteSet(WithStatus(st))
  BY <1>1, ListingAssumption, FS_Subset
<1>3. QED
  BY <1>1, <1>2, FS_CardinalityType DEF CountByStatus

\* Whatever the order of ties, a sorted list has every ad of the status once,
\* at a place the ad may have.
LEMMA NewestFirstFacts ==
    ASSUME CreatedInv, NEW st, NEW s \in NewestFirst(st)
    PROVE  /\ s \in Seq(Ads) /\ Len(s) = CountByStatus(st)
           /\ \A a \in WithStatus(st) : \E i \in 1 .. CountByStatus(st) : s[i] = a
           /\ \A i \in 1 .. CountByStatus(st) :
                /\ s[i] \in WithStatus(st)
                /\ Rank(s[i], WithStatus(st)) < i
                /\ i =< LastPlace(s[i], WithStatus(st))
<1> DEFINE S == WithStatus(st)
           n == CountByStatus(st)
<1>1. IsFiniteSet(S) /\ S \subseteq Ads /\ n \in Nat /\ n = Cardinality(S)
  BY StatusSet
<1>2. /\ s \in [1 .. n -> S] /\ IsInjective(s)
      /\ \A i, j \in 1 .. n : i < j => createdAt[s[i]] >= createdAt[s[j]]
  BY DEF NewestFirst
<1>3. createdAt \in [Ads -> Nat]
  BY DEF CreatedInv
<1> HIDE DEF S, n
<1>4. s \in Seq(Ads) /\ Len(s) = n
  <2>1. s \in [1 .. n -> Ads]
    BY <1>1, <1>2
  <2>2. s \in Seq(Ads)
    BY <1>1, <2>1
  <2>3. DOMAIN s = 1 .. n
    BY <1>2
  <2>4. QED
    BY <1>1, <2>2, <2>3, LenProperties
<1>5. \A a \in S : \E i \in 1 .. n : s[i] = a
  <2>1. s \in Injection(1 .. n, S)
    BY <1>2 DEF Injection
  <2>2. Cardinality(1 .. n) = Cardinality(S)
    <3>1. 1 \in Int /\ n \in Int
      BY <1>1
    <3>2. Cardinality(1 .. n) = IF 1 > n THEN 0 ELSE n - 1 + 1
      BY <3>1, FS_Interval
    <3>3. QED
      BY <1>1, <3>2
  <2>3. s \in Surjection(1 .. n, S)
    BY <1>1, <2>1, <2>2, FS_Injection
  <2>4. QED
    BY <2>3 DEF Surjection
<1>6. \A i, j \in 1 .. n : s[i] = s[j] => i = j
  BY <1>2 DEF IsInjective
<1>7. ASSUME NEW i \in 1 .. n
      PROVE  Rank(s[i], S) < i
  <2> DEFINE N == Newer(s[i], S)
             T == 1 .. i - 1
             g == [b \in N |-> CHOOSE j \in 1 .. n : s[j] = b]
  <2>1. ASSUME NEW b \in N
        PROVE  g[b] \in T /\ s[g[b]] = b
    <3>1. b \in S /\ createdAt[b] > createdAt[s[i]] /\ s[i] \in S
      BY <1>2 DEF Newer
    <3>2. g[b] \in 1 .. n /\ s[g[b]] = b
      BY <1>5, <3>1
    <3>3. PICK j \in 1 .. n : j = g[b] /\ s[j] = b
      BY <3>2
    <3>4. createdAt[b] \in Nat /\ createdAt[s[i]] \in Nat
      BY <1>1, <1>3, <3>1
    <3>5. ~(i < j) /\ i # j
      BY <1>2, <3>1, <3>3, <3>4
    <3>6. j \in T
      BY <1>1, <3>5
    <3>7. QED
      BY <3>3, <3>6
  <2>2. g \in Injection(N, T)
    <3>1. g \in [N -> T]
      BY <2>1
    <3>2. \A b, c \in N : g[b] = g[c] => b = c
      BY <2>1
    <3>3. QED
      BY <3>1, <3>2 DEF Injection, IsInjective
  <2>3. IsFiniteSet(T) /\ Cardinality(T) = i - 1
    <3>1. 1 \in Int /\ i - 1 \in Int
      OBVIOUS
    <3>2. IsFiniteSet(T) /\ Cardinality(T) = IF 1 > i - 1 THEN 0 ELSE (i - 1) - 1 + 1
      BY <3>1, FS_Interval
    <3> HIDE DEF T
    <3>3. QED
      BY <1>1, <3>2
  <2> HIDE DEF g, T
  <2>4. Cardinality(N) =< Cardinality(T)
    BY <2>2, <2>3, FS_Injection
  <2>5. Rank(s[i], S) = Cardinality(N)
    BY DEF Rank
  <2>6. Rank(s[i], S) \in Nat
    BY <1>1, PlaceTypes
  <2> HIDE DEF N
  <2>7. QED
    BY <2>3, <2>4, <2>5, <2>6
<1>8. ASSUME NEW i \in 1 .. n
      PROVE  i =< LastPlace(s[i], S)
  <2> DEFINE M == NotOlder(s[i], S)
             T == 1 .. i
             h == [j \in T |-> s[j]]
  <2>1. ASSUME NEW j \in T
        PROVE  j \in 1 .. n /\ s[j] \in M
    <3>1. j \in 1 .. n /\ (j < i \/ j = i)
      BY <1>1
    <3>2. s[j] \in S /\ s[i] \in S
      BY <1>2, <3>1
    <3>3. createdAt[s[j]] \in Nat /\ createdAt[s[i]] \in Nat
      BY <1>1, <1>3, <3>2
    <3>4. createdAt[s[j]] >= createdAt[s[i]]
      BY <1>2, <3>1, <3>3
    <3>5. QED
      BY <3>1, <3>2, <3>4 DEF NotOlder
  <2>2. h \in Injection(T, M)
    <3>1. h \in [T -> M]
      BY <2>1
    <3>2. \A j, k \in T : h[j] = h[k] => j = k
      BY <1>6, <2>1
    <3>3. QED
      BY <3>1, <3>2 DEF Injection, IsInjective
  <2>3. Cardinality(T) = i
    <3>1. 1 \in Int /\ i \in Int
      OBVIOUS
    <3>2. Cardinality(T) = IF 1 > i THEN 0 ELSE i - 1 + 1
      BY <3>1, FS_Interval
    <3> HIDE DEF T
    <3>3. QED
      BY <1>1, <3>2
  <2>4. IsFiniteSet(M)
    BY <1>1, PlaceTypes
  <2> HIDE DEF h, T
  <2>5. Cardinality(T) =< Cardinality(M)
    BY <2>2, <2>4, FS_Injection
  <2>6. QED
    BY <2>3, <2>5 DEF LastPlace
<1>9. QED
  BY <1>2, <1>4, <1>5, <1>7, <1>8 DEF S, n

\* A page is what the list has from the offset on, as much as the limit allows.
LEMMA PageFacts ==
    ASSUME NEW S, NEW s \in Seq(S), NEW lim \in Nat, NEW off \in Nat
    PROVE  /\ Page(s, lim, off) \in Seq(S)
           /\ Len(Page(s, lim, off)) =
                IF off >= Len(s) THEN 0 ELSE IF off + lim > Len(s) THEN Len(s) - off ELSE lim
           /\ \A i \in 1 .. Len(Page(s, lim, off)) :
                off + i \in 1 .. Len(s) /\ Page(s, lim, off)[i] = s[off + i]
<1>1. CASE off >= Len(s)
  BY <1>1 DEF Page
<1>2. CASE off < Len(s)
  <2> DEFINE last == IF off + lim > Len(s) THEN Len(s) ELSE off + lim
             p == SubSeq(s, off + 1, last)
  <2>1. last \in off .. Len(s) /\ Len(s) \in Nat /\ Page(s, lim, off) = p
    BY <1>2 DEF Page
  <2> HIDE DEF last
  <2>2. /\ p \in Seq(S) /\ Len(p) = last - off
        /\ \A i \in 1 .. last - off : p[i] = s[off + i]
    <3>1. \A k \in off + 1 .. last : s[k] \in S
      BY <2>1
    <3>2. off + 1 \in 1 .. Len(s) + 1 /\ last \in off + 1 - 1 .. Len(s)
      BY <1>2, <2>1
    <3>3. /\ p \in Seq(S)
          /\ Len(p) = IF off + 1 =< last THEN last - (off + 1) + 1 ELSE 0
          /\ \A i \in 1 .. last - (off + 1) + 1 : p[i] = s[(off + 1) + i - 1]
      BY <3>2, SubSeqProperties
    <3>4. QED
      BY <2>1, <3>3
  <2> HIDE DEF p
  <2>3. last - off = IF off + lim > Len(s) THEN Len(s) - off ELSE lim
    BY <1>2, <2>1 DEF last
  <2>4. ~(off >= Len(s))
    BY <1>2, <2>1
  <2>5. ASSUME NEW i \in 1 .. Len(p)
        PROVE  off + i \in 1 .. Len(s) /\ p[i] = s[off + i]
    <3>1. i \in 1 .. last - off
      BY <2>2
    <3>2. QED
      BY <2>1, <2>2, <3>1
  <2>6. QED
    BY <2>1, <2>2, <2>3, <2>4, <2>5
<1>3. QED
  BY <1>1, <1>2

-----------------------------------------------------------------------------
(* Steps of the pipeline.                                                  *)

PipelineStep == (\E a \in Ads, n \in Nodes : AcceptAt(a, n)) \/ (\E a \in Ads : Advance(a))

\* Ads move forward only.
LEMMA StatusMoves ==
    ASSUME LifecycleTypeOK, PipelineStep
    PROVE  /\ LifecycleTypeOK'
           /\ \A a \in Ads : Place(status[a]) =< Place(status'[a])
           /\ \A a \in Ads : status[a] # "absent" => status'[a] # "absent"
<1>0. /\ status \in [Ads -> LifecycleStatuses] /\ analysed \in [Ads -> BOOLEAN]
      /\ holders \in [Ads -> SUBSET Workers]
  BY DEF LifecycleTypeOK
<1>1. ASSUME NEW a \in Ads, NEW w \in Workers, Accept(a) \/ Admit(a) \/ Claim(a, w) \/ Finish(a)
      PROVE  /\ LifecycleTypeOK'
             /\ \A b \in Ads : Place(status[b]) =< Place(status'[b])
             /\ \A b \in Ads : status[b] # "absent" => status'[b] # "absent"
  BY <1>0, <1>1 DEF Accept, Admit, Claim, Finish, LifecycleTypeOK, LifecycleStatuses, Place
<1>2. ASSUME NEW a \in Ads, Accept(a) \/ Admit(a) \/ Finish(a)
      PROVE  /\ LifecycleTypeOK'
             /\ \A b \in Ads : Place(status[b]) =< Place(status'[b])
             /\ \A b \in Ads : status[b] # "absent" => status'[b] # "absent"
  BY <1>0, <1>2 DEF Accept, Admit, Finish, LifecycleTypeOK, LifecycleStatuses, Place
<1>3. ASSUME NEW a \in Ads, Abandon(a) \/ Deliver(a)
      PROVE  /\ LifecycleTypeOK'
             /\ \A b \in Ads : Place(status[b]) =< Place(status'[b])
             /\ \A b \in Ads : status[b] # "absent" => status'[b] # "absent"
  <2>1. LifecycleTypeOK' /\ status' = status
    BY <1>0, <1>3 DEF Abandon, Deliver, LifecycleTypeOK
  <2>2. QED
    BY <1>0, <2>1 DEF LifecycleStatuses, Place
<1>4. QED
  BY <1>1, <1>2, <1>3 DEF PipelineStep, AcceptAt, Advance

\* Only an ad that is new gets another time of creation.
LEMMA CreatedStays ==
    ASSUME LifecycleTypeOK, CreatedInv, PipelineStep
    PROVE  /\ CreatedInv'
           /\ \A a \in Ads : status[a] # "absent" => createdAt'[a] = createdAt[a]
<1>0. workload \in Workloads /\ createdAt \in [Ads -> Nat]
  BY DEF CreatedInv
<1>1. CASE \E a \in Ads, n \in Nodes : AcceptAt(a, n)
  <2>1. Cardinality(Matching(NoFilter)) \in Nat
    <3>1. Matching(NoFilter) \in SUBSET Ads
      BY DEF Matching
    <3>2. QED
      BY <3>1, ListingAssumption, FS_Subset, FS_CardinalityType
  <2>a. PICK k \in Nat : k = Cardinality(Matching(NoFilter)) + 1 /\ k >= 1
    BY <2>1
  <2>2. PICK c \in Ads : /\ status[c] = "absent" /\ workload' = workload
                         /\ k =< Len(workload.ads)
                         /\ createdAt' = [createdAt EXCEPT ![c] = workload.times[k]]
    BY <1>1, <2>a DEF AcceptAt, Accept
  <2>3. workload.ads \in Seq(Ads) /\ workload.times \in [1 .. Len(workload.ads) -> Nat]
    BY <1>0, WorkloadAssumption
  <2>4. PICK n \in Nat : n = Len(workload.ads)
    BY <2>3
  <2>5. k \in 1 .. n
    BY <2>a, <2>2, <2>4
  <2>6. workload.times[k] \in Nat
    BY <2>3, <2>4, <2>5
  <2>7. PICK u \in Nat : u = workload.times[k]
    BY <2>6
  <2>8. createdAt' = [createdAt EXCEPT ![c] = u]
    BY <2>2, <2>7
  <2>9. createdAt' \in [Ads -> Nat] /\ \A a \in Ads : a # c => createdAt'[a] = createdAt[a]
    BY <1>0, <2>8
  <2>10. workload' \in Workloads
    BY <1>0, <2>2
  <2>11. QED
    BY <2>2, <2>9, <2>10 DEF CreatedInv
<1>2. CASE \E a \in Ads : Advance(a)
  BY <1>0, <1>2 DEF Advance, CreatedInv
<1>3. QED
  BY <1>1, <1>2 DEF PipelineStep

\* The client's variables stay, but for what it keeps track of.
LEMMA PipelineClient ==
    ASSUME LifecycleTypeOK, ClientInv, ReadingInv, PipelineStep
    PROVE  ClientInv' /\ ReadingInv'
<1>1. /\ UNCHANGED <<client, filter, limit, offset, reading, page, total, seen, present>>
      /\ changed' = (changed \/ (client # "idle" /\ Matching(filter)' # Matching(filter)))
      /\ left' = (left \/ (client # "idle" /\ ~(Matching(filter) \subseteq Matching(filter)')))
  BY DEF PipelineStep, AcceptAt, Advance, ListingObserves
<1>2. changed' \in BOOLEAN /\ left' \in BOOLEAN /\ (left' => changed')
  BY <1>1 DEF ClientInv
<1>3. client = "idle" => (changed' <=> changed)
  BY <1>1
<1>4. present \subseteq {a \in Ads : status'[a] # "absent"}
  BY StatusMoves DEF ClientInv
<1>5. ClientInv'
  BY <1>1, <1>2, <1>3, <1>4 DEF ClientInv
<1>6. ReadingInv'
  BY <1>1 DEF ReadingInv, Passed
<1>7. QED
  BY <1>5, <1>6

\* An ad that a request has yet to come across stays ahead of it.
LEMMA PipelineAhead ==
    ASSUME LifecycleTypeOK, ClientInv, ReadingInv, StatsInv, FirstPageInv, PipelineStep
    PROVE  StatsInv' /\ FirstPageInv'
<1>1. UNCHANGED <<client, filter, offset, reading, page, total, present>>
  BY DEF PipelineStep, AcceptAt, Advance, ListingObserves
<1>2. /\ \A a \in present : Place(status[a]) =< Place(status'[a])
      /\ \A a \in present : Place(status[a]) \in Int /\ Place(status'[a]) \in Int
      /\ Passed \in Int /\ Passed' = Passed /\ total \in Nat
  <2>1. present \subseteq Ads /\ total \in Nat /\ reading \in Seq(ReadStatuses)
    BY DEF ClientInv, ReadingInv
  <2>2. \A a \in present : Place(status[a]) =< Place(status'[a])
    BY <2>1, StatusMoves
  <2>3. \A a \in present : Place(status[a]) \in Int /\ Place(status'[a]) \in Int
    BY DEF Place
  <2>4. Passed \in Int /\ Passed' = Passed
    BY <1>1, <2>1 DEF Passed
  <2>5. QED
    BY <2>1, <2>2, <2>3, <2>4
<1>3. FirstPageInv'
  <2>1. SUFFICES ASSUME client = "listing", filter = NoFilter, offset = 0, NEW a \in present
                 PROVE  a \in ToSet(page) \/ Place(status'[a]) > Passed
    BY <1>1, <1>2 DEF FirstPageInv
  <2>2. a \in ToSet(page) \/ Place(status[a]) > Passed
    BY <2>1 DEF FirstPageInv
  <2>3. QED
    BY <1>2, <2>2
<1>4. StatsInv'
  <2> DEFINE B == {a \in present : Place(status[a]) =< Passed}
             C == {a \in present : Place(status'[a]) =< Passed}
  <2>1. SUFFICES ASSUME client \in {"counting", "counted"}
                 PROVE  total >= Cardinality(C)
    BY <1>1, <1>2 DEF StatsInv
  <2>2. total >= Cardinality(B)
    BY <2>1 DEF StatsInv
  <2>3. C \in SUBSET B
    BY <1>2
  <2>4. B \in SUBSET Ads
    BY DEF ClientInv
  <2>5. IsFiniteSet(B)
    BY <2>4, ListingAssumption, FS_Subset
  <2>6. IsFiniteSet(C) /\ Cardinality(C) =< Cardinality(B)
    BY <2>3, <2>5, FS_Subset
  <2>7. Cardinality(B) \in Nat /\ Cardinality(C) \in Nat
    BY <2>5, <2>6, FS_CardinalityType
  <2> HIDE DEF B, C
  <2>8. QED
    BY <1>2, <2>2, <2>6, <2>7
<1>5. QED
  BY <1>3, <1>4

\* What a filter for one status matches.
LEMMA MatchingStatus ==
    ASSUME NEW f \in Filters, f # NoFilter
    PROVE  /\ f # "absent" /\ Matching(f) = WithStatus(f)
           /\ Matching(f)' = WithStatus(f)'
<1>1. f # "absent"
  BY ListingAssumption
<1>2. QED
  BY <1>1 DEF Matching, WithStatus

\* While ads only enter a status, the places of those that were there only
\* move back, away from the offset; while none enters, they stay.
LEMMA PipelinePaging ==
    ASSUME LifecycleTypeOK, CreatedInv, ClientInv, PagingInv, PipelineStep
    PROVE  PagingInv'
<1>1. /\ UNCHANGED <<client, filter, offset, seen, present>>
      /\ changed' = (changed \/ (client # "idle" /\ Matching(filter)' # Matching(filter)))
      /\ left' = (left \/ (client # "idle" /\ ~(Matching(filter) \subseteq Matching(filter)')))
      /\ client # "done"
  BY DEF PipelineStep, AcceptAt, Advance, ListingObserves, going
<1> DEFINE f == filter
           M == WithStatus(f)
           N == WithStatus(f)'
<1>2. SUFFICES ASSUME client \in {"paging", "listing"}, f # NoFilter
               PROVE  /\ ~left' => /\ present \subseteq N
                                   /\ \A a \in present :
                                        Untied(a)' /\ Rank(a, WithStatus(f))' < offset => a \in ToSet(seen)
                      /\ ~changed' => /\ present = N
                                      /\ offset =< Cardinality(present)
                                      /\ \A k \in 1 .. offset : PlacedAt(k)'
  <2>1. ToSet(seen)' = ToSet(seen) /\ WithStatus(filter)' = N /\ Cardinality(present)' = Cardinality(present)
    BY <1>1 DEF ToSet
  <2>2. \A a : Rank(a, WithStatus(filter))' = Rank(a, WithStatus(f))'
    BY <1>1
  <2>3. QED
    BY <1>1, <2>1, <2>2 DEF PagingInv
<1>3. f \in Filters /\ f' = f
  BY <1>1, <1>2 DEF ClientInv
<1>4. /\ f # "absent" /\ Matching(f) = M /\ Matching(f)' = N
  BY <1>2, <1>3, MatchingStatus
<1>5. /\ IsFiniteSet(M) /\ M \subseteq Ads /\ IsFiniteSet(N) /\ N \subseteq Ads
      /\ offset \in Nat /\ present \subseteq Ads
      /\ createdAt \in [Ads -> Nat] /\ createdAt' \in [Ads -> Nat]
      /\ \A a \in present \union M : createdAt'[a] = createdAt[a]
  <2>1. CreatedInv' /\ \A a \in Ads : status[a] # "absent" => createdAt'[a] = createdAt[a]
    BY CreatedStays
  <2>2. M \in SUBSET Ads /\ N \in SUBSET Ads /\ \A a \in M : status[a] # "absent"
    BY <1>4 DEF WithStatus
  <2>3. IsFiniteSet(M) /\ IsFiniteSet(N)
    BY <2>2, ListingAssumption, FS_Subset
  <2>4. offset \in Nat /\ present \subseteq Ads /\ \A a \in present : status[a] # "absent"
    BY DEF ClientInv
  <2>5. QED
    BY <2>1, <2>2, <2>3, <2>4 DEF CreatedInv
<1>6. /\ ~left => /\ present \subseteq M
                  /\ \A a \in present : Untied(a) /\ Rank(a, M) < offset => a \in ToSet(seen)
      /\ ~changed => /\ present = M
                     /\ offset =< Cardinality(present)
                     /\ \A k \in 1 .. offset : PlacedAt(k)
  BY <1>2 DEF PagingInv
<1>7. /\ ~left' => ~left /\ M \subseteq N
      /\ ~changed' => ~changed /\ M = N
  BY <1>1, <1>2, <1>4
<1>8. ASSUME ~left', NEW a \in present, Untied(a)', Rank(a, WithStatus(f))' < offset
      PROVE  a \in ToSet(seen)
  <2> DEFINE B == {b \in M : createdAt[b] > createdAt[a]}
             C == {b \in N : createdAt'[b] > createdAt'[a]}
  <2>1. a \in M /\ Rank(a, M) = Cardinality(B) /\ Rank(a, WithStatus(f))' = Cardinality(C)
    BY <1>6, <1>7, <1>8 DEF Rank, Newer
  <2>2. B \in SUBSET C /\ C \in SUBSET N
    BY <1>5, <1>7, <1>8
  <2>3. IsFiniteSet(C)
    BY <1>5, <2>2, FS_Subset
  <2>4. IsFiniteSet(B) /\ Cardinality(B) =< Cardinality(C)
    BY <2>2, <2>3, FS_Subset
  <2>5. Cardinality(B) \in Nat /\ Cardinality(C) \in Nat
    BY <2>3, <2>4, FS_CardinalityType
  <2>6. Untied(a)
    <3>1. \A b \in N : createdAt'[b] = createdAt'[a] => b = a
      BY <1>1, <1>4, <1>8 DEF Untied
    <3>2. \A b \in M : createdAt[b] = createdAt[a] => b = a
      BY <1>5, <1>7, <1>8, <2>1, <3>1
    <3>3. QED
      BY <1>4, <3>2 DEF Untied
  <2> HIDE DEF B, C, M, N
  <2>7. Rank(a, M) < offset
    BY <1>5, <1>8, <2>1, <2>4, <2>5
  <2>8. QED
    BY <1>6, <1>7, <1>8, <2>6, <2>7
<1>9. ASSUME ~changed', NEW k \in 1 .. offset
      PROVE  PlacedAt(k)'
  <2>1. /\ seen[k] \in present /\ Rank(seen[k], present) < k /\ k =< LastPlace(seen[k], present)
        /\ present' = present /\ seen' = seen
    BY <1>1, <1>6, <1>7, <1>9 DEF PlacedAt
  <2>2. PICK a \in present : a = seen[k]
    BY <2>1
  <2>3. /\ {b \in present : createdAt'[b] > createdAt'[a]} = {b \in present : createdAt[b] > createdAt[a]}
        /\ {b \in present : createdAt'[b] >= createdAt'[a]} = {b \in present : createdAt[b] >= createdAt[a]}
    BY <1>5
  <2>4. Rank(a, present)' = Rank(a, present) /\ LastPlace(a, present)' = LastPlace(a, present)
    BY <2>1, <2>3 DEF Rank, LastPlace, Newer, NotOlder
  <2>5. a = seen[k]'
    BY <2>1, <2>2
  <2>6. QED
    BY <2>1, <2>2, <2>4, <2>5 DEF PlacedAt
<1>10. QED
  BY <1>6, <1>7, <1>8, <1>9

\* The requests' variables stay, and the accepting node becomes an ad's home.
LEMMA PipelineCache ==
    ASSUME LifecycleTypeOK, CacheInv, PipelineStep
    PROVE  CacheInv'
<1>0. /\ status \in [Ads -> LifecycleStatuses] /\ home \in [Ads -> Nodes \union {None}]
      /\ None \notin Nodes
  BY CacheAssumption DEF LifecycleTypeOK, CacheInv
<1>1. UNCHANGED <<cacheType, cache, gpc, gid, gnode, gcopy>>
  BY DEF PipelineStep, AcceptAt, Advance, requestVars, cacheVars
<1>2. /\ home' \in [Ads -> Nodes \union {None}]
      /\ \A a \in Ads : home'[a] = None <=> status'[a] = "absent"
      /\ \A a \in Ads : status[a] # "absent" => home'[a] = home[a] /\ status'[a] # "absent"
  <2>1. CASE \E a \in Ads, n \in Nodes : AcceptAt(a, n)
    <3>1. PICK a \in Ads, n \in Nodes :
            /\ status[a] = "absent" /\ status' = [status EXCEPT ![a] = "submitted"]
            /\ home' = [home EXCEPT ![a] = n]
      BY <2>1 DEF AcceptAt, Accept
    <3>2. QED
      BY <1>0, <3>1 DEF CacheInv
  <2>2. CASE \E a \in Ads : Advance(a)
    <3>1. home' = home
      BY <2>2 DEF Advance, cacheVars
    <3>2. \A a \in Ads : status'[a] = "absent" <=> status[a] = "absent"
      BY <1>0, <2>2 DEF Advance, Admit, Claim, Abandon, Finish, Deliver
    <3>3. QED
      BY <1>0, <3>1, <3>2 DEF CacheInv
  <2>3. QED
    BY <2>1, <2>2 DEF PipelineStep
<1>3. ASSUME NEW g \in Getters
      PROVE  /\ gpc'[g] # "idle" => gid'[g] \in Ads /\ gnode'[g] \in Nodes /\ status'[gid'[g]] # "absent"
             /\ gpc'[g] = "set" => gcopy'[g] # NoView
             /\ gpc'[g] = "failed" => ~Local(g)'
  BY <1>1, <1>2 DEF CacheInv, Local
<1>4. QED
  BY <1>1, <1>2, <1>3 DEF CacheInv

-----------------------------------------------------------------------------
(* Steps of the client that lists.                                         *)

\* The statuses in the order in which they are read.
LEMMA AllStatusesFacts ==
    /\ allStatuses \in Seq(ReadStatuses) /\ Len(allStatuses) = 5
    /\ \A k \in 1 .. 5 : allStatuses[k] \in ReadStatuses /\ Place(allStatuses[k]) = k
<1>1. allStatuses \in Seq(ReadStatuses)
  BY DEF allStatuses, ReadStatuses
<1>2. Len(allStatuses) = 5
  BY DEF allStatuses
<1>3. /\ allStatuses[1] = "submitted" /\ allStatuses[2] = "queued" /\ allStatuses[3] = "processing"
      /\ allStatuses[4] = "completed" /\ allStatuses[5] = "failed"
  BY DEF allStatuses
<1>4. \A k \in 1 .. 5 : k = 1 \/ k = 2 \/ k = 3 \/ k = 4 \/ k = 5
  OBVIOUS
<1>5. \A k \in 1 .. 5 : allStatuses[k] \in ReadStatuses /\ Place(allStatuses[k]) = k
  BY <1>3, <1>4 DEF Place, ReadStatuses
<1>6. QED
  BY <1>1, <1>2, <1>5

\* The status a request reads next is one an ad may have, and the first one it
\* has not passed.
LEMMA NextStatus ==
    ASSUME ReadingInv, client = "counting" \/ (client = "listing" /\ filter = NoFilter)
    PROVE  /\ Len(reading) >= 1 /\ Len(reading) =< 5 /\ Passed = 5 - Len(reading)
           /\ Head(reading) # "absent" /\ Place(Head(reading)) = Passed + 1
           /\ Tail(reading) \in Seq(ReadStatuses) /\ Len(Tail(reading)) = Len(reading) - 1
           /\ \A k \in 1 .. Len(reading) - 1 :
                Tail(reading)[k] = allStatuses[Passed + 1 + k]
<1> DEFINE n == Len(reading)
           s == allStatuses
           p == Passed
<1>1. reading \in Seq(ReadStatuses) /\ n \in Nat /\ n >= 1 /\ n =< 5
  BY DEF ReadingInv
<1>2. p \in Nat /\ p = 5 - n
  BY <1>1 DEF Passed
<1>a. \A k \in 1 .. n : reading[k] = s[p + k]
  BY DEF ReadingInv
<1>3. /\ Head(reading) = reading[1] /\ Tail(reading) \in Seq(ReadStatuses)
      /\ Len(Tail(reading)) = n - 1
      /\ \A k \in 1 .. n - 1 : Tail(reading)[k] = reading[k + 1]
  <2>1. reading # <<>>
    BY <1>1
  <2>2. Head(reading) = reading[1] /\ Tail(reading) \in Seq(ReadStatuses) /\ Len(Tail(reading)) = n - 1
    BY <1>1, <2>1, HeadTailProperties
  <2>3. \A k \in 1 .. Len(Tail(reading)) : Tail(reading)[k] = reading[k + 1]
    BY <1>1, <2>1, HeadTailProperties
  <2>4. QED
    BY <2>2, <2>3
<1> HIDE DEF n, s, p
<1>4. Head(reading) = s[p + 1] /\ p + 1 \in 1 .. 5
  <2>1. 1 \in 1 .. n /\ p + 1 \in 1 .. 5
    BY <1>1, <1>2
  <2>2. QED
    BY <1>a, <1>3, <2>1
<1>5. Head(reading) # "absent" /\ Place(Head(reading)) = p + 1
  <2>1. s[p + 1] \in ReadStatuses /\ Place(s[p + 1]) = p + 1
    BY <1>4, AllStatusesFacts DEF s
  <2>2. QED
    BY <1>4, <2>1 DEF ReadStatuses
<1>6. ASSUME NEW k \in 1 .. n - 1
      PROVE  Tail(reading)[k] = s[p + 1 + k]
  <2>1. k + 1 \in 1 .. n /\ p + (k + 1) = p + 1 + k
    BY <1>1, <1>2
  <2>2. reading[k + 1] = s[p + (k + 1)]
    BY <1>a, <2>1
  <2>3. Tail(reading)[k] = reading[k + 1]
    BY <1>3
  <2>4. QED
    BY <2>1, <2>2, <2>3
<1>7. QED
  BY <1>1, <1>2, <1>3, <1>5, <1>6 DEF s, n, p

\* A request for the list begins: nothing was shown yet.
LEMMA BeginPagingInv ==
    ASSUME QueryInv, UNCHANGED <<status, createdAt>>, NEW f \in Filters, NEW lim \in LimitInputs,
           BeginPaging(f, lim)
    PROVE  ClientInv' /\ ReadingInv' /\ StatsInv' /\ FirstPageInv' /\ PagingInv'
<1>0. /\ client = "idle" /\ client' = "paging" /\ filter' = f
      /\ limit' = ReasonableLimit(getIntQueryParam(lim, DefaultLimit))
      /\ present' = Matching(f)
      /\ UNCHANGED <<offset, reading, page, total, seen, changed, left>>
  BY DEF BeginPaging
<1>1. ClientInv /\ ReadingInv /\ CreatedInv
  BY DEF QueryInv
<1>2. limit' \in Nat /\ limit' >= 1
  <2>1. lim \in Int /\ DefaultLimit \in Nat \ {0} /\ MaxLimit \in Nat
    BY ListingAssumption
  <2>2. QED
    BY <1>0, <2>1 DEF ReasonableLimit, getIntQueryParam
<1>3. ClientInv'
  BY <1>0, <1>1, <1>2 DEF ClientInv, Matching
<1>4. ReadingInv'
  BY <1>0, <1>1 DEF ReadingInv
<1>5. PagingInv'
  <2>0. offset' = 0 /\ client' = "paging"
    BY <1>0, <1>1 DEF ClientInv
  <2>1. SUFFICES ASSUME f # NoFilter
                 PROVE  /\ present' = WithStatus(f)' /\ 0 =< Cardinality(present')
                        /\ \A a \in WithStatus(f)' : ~(Rank(a, WithStatus(f))' < 0)
    <3>1. filter' = f /\ WithStatus(filter)' = WithStatus(f)'
      BY <1>0
    <3>2. \A a : Rank(a, WithStatus(filter))' = Rank(a, WithStatus(f))'
      BY <1>0
    <3>3. \A k \in 1 .. offset' : FALSE
      BY <2>0
    <3>4. QED
      BY <2>0, <3>1, <3>2, <3>3 DEF PagingInv
  <2>2. f # "absent" /\ Matching(f) = WithStatus(f)
    BY <2>1, MatchingStatus
  <2>3. present' = WithStatus(f)' /\ WithStatus(f)' = WithStatus(f)
    BY <1>0, <2>2 DEF WithStatus
  <2>4. IsFiniteSet(WithStatus(f)) /\ CountByStatus(f) \in Nat /\ CountByStatus(f) = Cardinality(WithStatus(f))
    BY StatusSet
  <2>5. ASSUME NEW a \in WithStatus(f)'
        PROVE  ~(Rank(a, WithStatus(f))' < 0)
    <3>1. Rank(a, WithStatus(f)) \in Nat
      BY <2>4, PlaceTypes
    <3>2. Rank(a, WithStatus(f))' = Rank(a, WithStatus(f))
      BY DEF Rank, WithStatus, Newer
    <3>3. QED
      BY <3>1, <3>2
  <2>6. 0 =< Cardinality(present')
    BY <2>3, <2>4
  <2>7. QED
    BY <2>3, <2>5, <2>6
<1>6. QED
  BY <1>0, <1>3, <1>4, <1>5 DEF StatsInv, FirstPageInv

\* A request for a page, or for the statistics, begins: all is ahead of it.
LEMMA BeginReadingInv ==
    ASSUME QueryInv, UNCHANGED <<status, createdAt>>, listAds \/ getStats
    PROVE  ClientInv' /\ ReadingInv' /\ StatsInv' /\ FirstPageInv' /\ PagingInv'
<1>1. ClientInv /\ ReadingInv /\ CreatedInv /\ PagingInv
  BY DEF QueryInv
<1>a. ASSUME reading' = allStatuses
      PROVE  /\ reading' \in Seq(ReadStatuses) /\ Len(reading') >= 1 /\ Len(reading') =< 5
             /\ Passed' = 0
             /\ \A k \in 1 .. Len(reading') : reading'[k] = allStatuses[Passed' + k]
  <2>1. /\ reading' \in Seq(ReadStatuses) /\ Len(reading') >= 1 /\ Len(reading') =< 5
        /\ Passed' = 0
    BY <1>a, AllStatusesFacts DEF Passed
  <2>2. \A k \in 1 .. 5 : 0 + k = k
    OBVIOUS
  <2>3. \A k \in 1 .. Len(reading') : reading'[k] = allStatuses[Passed' + k]
    BY <1>a, <2>1, <2>2, AllStatusesFacts
  <2>4. QED
    BY <2>1, <2>3
<1>2. CASE listAds
  <2>0. /\ client = "paging" /\ client' = "listing"
        /\ reading' = IF filter = NoFilter THEN allStatuses ELSE <<filter>>
        /\ UNCHANGED <<filter, limit, offset, page, total, seen, present, changed, left>>
    BY <1>2 DEF listAds
  <2>1. ClientInv'
    BY <1>1, <2>0 DEF ClientInv
  <2>2. ReadingInv'
    <3>1. CASE filter = NoFilter
      BY <1>a, <2>0, <3>1 DEF ReadingInv
    <3>2. CASE filter # NoFilter
      <4>1. filter \in ReadStatuses /\ page = <<>>
        BY <1>1, <2>0, <3>2, ListingAssumption DEF ClientInv, ReadStatuses
      <4>2. reading' = <<filter>> /\ reading' \in Seq(ReadStatuses)
        BY <2>0, <3>2, <4>1
      <4>3. QED
        BY <2>0, <3>2, <4>1, <4>2 DEF ReadingInv
    <3>3. QED
      BY <3>1, <3>2
  <2>3. FirstPageInv'
    <3>1. SUFFICES ASSUME filter = NoFilter, NEW a \in present
                   PROVE  Place(status[a]) > 0
      BY <1>a, <2>0 DEF FirstPageInv
    <3>2. status[a] # "absent"
      BY <1>1, <3>1 DEF ClientInv
    <3>3. QED
      BY <3>2 DEF Place
  <2>4. PagingInv'
    <3>1. WithStatus(filter)' = WithStatus(filter) /\ Matching(filter)' = Matching(filter)
      BY <2>0 DEF WithStatus, Matching
    <3>2. \A a : Rank(a, WithStatus(filter))' = Rank(a, WithStatus(filter))
      BY <3>1 DEF Rank, Newer
    <3>3. \A a : Untied(a)' <=> Untied(a)
      BY <3>1 DEF Untied
    <3>4. \A k : PlacedAt(k)' <=> PlacedAt(k)
      BY <2>0 DEF PlacedAt, Rank, LastPlace, Newer, NotOlder
    <3>5. ToSet(seen)' = ToSet(seen)
      BY <2>0 DEF ToSet
    <3>6. QED
      BY <1>1, <2>0, <3>1, <3>2, <3>3, <3>4, <3>5 DEF PagingInv
  <2>5. QED
    BY <2>0, <2>1, <2>2, <2>3, <2>4 DEF StatsInv
<1>3. CASE getStats
  <2>0. /\ client = "idle" /\ client' = "counting" /\ present' = Matching(NoFilter)
        /\ reading' = allStatuses
        /\ UNCHANGED <<filter, limit, offset, page, total, seen, changed, left>>
    BY <1>3 DEF getStats
  <2>1. ClientInv'
    BY <1>1, <2>0 DEF ClientInv, Matching
  <2>2. ReadingInv'
    BY <1>a, <2>0 DEF ReadingInv
  <2>3. StatsInv'
    <3>1. total' = 0 /\ Passed' = 0
      BY <1>1, <1>a, <2>0 DEF ClientInv
    <3>2. \A a \in present' : Place(status'[a]) > 0
      BY <2>0 DEF Matching, Place
    <3>3. {a \in present' : Place(status'[a]) =< 0} = {}
      BY <3>2 DEF Place
    <3>4. Cardinality({}) = 0
      BY FS_EmptySet
    <3>5. QED
      BY <3>1, <3>3, <3>4 DEF StatsInv
  <2>4. QED
    BY <2>0, <2>1, <2>2, <2>3 DEF FirstPageInv, PagingInv
<1>4. QED
  BY <1>2, <1>3

\* A status is counted: whoever is in it now is in the sum, and whoever left it
\* has gone on to one that is yet to be counted.
LEMMA CountingInv ==
    ASSUME QueryInv, UNCHANGED <<status, createdAt>>, GetStats
    PROVE  ClientInv' /\ ReadingInv' /\ StatsInv' /\ FirstPageInv' /\ PagingInv'
<1>0. /\ client = "counting" /\ total' = total + CountByStatus(Head(reading))
      /\ reading' = Tail(reading)
      /\ client' = IF Len(reading) = 1 THEN "counted" ELSE "counting"
      /\ UNCHANGED <<filter, limit, offset, page, seen, present, changed, left>>
  BY DEF GetStats
<1>1. LifecycleTypeOK /\ CreatedInv /\ ClientInv /\ ReadingInv /\ StatsInv
  BY DEF QueryInv
<1> DEFINE n == Len(reading)
           p == Passed
           st == Head(reading)
<1>2. /\ n >= 1 /\ n =< 5 /\ p = 5 - n /\ st # "absent" /\ Place(st) = p + 1
      /\ Tail(reading) \in Seq(ReadStatuses) /\ Len(Tail(reading)) = n - 1
      /\ \A k \in 1 .. n - 1 : Tail(reading)[k] = allStatuses[p + 1 + k]
  BY <1>0, <1>1, NextStatus
<1>3. n \in Nat /\ p \in Nat /\ total \in Nat /\ CountByStatus(st) \in Nat
  <2>1. n \in Nat /\ total \in Nat
    BY <1>1 DEF ReadingInv, ClientInv
  <2>2. p \in Nat
    BY <1>2, <2>1
  <2>3. CountByStatus(st) \in Nat
    BY <1>1, <1>2, StatusSet
  <2>4. QED
    BY <2>1, <2>2, <2>3
<1>4. Len(reading') = n - 1 /\ Passed' = p + 1
  <2>1. Len(reading') = n - 1
    BY <1>0, <1>2
  <2>2. Passed' = 5 - (n - 1)
    BY <2>1 DEF Passed
  <2>3. QED
    BY <1>2, <1>3, <2>1, <2>2
<1>5. ClientInv'
  <2>1. total' \in Nat
    BY <1>0, <1>3
  <2>2. client' \in {"counting", "counted"} /\ page = <<>>
    BY <1>0, <1>1 DEF ClientInv
  <2>3. QED
    BY <1>0, <1>1, <2>1, <2>2 DEF ClientInv
<1>6. ReadingInv'
  <2>1. CASE n = 1
    <3>1. reading' = <<>>
      BY <1>0, <1>2, <2>1, EmptySeq
    <3>2. client' = "counted"
      BY <1>0, <2>1
    <3>3. QED
      BY <1>0, <1>2, <3>1, <3>2 DEF ReadingInv
  <2>2. CASE n # 1
    <3>1. client' = "counting"
      BY <1>0, <2>2
    <3>2. Len(reading') >= 1 /\ Len(reading') =< 5
      BY <1>2, <1>3, <1>4, <2>2
    <3>3. \A k \in 1 .. Len(reading') : reading'[k] = allStatuses[Passed' + k]
      BY <1>0, <1>2, <1>4
    <3>4. reading' \in Seq(ReadStatuses)
      BY <1>0, <1>2
    <3>5. QED
      BY <3>1, <3>2, <3>3, <3>4 DEF ReadingInv
  <2>3. QED
    BY <2>1, <2>2
<1>7. StatsInv'
  <2> DEFINE B == {a \in present : Place(status[a]) =< p}
             C == {a \in present : Place(status[a]) =< p + 1}
             W == WithStatus(st)
  <2>1. SUFFICES total' >= Cardinality(C)
    BY <1>0, <1>4 DEF StatsInv
  <2>2. total >= Cardinality(B)
    BY <1>0, <1>1 DEF StatsInv
  <2>3. C \in SUBSET (B \union W)
    <3>1. SUFFICES ASSUME NEW a \in C PROVE a \in B \/ a \in W
      OBVIOUS
    <3>2. a \in Ads /\ status[a] \in LifecycleStatuses /\ Place(status[a]) \in Int
      BY <1>1 DEF ClientInv, LifecycleTypeOK, Place
    <3>3. Place(status[a]) =< p \/ Place(status[a]) = Place(st)
      BY <1>2, <1>3, <3>2
    <3>4. st \in ReadStatuses
      BY <1>1, <1>2, <1>3, EmptySeq, HeadTailProperties DEF ReadingInv
    <3>5. Place(status[a]) = Place(st) => status[a] = st
      BY <3>2, <3>4 DEF Place, LifecycleStatuses, ReadStatuses
    <3>6. QED
      BY <3>2, <3>3, <3>5 DEF WithStatus
  <2>4. IsFiniteSet(W) /\ CountByStatus(st) = Cardinality(W)
    BY <1>1, <1>2, StatusSet
  <2>5. B \in SUBSET Ads
    BY <1>1 DEF ClientInv
  <2>6. IsFiniteSet(B)
    BY <2>5, ListingAssumption, FS_Subset
  <2>7. /\ IsFiniteSet(B \union W) /\ IsFiniteSet(B \cap W)
        /\ Cardinality(B \union W) = Cardinality(B) + Cardinality(W) - Cardinality(B \cap W)
    <3>1. B \cap W \in SUBSET W
      OBVIOUS
    <3>2. IsFiniteSet(B \cap W)
      BY <2>4, <3>1, FS_Subset
    <3> HIDE DEF B, W
    <3>3. QED
      BY <2>4, <2>6, <3>2, FS_Union
  <2>8. IsFiniteSet(C) /\ Cardinality(C) =< Cardinality(B \union W)
    BY <2>3, <2>7, FS_Subset
  <2>9. /\ Cardinality(B) \in Nat /\ Cardinality(C) \in Nat /\ Cardinality(W) \in Nat
        /\ Cardinality(B \cap W) \in Nat /\ Cardinality(B \union W) \in Nat
    BY <2>4, <2>6, <2>7, <2>8, FS_CardinalityType
  <2> HIDE DEF B, C, W, n, p, st
  <2>10. total' = total + Cardinality(W)
    BY <1>0, <2>4 DEF st
  <2>11. QED
    BY <1>3, <2>2, <2>7, <2>8, <2>9, <2>10
<1>8. QED
  BY <1>0, <1>5, <1>6, <1>7 DEF FirstPageInv, PagingInv

\* What a request has in hand after one more status, sorted as s.
Found(s) == Page(page \o Page(s, limit, offset), limit, 0)

\* What ListAds has after one more status: at most the limit, what it had if
\* there is room, and in a first page with room all the ads of the status.
LEMMA FoundFacts ==
    ASSUME CreatedInv, page \in Seq(Ads), limit \in Nat, offset \in Nat,
           NEW s \in NewestFirst(Head(reading))
    PROVE  /\ Found(s) \in Seq(Ads) /\ Len(Found(s)) =< limit
           /\ Len(Found(s)) < limit => ToSet(page) \subseteq ToSet(Found(s))
           /\ Len(Found(s)) < limit /\ offset = 0 => WithStatus(Head(reading)) \subseteq ToSet(Found(s))
           /\ page = <<>> =>
                /\ \A i \in 1 .. Len(Found(s)) :
                    /\ offset + i \in 1 .. CountByStatus(Head(reading))
                    /\ Found(s)[i] = s[offset + i]
                /\ Found(s) = <<>> /\ limit > 0 => offset >= CountByStatus(Head(reading))
<1> DEFINE st == Head(reading)
           n == CountByStatus(st)
           r == Page(s, limit, offset)
           t == page \o r
<1>1. /\ s \in Seq(Ads) /\ Len(s) = n
      /\ \A a \in WithStatus(st) : \E i \in 1 .. n : s[i] = a
  BY NewestFirstFacts
<1>2. n \in Nat
  BY StatusSet
<1>3. r = Page(s, limit, offset)
  OBVIOUS
<1>a. Found(s) = Page(t, limit, 0)
  BY DEF Found
<1> HIDE DEF n, r
<1>4. /\ r \in Seq(Ads)
      /\ Len(r) = IF offset >= n THEN 0 ELSE IF offset + limit > n THEN n - offset ELSE limit
      /\ \A i \in 1 .. Len(r) : offset + i \in 1 .. n /\ r[i] = s[offset + i]
  BY <1>1, <1>3, PageFacts
<1>5. Len(r) \in Nat /\ Len(page) \in Nat
  BY <1>4
<1>6. /\ t \in Seq(Ads) /\ Len(t) = Len(page) + Len(r)
      /\ \A i \in 1 .. Len(page) + Len(r) : t[i] = IF i =< Len(page) THEN page[i] ELSE r[i - Len(page)]
  BY <1>4, ConcatProperties
<1> HIDE DEF t
<1>8. /\ Found(s) \in Seq(Ads)
      /\ Len(Found(s)) = IF 0 >= Len(t) THEN 0 ELSE IF 0 + limit > Len(t) THEN Len(t) - 0 ELSE limit
      /\ \A i \in 1 .. Len(Found(s)) : 0 + i \in 1 .. Len(t) /\ Found(s)[i] = t[0 + i]
  BY <1>6, <1>a, PageFacts
<1>9. /\ Len(Found(s)) \in Nat /\ Len(Found(s)) =< limit /\ Len(Found(s)) =< Len(t)
      /\ Len(Found(s)) < limit => Len(Found(s)) = Len(t)
      /\ \A i \in 1 .. Len(Found(s)) : Found(s)[i] = t[i]
  BY <1>5, <1>6, <1>8
<1>10. ASSUME Len(Found(s)) < limit, NEW a \in ToSet(page)
       PROVE  a \in ToSet(Found(s))
  <2>1. PICK i \in 1 .. Len(page) : page[i] = a
    BY <1>10 DEF ToSet
  <2>2. i \in 1 .. Len(Found(s)) /\ i \in 1 .. Len(page) + Len(r)
    BY <1>5, <1>6, <1>9, <1>10
  <2>3. Found(s)[i] = a
    BY <1>6, <1>9, <2>1, <2>2
  <2>4. QED
    BY <1>8, <2>2, <2>3 DEF ToSet
<1>11. ASSUME Len(Found(s)) < limit, offset = 0, NEW a \in WithStatus(st)
       PROVE  a \in ToSet(Found(s))
  <2>1. PICK i \in 1 .. n : s[i] = a
    BY <1>1
  <2>2. Len(r) = n
    <3>1. Len(r) < limit
      BY <1>5, <1>6, <1>9, <1>11
    <3>2. QED
      BY <1>2, <1>4, <1>11, <3>1
  <2>3. r[i] = a
    <3>1. i \in 1 .. Len(r) /\ offset + i = i
      BY <1>2, <1>11, <2>2
    <3>2. QED
      BY <1>4, <2>1, <3>1
  <2>4. PICK k \in Nat : k = Len(page) + i
    BY <1>2, <1>5
  <2>5. k \in 1 .. Len(page) + Len(r) /\ k > Len(page) /\ k - Len(page) = i /\ k \in 1 .. Len(Found(s))
    BY <1>2, <1>5, <1>6, <1>9, <1>11, <2>2, <2>4
  <2>6. Found(s)[k] = a
    <3>1. Found(s)[k] = t[k]
      BY <1>9, <2>5
    <3>2. t[k] = r[k - Len(page)]
      BY <1>5, <1>6, <2>5
    <3>3. QED
      BY <2>3, <2>5, <3>1, <3>2
  <2>7. QED
    BY <1>8, <2>5, <2>6 DEF ToSet
<1>12. ASSUME page = <<>>
       PROVE  /\ \A i \in 1 .. Len(Found(s)) : offset + i \in 1 .. n /\ Found(s)[i] = s[offset + i]
              /\ Found(s) = <<>> /\ limit > 0 => offset >= n
  <2>1. Len(page) = 0
    BY <1>12
  <2>2. Len(Found(s)) = Len(r)
    BY <1>4, <1>5, <1>6, <1>8, <2>1, <1>2
  <2>3. ASSUME NEW i \in 1 .. Len(Found(s))
        PROVE  offset + i \in 1 .. n /\ Found(s)[i] = s[offset + i]
    <3>1. Found(s)[i] = t[i]
      BY <1>9
    <3>2. t[i] = r[i]
      BY <1>5, <1>6, <2>1, <2>2
    <3>3. offset + i \in 1 .. n /\ r[i] = s[offset + i]
      BY <1>4, <2>2
    <3>4. QED
      BY <3>1, <3>2, <3>3
  <2>4. Found(s) = <<>> /\ limit > 0 => offset >= n
    <3>1. Found(s) = <<>> => Len(r) = 0
      BY <2>2
    <3>2. QED
      BY <1>2, <1>4, <3>1
  <2>5. QED
    BY <2>3, <2>4
<1>13. QED
  BY <1>8, <1>9, <1>10, <1>11, <1>12 DEF n

\* The same, of a request in progress.
LEMMA ListingFacts ==
    ASSUME QueryInv, client = "listing", NEW s \in NewestFirst(Head(reading))
    PROVE  /\ limit \in Nat /\ limit >= 1 /\ offset \in Nat
           /\ reading \in Seq(ReadStatuses) /\ Len(reading) >= 1
           /\ Head(reading) # "absent"
           /\ Found(s) \in Seq(Ads) /\ Len(Found(s)) \in Nat /\ Len(Found(s)) =< limit
           /\ Len(Found(s)) < limit => ToSet(page) \subseteq ToSet(Found(s))
           /\ Len(Found(s)) < limit /\ offset = 0 => WithStatus(Head(reading)) \subseteq ToSet(Found(s))
           /\ filter # NoFilter =>
                /\ Head(reading) = filter /\ Len(reading) = 1
                /\ \A i \in 1 .. Len(Found(s)) : /\ offset + i \in 1 .. CountByStatus(filter)
                                              /\ Found(s)[i] = s[offset + i]
                /\ Found(s) = <<>> => offset >= CountByStatus(filter)
<1>1. CreatedInv /\ ClientInv /\ ReadingInv
  BY DEF QueryInv
<1>2. limit \in Nat /\ limit >= 1 /\ offset \in Nat /\ page \in Seq(Ads)
  BY <1>1 DEF ClientInv
<1>3. /\ reading \in Seq(ReadStatuses) /\ Len(reading) >= 1 /\ Head(reading) # "absent"
      /\ filter # NoFilter => Head(reading) = filter /\ Len(reading) = 1 /\ page = <<>>
  <2>1. CASE filter = NoFilter
    BY <1>1, <2>1, NextStatus DEF ReadingInv
  <2>2. CASE filter # NoFilter
    <3>1. reading = <<filter>> /\ page = <<>> /\ reading \in Seq(ReadStatuses)
      BY <1>1, <2>2 DEF ReadingInv
    <3>2. filter # "absent"
      BY <1>1, <2>2, MatchingStatus DEF ClientInv
    <3>3. Len(reading) = 1 /\ Head(reading) = filter
      BY <3>1
    <3>4. QED
      BY <3>1, <3>2, <3>3
  <2>3. QED
    BY <2>1, <2>2
<1> DEFINE st == Head(reading)
<1>4. /\ Found(s) \in Seq(Ads) /\ Len(Found(s)) =< limit
      /\ Len(Found(s)) < limit => ToSet(page) \subseteq ToSet(Found(s))
      /\ Len(Found(s)) < limit /\ offset = 0 => WithStatus(st) \subseteq ToSet(Found(s))
      /\ page = <<>> => /\ \A i \in 1 .. Len(Found(s)) : /\ offset + i \in 1 .. CountByStatus(st)
                                                      /\ Found(s)[i] = s[offset + i]
                        /\ Found(s) = <<>> /\ limit > 0 => offset >= CountByStatus(st)
  BY <1>1, <1>2, <1>3, FoundFacts
<1>5. Len(Found(s)) \in Nat
  BY <1>4
<1>6. limit > 0
  BY <1>2
<1>7. ASSUME filter # NoFilter
      PROVE  /\ \A i \in 1 .. Len(Found(s)) : /\ offset + i \in 1 .. CountByStatus(filter)
                                           /\ Found(s)[i] = s[offset + i]
             /\ Found(s) = <<>> => offset >= CountByStatus(filter)
  <2>1. st = filter /\ page = <<>>
    BY <1>3, <1>7
  <2> HIDE DEF st
  <2>2. QED
    BY <1>4, <1>6, <2>1
<1>8. QED
  BY <1>2, <1>3, <1>4, <1>5, <1>7

\* The client's variables after one more status.
LEMMA ListingClient ==
    ASSUME QueryInv, UNCHANGED <<status, createdAt>>, ListAds
    PROVE  ClientInv' /\ ReadingInv' /\ client' \in {"listing", "paging", "done"}
<1>1. ClientInv /\ ReadingInv
  BY DEF QueryInv
<1>2. PICK s \in NewestFirst(Head(reading)) :
      /\ client = "listing" /\ UNCHANGED <<filter, limit, total, present, changed, left>>
      /\ IF Len(Found(s)) >= limit \/ Len(reading) = 1
         THEN /\ seen' = seen \o Found(s) /\ offset' = offset + Len(Found(s))
              /\ client' = (IF Found(s) = <<>> THEN "done" ELSE "paging")
              /\ reading' = <<>> /\ page' = <<>>
         ELSE /\ page' = Found(s) /\ reading' = Tail(reading)
              /\ UNCHANGED <<client, offset, seen>>
  BY DEF ListAds, FindByStatus, Found
<1>a. UNCHANGED <<filter, limit, total, present, changed, left>> /\ limit' >= 1
  BY <1>1, <1>2 DEF ClientInv
<1>3. /\ limit \in Nat /\ limit >= 1 /\ offset \in Nat
      /\ reading \in Seq(ReadStatuses) /\ Len(reading) >= 1
      /\ Found(s) \in Seq(Ads) /\ Len(Found(s)) \in Nat /\ Len(Found(s)) =< limit
      /\ filter # NoFilter => Len(reading) = 1
  BY <1>2, ListingFacts
<1>4. CASE Len(Found(s)) >= limit \/ Len(reading) = 1
  <2>1. /\ seen' = seen \o Found(s) /\ offset' = offset + Len(Found(s))
        /\ client' \in {"paging", "done"} /\ reading' = <<>> /\ page' = <<>>
    BY <1>2, <1>4
  <2>2. seen' \in Seq(Ads) /\ Len(seen') = offset' /\ offset' \in Nat /\ page' \in Seq(Ads)
    <3>1. seen \in Seq(Ads) /\ Len(seen) = offset
      BY <1>1 DEF ClientInv
    <3>2. seen \o Found(s) \in Seq(Ads) /\ Len(seen \o Found(s)) = Len(seen) + Len(Found(s))
      BY <1>3, <3>1, ConcatProperties
    <3>3. offset' \in Nat /\ page' \in Seq(Ads)
      BY <1>3, <2>1
    <3>4. QED
      BY <2>1, <3>1, <3>2, <3>3
  <2>3. ClientInv'
    BY <1>1, <1>a, <2>1, <2>2 DEF ClientInv
  <2>4. ReadingInv'
    BY <2>1 DEF ReadingInv
  <2>5. QED
    BY <2>1, <2>3, <2>4
<1>5. CASE ~(Len(Found(s)) >= limit \/ Len(reading) = 1)
  <2>1. /\ page' = Found(s) /\ reading' = Tail(reading) /\ client' = "listing"
        /\ UNCHANGED <<offset, seen>> /\ filter = NoFilter
    BY <1>2, <1>3, <1>5
  <2>2. Len(Found(s)) < limit
    BY <1>3, <1>5
  <2>3. ClientInv'
    BY <1>1, <1>a, <1>3, <2>1, <2>2 DEF ClientInv
  <2>4. ReadingInv'
    <3> DEFINE n == Len(reading)
               p == Passed
    <3>1. /\ n >= 1 /\ n =< 5 /\ p = 5 - n
          /\ Tail(reading) \in Seq(ReadStatuses) /\ Len(Tail(reading)) = n - 1
          /\ \A k \in 1 .. n - 1 : Tail(reading)[k] = allStatuses[p + 1 + k]
      BY <1>1, <1>2, <2>1, NextStatus
    <3>2. n \in Nat /\ p \in Nat /\ n # 1
      <4>1. n \in Nat /\ n # 1
        BY <1>3, <1>5
      <4>2. QED
        BY <3>1, <4>1
    <3>3. Len(reading') = n - 1 /\ Passed' = p + 1
      <4>1. Len(reading') = n - 1
        BY <2>1, <3>1
      <4>2. Passed' = 5 - (n - 1)
        BY <4>1 DEF Passed
      <4>3. QED
        BY <3>1, <3>2, <4>1, <4>2
    <3>4. Len(reading') >= 1 /\ Len(reading') =< 5
      BY <3>1, <3>2, <3>3
    <3>5. \A k \in 1 .. Len(reading') : reading'[k] = allStatuses[Passed' + k]
      BY <2>1, <3>1, <3>3
    <3>6. reading' \in Seq(ReadStatuses) /\ filter' = NoFilter
      BY <1>2, <2>1, <3>1
    <3>7. QED
      BY <2>1, <3>4, <3>5, <3>6 DEF ReadingInv
  <2>5. QED
    BY <2>1, <2>3, <2>4
<1>6. QED
  BY <1>4, <1>5

\* A first page with room keeps what it has and gains the ads of the status.
LEMMA ListingAhead ==
    ASSUME QueryInv, client = "listing", filter = NoFilter, offset = 0,
           NEW s \in NewestFirst(Head(reading)), Len(Found(s)) < limit,
           NEW a \in present
    PROVE  a \in ToSet(Found(s)) \/ Place(status[a]) > Passed + 1
<1>1. LifecycleTypeOK /\ CreatedInv /\ ClientInv /\ ReadingInv /\ FirstPageInv
  BY DEF QueryInv
<1>2. ToSet(page) \subseteq ToSet(Found(s)) /\ WithStatus(Head(reading)) \subseteq ToSet(Found(s))
  BY ListingFacts
<1>3. a \in ToSet(page) \/ Place(status[a]) > Passed
  BY <1>1 DEF FirstPageInv
<1>4. /\ Len(reading) \in Nat /\ Passed = 5 - Len(reading) /\ Place(Head(reading)) = Passed + 1
      /\ reading \in Seq(ReadStatuses) /\ Len(reading) >= 1
  BY <1>1, NextStatus DEF ReadingInv
<1>5. Passed \in Int
  BY <1>4
<1>6. a \in Ads /\ status[a] \in LifecycleStatuses /\ Place(status[a]) \in Int
  BY <1>1 DEF ClientInv, LifecycleTypeOK, Place
<1>7. Place(status[a]) > Passed => Place(status[a]) > Passed + 1 \/ Place(status[a]) = Place(Head(reading))
  BY <1>4, <1>5, <1>6
<1>8. Head(reading) \in ReadStatuses
  BY <1>4, EmptySeq, HeadTailProperties
<1>9. Place(status[a]) = Place(Head(reading)) => status[a] = Head(reading)
  BY <1>6, <1>8 DEF Place, LifecycleStatuses, ReadStatuses
<1>10. QED
  BY <1>2, <1>3, <1>6, <1>7, <1>9 DEF WithStatus

\* A first page that has room after the last status has everybody.
LEMMA FirstPageComplete ==
    ASSUME QueryInv, client = "listing", filter = NoFilter, offset = 0,
           NEW s \in NewestFirst(Head(reading)), Len(Found(s)) < limit,
           Len(reading) = 1
    PROVE  present \subseteq ToSet(Found(s))
<1>1. SUFFICES ASSUME NEW a \in present PROVE a \in ToSet(Found(s))
  OBVIOUS
<1>2. a \in ToSet(Found(s)) \/ Place(status[a]) > Passed + 1
  BY ListingAhead
<1>3. Passed = 4
  BY DEF Passed
<1>4. Place(status[a]) =< 5 /\ Place(status[a]) \in Int
  BY DEF Place
<1>5. QED
  BY <1>2, <1>3, <1>4

\* Between two statuses of a first page all that is missing is ahead.
LEMMA ListingFirstPage ==
    ASSUME QueryInv, UNCHANGED <<status, createdAt>>, ListAds
    PROVE  FirstPageInv'
<1>1. PICK s \in NewestFirst(Head(reading)) :
      /\ client = "listing" /\ UNCHANGED <<filter, present>>
      /\ Len(Found(s)) >= limit \/ Len(reading) = 1 => client' # "listing"
      /\ ~(Len(Found(s)) >= limit \/ Len(reading) = 1) =>
            page' = Found(s) /\ reading' = Tail(reading) /\ offset' = offset
  BY DEF ListAds, FindByStatus, Found
<1>2. SUFFICES ASSUME client' = "listing", filter = NoFilter, offset' = 0, NEW a \in present
               PROVE  a \in ToSet(page)' \/ Place(status'[a]) > Passed'
  BY <1>1 DEF FirstPageInv
<1>3. /\ page' = Found(s) /\ reading' = Tail(reading) /\ offset = 0
      /\ ~(Len(Found(s)) >= limit \/ Len(reading) = 1)
  BY <1>1, <1>2
<1>4. Len(Found(s)) < limit
  BY <1>1, <1>3, ListingFacts
<1>5. a \in ToSet(Found(s)) \/ Place(status[a]) > Passed + 1
  BY <1>1, <1>2, <1>3, <1>4, ListingAhead
<1>6. Passed' = Passed + 1
  <2>1. /\ Passed = 5 - Len(reading) /\ Len(Tail(reading)) = Len(reading) - 1
        /\ Len(reading) \in Nat
    BY <1>1, <1>2, NextStatus DEF QueryInv, ReadingInv
  <2>2. Passed' = 5 - Len(Tail(reading))
    BY <1>3 DEF Passed
  <2>3. QED
    BY <2>1, <2>2
<1>7. ToSet(page)' = ToSet(Found(s))
  BY <1>3 DEF ToSet
<1>8. QED
  BY <1>5, <1>6, <1>7

\* One more page of one status: it continues where the offset is.
LEMMA ListingPaging ==
    ASSUME QueryInv, UNCHANGED <<status, createdAt>>, ListAds
    PROVE  PagingInv'
<1>0. CreatedInv /\ ClientInv /\ PagingInv
  BY DEF QueryInv
<1>1. client = "listing" /\ UNCHANGED <<filter, present, changed, left>>
  BY DEF ListAds
<1> DEFINE f == filter
           S == WithStatus(f)
           n == CountByStatus(f)
<1>2. SUFFICES ASSUME f # NoFilter
               PROVE  /\ ~left =>
                        /\ present \subseteq S
                        /\ \A a \in present : Untied(a) /\ Rank(a, S) < offset' => a \in ToSet(seen')
                      /\ ~changed =>
                        /\ present = S /\ offset' =< n
                        /\ \A k \in 1 .. offset' : /\ seen'[k] \in S
                                                   /\ Rank(seen'[k], S) < k
                                                   /\ k =< LastPlace(seen'[k], S)
                      /\ client' = "done" /\ ~left =>
                            \A a \in present : Untied(a) => a \in ToSet(seen')
                      /\ client' = "done" /\ ~changed => offset' = n
  <2>1. WithStatus(filter)' = S /\ filter' = filter /\ Matching(filter)' = Matching(filter)
    BY <1>1 DEF WithStatus, Matching
  <2>2. ToSet(seen)' = ToSet(seen')
    BY DEF ToSet
  <2>3. /\ \A a : Rank(a, WithStatus(filter))' = Rank(a, S)
        /\ \A k : Rank(seen[k], present)' = Rank(seen'[k], present)
        /\ \A k : LastPlace(seen[k], present)' = LastPlace(seen'[k], present)
    BY <1>1, <2>1 DEF Rank, LastPlace, Newer, NotOlder
  <2>4. \A a : Untied(a)' <=> Untied(a)
    BY <2>1 DEF Untied
  <2>5. present' = present /\ n = Cardinality(S)
    BY <1>1 DEF CountByStatus
  <2>6. ~changed /\ present = S => \A k \in 1 .. offset' :
            /\ seen'[k] \in S /\ Rank(seen'[k], S) < k /\ k =< LastPlace(seen'[k], S)
            => PlacedAt(k)'
    BY <2>3, <2>5 DEF PlacedAt
  <2> HIDE DEF S, n
  <2>7. QED
    BY <1>1, <1>2, <2>1, <2>2, <2>3, <2>4, <2>5, <2>6 DEF PagingInv, f
<1>a. PICK s \in NewestFirst(Head(reading)) :
        Len(reading) = 1 =>
            /\ seen' = seen \o Found(s) /\ offset' = offset + Len(Found(s))
            /\ client' = IF Found(s) = <<>> THEN "done" ELSE "paging"
  BY DEF ListAds, FindByStatus, Found
<1> DEFINE m == Len(Found(s))
<1>3. /\ offset \in Nat /\ Found(s) \in Seq(Ads) /\ m \in Nat /\ Len(reading) = 1
      /\ Head(reading) = f
      /\ \A i \in 1 .. m : offset + i \in 1 .. n /\ Found(s)[i] = s[offset + i]
      /\ Found(s) = <<>> => offset >= n
  BY <1>1, <1>2, ListingFacts
<1>4. /\ seen' = seen \o Found(s) /\ offset' = offset + m
      /\ client' = IF Found(s) = <<>> THEN "done" ELSE "paging"
  BY <1>3, <1>a
<1>5. /\ createdAt \in [Ads -> Nat] /\ IsFiniteSet(S) /\ S \subseteq Ads
      /\ n \in Nat /\ n = Cardinality(S)
      /\ \A a \in S : \E i \in 1 .. n : s[i] = a
      /\ \A i \in 1 .. n : s[i] \in S /\ Rank(s[i], S) < i /\ i =< LastPlace(s[i], S)
  <2>1. s \in NewestFirst(f)
    BY <1>3
  <2>2. QED
    BY <1>0, <2>1, NewestFirstFacts, StatusSet DEF CreatedInv
<1>6. ASSUME NEW a \in S, Untied(a)
      PROVE  /\ Rank(a, S) \in Nat
             /\ \E i \in 1 .. n : i = Rank(a, S) + 1 /\ s[i] = a
  <2>1. PICK i \in 1 .. n : s[i] = a
    BY <1>5
  <2>2. Rank(a, S) < i /\ i =< LastPlace(a, S)
    BY <1>5, <2>1
  <2>3. f \in Filters
    BY <1>0, <1>2 DEF ClientInv
  <2>4. \A b \in S : createdAt[b] = createdAt[a] => b = a
    BY <1>2, <1>6, <2>3, MatchingStatus DEF Untied
  <2> HIDE DEF S, n
  <2>5. LastPlace(a, S) = Rank(a, S) + 1
    BY <1>5, <2>4, UntiedPlace
  <2>6. Rank(a, S) \in Nat
    BY <1>5, PlaceTypes
  <2>7. i = Rank(a, S) + 1
    BY <1>5, <2>2, <2>5, <2>6
  <2>8. QED
    BY <2>1, <2>6, <2>7
<1>7. /\ ~left => /\ present \subseteq S
                  /\ \A a \in present : Untied(a) /\ Rank(a, S) < offset => a \in ToSet(seen)
      /\ ~changed => /\ present = S /\ offset =< Cardinality(present)
                     /\ \A k \in 1 .. offset : PlacedAt(k)
  BY <1>0, <1>1, <1>2 DEF PagingInv
<1>8. /\ seen' \in Seq(Ads) /\ DOMAIN seen' = 1 .. offset + m
      /\ \A k \in 1 .. offset : seen'[k] = seen[k]
      /\ \A i \in 1 .. m : seen'[offset + i] = Found(s)[i]
      /\ \A k \in 1 .. offset + m : k \in 1 .. offset \/ \E i \in 1 .. m : k = offset + i
  <2>1. seen \in Seq(Ads) /\ Len(seen) = offset
    BY <1>0 DEF ClientInv
  <2>2. /\ seen \o Found(s) \in Seq(Ads) /\ Len(seen \o Found(s)) = offset + m
        /\ \A i \in 1 .. offset + m :
            (seen \o Found(s))[i] = IF i =< offset THEN seen[i] ELSE Found(s)[i - offset]
    BY <1>3, <2>1, ConcatProperties
  <2> HIDE DEF m
  <2>3. seen' \in Seq(Ads) /\ DOMAIN seen' = 1 .. offset + m
    BY <1>4, <2>2
  <2>4. ASSUME NEW k \in 1 .. offset PROVE seen'[k] = seen[k]
    <3>1. k \in 1 .. offset + m /\ k =< offset
      BY <1>3
    <3>2. QED
      BY <1>4, <2>2, <3>1
  <2>5. ASSUME NEW i \in 1 .. m PROVE seen'[offset + i] = Found(s)[i]
    <3>1. offset + i \in 1 .. offset + m /\ ~(offset + i =< offset) /\ (offset + i) - offset = i
      BY <1>3
    <3>2. QED
      BY <1>4, <2>2, <3>1
  <2>6. ASSUME NEW k \in 1 .. offset + m PROVE k \in 1 .. offset \/ \E i \in 1 .. m : k = offset + i
    <3>1. CASE k > offset
      <4>1. k - offset \in 1 .. m /\ k = offset + (k - offset)
        BY <1>3, <3>1
      <4>2. QED
        BY <4>1
    <3>2. CASE ~(k > offset)
      BY <1>3, <3>2
    <3>3. QED
      BY <3>1, <3>2
  <2>7. QED
    BY <2>3, <2>4, <2>5, <2>6
<1>9. /\ ToSet(seen) \subseteq ToSet(seen')
      /\ \A k \in 1 .. offset + m : seen'[k] \in ToSet(seen')
  <2>1. seen \in Seq(Ads) /\ DOMAIN seen = 1 .. offset
    BY <1>0 DEF ClientInv
  <2>2. \A k \in 1 .. offset + m : seen'[k] \in ToSet(seen')
    BY <1>8 DEF ToSet
  <2>3. \A k \in 1 .. offset : k \in 1 .. offset + m
    BY <1>3
  <2>4. \A k \in 1 .. offset : seen[k] \in ToSet(seen')
    BY <1>8, <2>2, <2>3
  <2>5. ToSet(seen) = {seen[k] : k \in 1 .. offset}
    BY <2>1 DEF ToSet
  <2>6. QED
    BY <2>2, <2>4, <2>5
<1> HIDE DEF f, S, n, m
<1>10. ASSUME ~left, NEW a \in present, Untied(a), Rank(a, S) < offset'
       PROVE  a \in ToSet(seen')
  <2>1. a \in S
    BY <1>7, <1>10
  <2>2. PICK p \in 1 .. n : p = Rank(a, S) + 1 /\ s[p] = a /\ Rank(a, S) \in Nat
    BY <1>6, <1>10, <2>1
  <2>3. CASE p =< offset
    <3>1. Rank(a, S) < offset
      BY <1>3, <2>2, <2>3
    <3>2. QED
      BY <1>7, <1>9, <1>10, <3>1
  <2>4. CASE ~(p =< offset)
    <3>1. PICK i \in 1 .. m : offset + i = p
      <4>1. p - offset \in 1 .. m /\ offset + (p - offset) = p
        BY <1>3, <1>4, <1>10, <2>2, <2>4
      <4>2. QED
        BY <4>1
    <3>2. Found(s)[i] = a
      BY <1>3, <2>2, <3>1
    <3>3. offset + i \in 1 .. offset + m
      BY <1>3
    <3>4. seen'[offset + i] = a
      BY <1>8, <3>2
    <3>5. QED
      BY <1>9, <3>3, <3>4
  <2>5. QED
    BY <2>3, <2>4
<1>11. ASSUME ~changed, NEW k \in 1 .. offset'
       PROVE  seen'[k] \in S /\ Rank(seen'[k], S) < k /\ k =< LastPlace(seen'[k], S)
  <2>1. CASE k \in 1 .. offset
    BY <1>7, <1>8, <1>11, <2>1 DEF PlacedAt
  <2>2. CASE \E i \in 1 .. m : k = offset + i
    <3>1. PICK i \in 1 .. m : k = offset + i
      BY <2>2
    <3>2. seen'[k] = s[k] /\ k \in 1 .. n
      BY <1>3, <1>8, <3>1
    <3>3. QED
      BY <1>5, <3>2
  <2>3. QED
    BY <1>4, <1>8, <2>1, <2>2
<1>12. ASSUME ~changed
       PROVE  offset' =< n
  <2>1. CASE m = 0
    BY <1>3, <1>4, <1>5, <1>7, <1>12, <2>1
  <2>2. CASE m # 0
    <3>1. m \in 1 .. m
      BY <1>3, <2>2
    <3>2. offset + m \in 1 .. n
      BY <1>3, <3>1
    <3>3. QED
      BY <1>4, <3>2
  <2>3. QED
    BY <2>1, <2>2
<1>13. ASSUME client' = "done"
       PROVE  offset >= n /\ offset' = offset
  <2>1. Found(s) = <<>>
    BY <1>4, <1>13
  <2>2. m = 0
    BY <2>1 DEF m
  <2>3. QED
    BY <1>3, <1>4, <2>1, <2>2
<1>14. ASSUME client' = "done", ~left, NEW a \in present, Untied(a)
       PROVE  a \in ToSet(seen')
  <2>1. a \in S
    BY <1>7, <1>14
  <2>2. PICK p \in 1 .. n : p = Rank(a, S) + 1 /\ Rank(a, S) \in Nat
    BY <1>6, <1>14, <2>1
  <2>3. Rank(a, S) < offset
    BY <1>3, <1>5, <1>13, <1>14, <2>2
  <2>4. QED
    BY <1>7, <1>9, <1>14, <2>3
<1>15. client' = "done" /\ ~changed => offset' = n
  BY <1>3, <1>5, <1>12, <1>13
<1>16. QED
  BY <1>7, <1>10, <1>11, <1>12, <1>14, <1>15

\* Any step of the client that lists or counts.
LEMMA ListingStepInv ==
    ASSUME QueryInv, ListingStep
    PROVE  QueryInv'
<1>1. UNCHANGED <<status, analysed, holders, createdAt, workload, cacheType, home, cache, gpc, gid, gnode, gcopy>>
  BY DEF ListingStep, lifecycleVars, cacheVars, requestVars, ListingNext, BeginPaging, listAds,
         ListAds, getStats, GetStats
<1>2. LifecycleTypeOK' /\ CreatedInv' /\ CacheInv'
  <2>1. LifecycleTypeOK /\ CreatedInv /\ CacheInv
    BY DEF QueryInv
  <2>2. LifecycleTypeOK'
    BY <1>1, <2>1 DEF LifecycleTypeOK
  <2>3. CreatedInv'
    BY <1>1, <2>1 DEF CreatedInv
  <2>4. CacheInv'
    BY <1>1, <2>1 DEF CacheInv, Local
  <2>5. QED
    BY <2>2, <2>3, <2>4
<1>3. ClientInv' /\ ReadingInv' /\ StatsInv' /\ FirstPageInv' /\ PagingInv'
  <2>1. CASE \E f \in Filters, lim \in LimitInputs : BeginPaging(f, lim)
    BY <1>1, <2>1, BeginPagingInv
  <2>2. CASE listAds \/ getStats
    BY <1>1, <2>2, BeginReadingInv
  <2>3. CASE GetStats
    BY <1>1, <2>3, CountingInv
  <2>4. CASE ListAds
    <3>1. StatsInv'
      BY <1>1, <2>4, ListingClient DEF StatsInv
    <3>2. QED
      BY <1>1, <2>4, <3>1, ListingClient, ListingFirstPage, ListingPaging
  <2>5. QED
    BY <2>1, <2>2, <2>3, <2>4 DEF ListingStep, ListingNext
<1>4. QED
  BY <1>2, <1>3 DEF QueryInv

-----------------------------------------------------------------------------
(* Steps of the clients that ask for one ad, and of Redis.                 *)

\* A request that asks for an ad, and each of its calls: whatever the cache
\* answers, the repository of the ad's own node has the ad.
LEMMA RequestInv ==
    ASSUME LifecycleTypeOK, CacheInv, UNCHANGED <<status, analysed>>,
           NEW g \in Getters, getAd(g) \/ GetAd(g)
    PROVE  CacheInv'
<1>0. /\ status \in [Ads -> LifecycleStatuses] /\ analysed \in [Ads -> BOOLEAN]
      /\ DefaultTTL \in Nat
  BY CacheAssumption DEF LifecycleTypeOK
<1> DEFINE Views == [status : LifecycleStatuses, analysed : BOOLEAN]
<1>1. NoView \in Views /\ \A a \in Ads : View(a) \in Views
  BY <1>0 DEF NoView, View, LifecycleStatuses
<1>2. \A a \in Ads : status[a] # "absent" => View(a) # NoView
  BY DEF View, NoView
<1>3. CASE getAd(g)
  <2>1. PICK a \in Ads, n \in Nodes :
            /\ status[a] # "absent"
            /\ gid' = [gid EXCEPT ![g] = a] /\ gnode' = [gnode EXCEPT ![g] = n]
            /\ gpc' = [gpc EXCEPT ![g] = "cache"] /\ gcopy' = [gcopy EXCEPT ![g] = NoView]
            /\ UNCHANGED <<cacheType, home, cache>>
    BY <1>3 DEF getAd, ggoto, hand
  <2>2. QED
    BY <1>1, <2>1 DEF CacheInv, Local
<1>4. CASE GetFromCache(g)
  <2>1. PICK found \in CacheResults(g) :
            /\ gpc[g] = "cache" /\ gcopy' = [gcopy EXCEPT ![g] = found]
            /\ gpc' = [gpc EXCEPT ![g] = IF found # NoView THEN "answered" ELSE "repo"]
            /\ UNCHANGED <<cacheType, home, cache, gid, gnode>>
    BY <1>4 DEF GetFromCache, ggoto, hand
  <2>2. gid[g] \in Ads
    BY <2>1 DEF CacheInv
  <2>3. found \in Views
    <3>1. cache[gid[g]].ad \in Views
      BY <2>2 DEF CacheInv
    <3>2. QED
      BY <1>1, <2>2, <3>1 DEF CacheResults
  <2>4. QED
    BY <2>1, <2>3 DEF CacheInv, Local
<1>5. CASE GetFromRepository(g)
  <2>1. /\ gpc[g] = "repo" /\ UNCHANGED <<cacheType, home, cache, gid, gnode>>
        /\ \/ /\ Local(g) /\ gcopy' = [gcopy EXCEPT ![g] = View(gid[g])]
              /\ gpc' = [gpc EXCEPT ![g] = "set"]
           \/ ~Local(g) /\ gpc' = [gpc EXCEPT ![g] = "failed"] /\ gcopy' = gcopy
    BY <1>5 DEF GetFromRepository, ggoto, hand
  <2>2. gid[g] \in Ads /\ status[gid[g]] # "absent"
    BY <2>1 DEF CacheInv
  <2>3. PICK v \in Views : v = View(gid[g]) /\ v # NoView
    BY <1>1, <1>2, <2>2
  <2>4. CASE /\ Local(g) /\ gcopy' = [gcopy EXCEPT ![g] = View(gid[g])]
             /\ gpc' = [gpc EXCEPT ![g] = "set"]
    <3>1. gcopy' = [gcopy EXCEPT ![g] = v]
      BY <2>3, <2>4
    <3> HIDE DEF Views
    <3>2. gcopy' \in [Getters -> Views] /\ gcopy'[g] # NoView
      BY <2>3, <3>1 DEF CacheInv, Views
    <3>3. \A h \in Getters : h # g => gcopy'[h] = gcopy[h]
      BY <3>1 DEF CacheInv
    <3>4. QED
      BY <2>1, <2>4, <3>2, <3>3 DEF CacheInv, Local, Views
  <2>5. CASE ~Local(g) /\ gpc' = [gpc EXCEPT ![g] = "failed"] /\ gcopy' = gcopy
    BY <2>1, <2>5 DEF CacheInv, Local
  <2>6. QED
    BY <2>1, <2>4, <2>5
<1>6. CASE SetInCache(g)
  <2>1. /\ gpc[g] = "set" /\ UNCHANGED <<cacheType, home, gid, gnode, gcopy>>
        /\ gpc' = [gpc EXCEPT ![g] = "answered"]
        /\ \/ cache' = cache
           \/ cache' = [cache EXCEPT ![gid[g]] = [ad |-> gcopy[g], ttl |-> entryTTL(requestedTTL)]]
    BY <1>6 DEF SetInCache, ggoto
  <2>2. gcopy[g] \in Views /\ gcopy[g] # NoView
    BY <2>1 DEF CacheInv
  <2>3. entryTTL(requestedTTL) \in Nat /\ entryTTL(requestedTTL) > 0
    BY DEF entryTTL, requestedTTL
  <2>4. /\ cache' \in [Ads -> [ad : Views, ttl : Nat]]
        /\ \A a \in Ads : cache'[a] = NoEntry \/ (cache'[a].ttl > 0 /\ cache'[a].ad # NoView)
    <3> HIDE DEF Views
    <3>0. PICK v \in Views, k \in Nat : v = gcopy[g] /\ k = entryTTL(requestedTTL) /\ v # NoView /\ k > 0
      BY <2>2, <2>3
    <3>1. PICK e \in [ad : Views, ttl : Nat] :
            /\ e = [ad |-> gcopy[g], ttl |-> entryTTL(requestedTTL)]
            /\ e.ttl > 0 /\ e.ad # NoView
      <4>1. [ad |-> v, ttl |-> k] \in [ad : Views, ttl : Nat]
        OBVIOUS
      <4>2. QED
        BY <3>0, <4>1
    <3>2. cache' = cache \/ cache' = [cache EXCEPT ![gid[g]] = e]
      BY <2>1, <3>1
    <3>3. /\ cache \in [Ads -> [ad : Views, ttl : Nat]]
          /\ \A a \in Ads : cache[a] = NoEntry \/ (cache[a].ttl > 0 /\ cache[a].ad # NoView)
      BY DEF CacheInv, Views
    <3>4. QED
      BY <3>1, <3>2, <3>3
  <2>5. QED
    BY <2>1, <2>4 DEF CacheInv, Local
<1>7. QED
  BY <1>3, <1>4, <1>5, <1>6 DEF GetAd

\* A key that expires.
LEMMA ExpireInv ==
    ASSUME CacheInv, UNCHANGED status, NEW a \in Ads, Expire(a)
    PROVE  CacheInv'
<1>1. /\ cache' = [cache EXCEPT ![a] = NoEntry]
      /\ UNCHANGED <<cacheType, home, gpc, gid, gnode, gcopy>>
  BY DEF Expire, requestVars
<1>2. NoEntry \in [ad : [status : LifecycleStatuses, analysed : BOOLEAN], ttl : Nat]
  BY DEF NoEntry, NoView, LifecycleStatuses
<1>3. QED
  BY <1>1, <1>2 DEF CacheInv, Local

\* What neither kind of client reads or writes for the other.
LEMMA OnlyCacheInv ==
    ASSUME QueryInv, onlyCache, CacheInv'
    PROVE  QueryInv'
<1>1. /\ UNCHANGED <<status, analysed, holders, createdAt, workload>>
      /\ UNCHANGED <<client, filter, limit, offset, reading, page, total, seen, present, changed, left>>
  BY DEF onlyCache, lifecycleVars, listVars
<1>2. LifecycleTypeOK' /\ CreatedInv'
  BY <1>1 DEF QueryInv, LifecycleTypeOK, CreatedInv
<1>3. ClientInv'
  BY <1>1 DEF QueryInv, ClientInv
<1>4. ReadingInv'
  BY <1>1 DEF QueryInv, ReadingInv, Passed
<1>5. StatsInv'
  BY <1>1 DEF QueryInv, StatsInv, Passed
<1>6. FirstPageInv'
  BY <1>1 DEF QueryInv, FirstPageInv, Passed, ToSet
<1>7. PagingInv'
  <2>1. WithStatus(filter)' = WithStatus(filter) /\ Matching(filter)' = Matching(filter)
    BY <1>1 DEF WithStatus, Matching
  <2>2. \A a : Rank(a, WithStatus(filter))' = Rank(a, WithStatus(filter))
    BY <1>1, <2>1 DEF Rank, Newer
  <2>3. \A a : Untied(a)' <=> Untied(a)
    BY <1>1, <2>1 DEF Untied
  <2>4. \A k : PlacedAt(k)' <=> PlacedAt(k)
    BY <1>1 DEF PlacedAt, Rank, LastPlace, Newer, NotOlder
  <2>5. ToSet(seen)' = ToSet(seen)
    BY <1>1 DEF ToSet
  <2>6. QED
    BY <1>1, <2>1, <2>2, <2>3, <2>4, <2>5 DEF QueryInv, PagingInv
<1>8. QED
  BY <1>2, <1>3, <1>4, <1>5, <1>6, <1>7 DEF QueryInv

-----------------------------------------------------------------------------
(* The invariant holds, and what it says.                                  *)

\* Nothing is accepted, asked for, shown or cached.
LEMMA InitQuery == ASSUME Init PROVE QueryInv
<1>1. LifecycleTypeOK /\ status = [a \in Ads |-> "absent"]
  BY DEF Init, LifecycleInit, LifecycleTypeOK, LifecycleStatuses
<1>2. CreatedInv
  BY DEF Init, ListingInit, CreatedInv
<1>3. ClientInv
  <2>1. /\ client = "idle" /\ filter = NoFilter /\ limit = 0 /\ offset = 0 /\ total = 0
        /\ page = <<>> /\ seen = <<>> /\ present = {} /\ changed = FALSE /\ left = FALSE
    BY DEF Init, ListingInit
  <2>2. page \in Seq(Ads) /\ seen \in Seq(Ads) /\ Len(seen) = 0
    BY <2>1
  <2>3. QED
    BY <2>1, <2>2 DEF ClientInv
<1>4. ReadingInv
  <2>1. client = "idle" /\ reading = <<>>
    BY DEF Init, ListingInit
  <2>2. QED
    BY <2>1 DEF ReadingInv
<1>5. StatsInv /\ FirstPageInv /\ PagingInv
  BY DEF Init, ListingInit, StatsInv, FirstPageInv, PagingInv
<1>6. CacheInv
  BY <1>1, CacheAssumption DEF Init, CacheInit, CacheInv, NoEntry, NoView, LifecycleStatuses
<1>7. QED
  BY <1>1, <1>2, <1>3, <1>4, <1>5, <1>6 DEF QueryInv

\* Every step keeps the invariant.
LEMMA NextQuery == ASSUME QueryInv, [Next]_queryVars PROVE QueryInv'
<1>0. LifecycleTypeOK /\ CacheInv
  BY DEF QueryInv
<1>1. CASE PipelineStep
  <2>1. LifecycleTypeOK' /\ CreatedInv'
    BY <1>1, StatusMoves, CreatedStays DEF QueryInv
  <2>2. ClientInv' /\ ReadingInv' /\ StatsInv' /\ FirstPageInv'
    BY <1>1, PipelineClient, PipelineAhead DEF QueryInv
  <2>3. PagingInv' /\ CacheInv'
    BY <1>1, PipelinePaging, PipelineCache DEF QueryInv
  <2>4. QED
    BY <2>1, <2>2, <2>3 DEF QueryInv
<1>2. CASE ListingStep
  BY <1>2, ListingStepInv
<1>3. CASE \E g \in Getters : RequestStep(g)
  <2>1. PICK g \in Getters : (getAd(g) \/ GetAd(g)) /\ onlyCache
    BY <1>3 DEF RequestStep
  <2>2. UNCHANGED <<status, analysed>>
    BY <2>1 DEF onlyCache, lifecycleVars
  <2>3. CacheInv'
    BY <1>0, <2>1, <2>2, RequestInv
  <2>4. QED
    BY <2>1, <2>3, OnlyCacheInv
<1>4. CASE \E a \in Ads : Expire(a) /\ onlyCache
  <2>1. PICK a \in Ads : Expire(a) /\ onlyCache
    BY <1>4
  <2>2. UNCHANGED status
    BY <2>1 DEF onlyCache, lifecycleVars
  <2>3. CacheInv'
    BY <1>0, <2>1, <2>2, ExpireInv
  <2>4. QED
    BY <2>1, <2>3, OnlyCacheInv
<1>5. CASE UNCHANGED queryVars
  <2>1. onlyCache /\ UNCHANGED <<cacheType, home, cache, gpc, gid, gnode, gcopy, status>>
    BY <1>5 DEF queryVars, onlyCache, cacheVars, requestVars, lifecycleVars
  <2>2. CacheInv'
    BY <1>0, <2>1 DEF CacheInv, Local
  <2>3. QED
    BY <2>1, <2>2, OnlyCacheInv
<1>6. QED
  BY <1>1, <1>2, <1>3, <1>4, <1>5 DEF Next, PipelineStep

\* What the clients of the reading side rely on, whichever ads share their time
\* of creation: what each has been shown or has counted, the places an ad shown
\* may have had, and which node has which ad.
THEOREM ReadersAreAccounted == Spec => []QueryInv
<1>1. Init => QueryInv
  BY InitQuery
<1>2. QueryInv /\ [Next]_queryVars => QueryInv'
  BY NextQuery
<1>3. QED
  BY <1>1, <1>2, PTL DEF Spec

\* Every variable of the reading side keeps its type, and a request in
\* progress has an ad, a node and a status to read.
THEOREM QueriesTypeCorrect == Spec => []QueriesTypeOK
<1>1. QueryInv => QueriesTypeOK
  <2>1. SUFFICES ASSUME QueryInv PROVE QueriesTypeOK
    OBVIOUS
  <2>2. LifecycleTypeOK /\ CreatedInv /\ ClientInv /\ ReadingInv /\ CacheInv
    BY <2>1 DEF QueryInv
  <2>3. Len(reading) > 0 <=> client \in {"listing", "counting"}
    <3>1. ASSUME client \in {"listing", "counting"} PROVE Len(reading) > 0
      <4>1. CASE client = "listing"
        <5>1. CASE filter = NoFilter
          BY <2>2, <4>1, <5>1, NextStatus
        <5>2. CASE filter # NoFilter
          <6>1. reading = <<filter>>
            BY <2>2, <4>1, <5>2 DEF ReadingInv
          <6>2. QED
            BY <6>1
        <5>3. QED
          BY <5>1, <5>2
      <4>2. CASE client = "counting"
        BY <2>2, <4>2, NextStatus
      <4>3. QED
        BY <3>1, <4>1, <4>2
    <3>2. ASSUME client \notin {"listing", "counting"} PROVE ~(Len(reading) > 0)
      <4>1. reading = <<>>
        BY <2>2, <3>2 DEF ReadingInv
      <4>2. QED
        BY <4>1
    <3>3. QED
      BY <3>1, <3>2
  <2>4. ToSet(seen) \union ToSet(page) \subseteq Ads
    <3>1. seen \in Seq(Ads) /\ page \in Seq(Ads)
      BY <2>2 DEF ClientInv
    <3>2. QED
      BY <3>1 DEF ToSet
  <2>5. {limit, offset, total} \subseteq Nat /\ present \subseteq Ads
    BY <2>2 DEF ClientInv
  <2>6. {changed, left} \subseteq BOOLEAN
    BY <2>2, Zenon DEF ClientInv
  <2>7. ListingTypeOK
    BY <2>2, <2>3, <2>4, <2>5, <2>6 DEF ListingTypeOK, CreatedInv, ClientInv
  <2>8. CacheTypeOK
    BY <2>2 DEF CacheTypeOK, CacheInv
  <2>9. QED
    BY <2>2, <2>7, <2>8 DEF QueriesTypeOK
<1>2. QED
  BY <1>1, ReadersAreAccounted, PTL

\* The pages of a status nobody enters or leaves are only its ads, the newest
\* first, and as many of every creation time as there are, whatever limit the
\* client sent, however many ads and pages there are and however each request
\* orders ties (FindByStatus sorts and slices, ListAds bounds the limit).
THEOREM PagesAreExact == Spec => []StaticPagingIsExact
<1>1. QueryInv => StaticPagingIsExact
  <2> DEFINE S == present
             Same(a) == {b \in S : createdAt[b] = createdAt[a]}
             Shown(a) == {k \in DOMAIN seen : createdAt[seen[k]] = createdAt[a]}
  <2>1. SUFFICES ASSUME QueryInv, client = "done", filter # NoFilter, ~changed
                 PROVE  /\ ToSet(seen) \subseteq S
                        /\ \A i, j \in DOMAIN seen : i < j => createdAt[seen[i]] >= createdAt[seen[j]]
                        /\ \A a \in S : Cardinality(Shown(a)) = Cardinality(Same(a))
    BY DEF StaticPagingIsExact
  <2>2. CreatedInv /\ ClientInv /\ PagingInv
    BY <2>1 DEF QueryInv
  <2>3. /\ S = WithStatus(filter) /\ offset = Cardinality(S)
        /\ \A k \in 1 .. offset :
            seen[k] \in S /\ Rank(seen[k], S) < k /\ k =< LastPlace(seen[k], S)
    BY <2>1, <2>2 DEF PagingInv, PlacedAt
  <2>4. DOMAIN seen = 1 .. offset /\ offset \in Nat
    BY <2>2 DEF ClientInv
  <2>5. ToSet(seen) \subseteq S
    BY <2>3, <2>4 DEF ToSet
  <2>6. IsFiniteSet(S) /\ S \subseteq Ads /\ createdAt \in [Ads -> Nat]
    BY <2>2, <2>3, StatusSet DEF CreatedInv
  <2> HIDE DEF S
  <2>7. \A a \in S : /\ Rank(a, S) \in Nat /\ LastPlace(a, S) \in Nat
                     /\ LastPlace(a, S) =< offset /\ createdAt[a] \in Nat
    BY <2>3, <2>6, PlaceTypes
  <2>8. \A a, b \in S : createdAt[a] > createdAt[b] => LastPlace(a, S) =< Rank(b, S)
    BY <2>6, OlderIsLater
  <2>9. ASSUME NEW i \in 1 .. offset, NEW j \in 1 .. offset, i < j
        PROVE  createdAt[seen[i]] >= createdAt[seen[j]]
    <3>1. PICK a \in S, b \in S : /\ a = seen[i] /\ Rank(a, S) < i
                                  /\ b = seen[j] /\ j =< LastPlace(b, S)
      BY <2>3
    <3>2. ~(LastPlace(b, S) =< Rank(a, S))
      BY <2>4, <2>7, <2>9, <3>1
    <3>3. ~(createdAt[b] > createdAt[a])
      BY <2>8, <3>2
    <3>4. QED
      BY <2>7, <3>1, <3>3
  <2>10. ASSUME NEW a \in S
         PROVE  Cardinality(Shown(a)) = Cardinality(Same(a))
    <3>1. PICK r \in Nat, l \in Nat : r = Rank(a, S) /\ l = LastPlace(a, S) /\ l =< offset
      BY <2>7
    <3>2. ASSUME NEW k \in 1 .. offset, createdAt[seen[k]] = createdAt[a]
          PROVE  k \in r + 1 .. l
      <4>1. Newer(seen[k], S) = Newer(a, S) /\ NotOlder(seen[k], S) = NotOlder(a, S)
        BY <3>2 DEF Newer, NotOlder
      <4>2. Rank(seen[k], S) = r /\ LastPlace(seen[k], S) = l
        BY <3>1, <4>1 DEF Rank, LastPlace
      <4>3. r < k /\ k =< l
        BY <2>3, <4>2
      <4>4. QED
        BY <2>4, <4>3
    <3>3. ASSUME NEW k \in r + 1 .. l
          PROVE  k \in 1 .. offset /\ createdAt[seen[k]] = createdAt[a]
      <4>1. k \in 1 .. offset
        BY <2>4, <3>1
      <4>2. PICK b \in S : b = seen[k] /\ Rank(b, S) < k /\ k =< LastPlace(b, S)
        BY <2>3, <4>1
      <4>3. ~(createdAt[b] > createdAt[a])
        <5>1. ~(LastPlace(b, S) =< Rank(a, S))
          BY <2>7, <3>1, <4>1, <4>2
        <5>2. QED
          BY <2>8, <5>1
      <4>4. ~(createdAt[a] > createdAt[b])
        <5>1. ~(LastPlace(a, S) =< Rank(b, S))
          BY <2>7, <3>1, <4>1, <4>2
        <5>2. QED
          BY <2>8, <5>1
      <4>5. QED
        BY <2>7, <4>1, <4>2, <4>3, <4>4
    <3>4. Shown(a) = r + 1 .. l
      BY <2>4, <3>2, <3>3
    <3>5. Cardinality(r + 1 .. l) = IF r + 1 > l THEN 0 ELSE l - (r + 1) + 1
      <4>1. r + 1 \in Int /\ l \in Int
        OBVIOUS
      <4>2. QED
        BY <4>1, FS_Interval
    <3>6. l = r + Cardinality(Same(a))
      BY <2>6, <3>1, TiedPlaces
    <3>7. Cardinality(Same(a)) \in Nat
      <4>1. Same(a) \in SUBSET S
        OBVIOUS
      <4>2. QED
        BY <2>6, <4>1, FS_Subset, FS_CardinalityType
    <3> HIDE DEF Same, Shown
    <3>8. QED
      BY <3>4, <3>5, <3>6, <3>7
  <2>11. QED
    BY <2>4, <2>5, <2>9, <2>10
<1>2. QED
  BY <1>1, ReadersAreAccounted, PTL

\* While ads only enter a status a client that pages through it misses none of
\* the untied ads that were there: their places only move back.
THEOREM GrowingPagesMissNone == Spec => []GrowingPagingMissesNone
<1>1. QueryInv => GrowingPagingMissesNone
  BY DEF QueryInv, PagingInv, GrowingPagingMissesNone
<1>2. QED
  BY <1>1, ReadersAreAccounted, PTL

\* The status counts of GetStats, read one by one while ads move, overlook no ad.
THEOREM StatsOverlookNone == Spec => []StatsMissNone
<1>1. QueryInv => StatsMissNone
  <2>1. SUFFICES ASSUME QueryInv, client = "counted"
                 PROVE  total >= Cardinality(present)
    BY DEF StatsMissNone
  <2>2. reading = <<>>
    BY <2>1 DEF QueryInv, ReadingInv
  <2>3. Passed = 5
    BY <2>2 DEF Passed
  <2>4. \A a \in present : Place(status[a]) =< 5
    BY DEF Place
  <2>5. {a \in present : Place(status[a]) =< Passed} = present
    BY <2>3, <2>4
  <2>6. total >= Cardinality({a \in present : Place(status[a]) =< Passed})
    BY <2>1 DEF QueryInv, StatsInv
  <2>7. QED
    BY <2>5, <2>6
<1>2. QED
  BY <1>1, ReadersAreAccounted, PTL

\* A first page of ListAds without a filter that has room to spare shows every
\* ad there was when the client began, though the statuses are read one by one.
THEOREM ShortPagesMissNone == Spec => ShortFirstPageMissesNone
<1> DEFINE A == /\ client = "listing" /\ client' # "listing"
                /\ filter = NoFilter /\ offset = 0
                /\ Len(seen') < limit
                => present \subseteq ToSet(seen')
<1>1. ASSUME QueryInv, [Next]_queryVars PROVE A
  <2>1. SUFFICES ASSUME client = "listing", client' # "listing", filter = NoFilter, offset = 0,
                        Len(seen') < limit
                 PROVE  present \subseteq ToSet(seen')
    OBVIOUS
  <2>2. ListAds
    BY <1>1, <2>1 DEF Next, queryVars, listVars, AcceptAt, Advance, ListingObserves, ListingStep,
       ListingNext, BeginPaging, listAds, getStats, GetStats, RequestStep, onlyCache
  <2>3. PICK s \in NewestFirst(Head(reading)) :
            seen' = seen \o Found(s) /\ (Len(Found(s)) >= limit \/ Len(reading) = 1)
    BY <2>1, <2>2 DEF ListAds, FindByStatus, Found
  <2>4. seen \in Seq(Ads) /\ Len(seen) = 0
    BY <1>1, <2>1 DEF QueryInv, ClientInv
  <2>5. Found(s) \in Seq(Ads) /\ Len(Found(s)) \in Nat /\ limit \in Nat
    BY <1>1, <2>1, ListingFacts
  <2>6. seen' = Found(s)
    BY <2>3, <2>4, <2>5, EmptySeq, ConcatEmptySeq
  <2>7. Len(Found(s)) < limit /\ Len(reading) = 1
    BY <2>1, <2>3, <2>5, <2>6
  <2>8. QED
    BY <1>1, <2>1, <2>6, <2>7, FirstPageComplete
<1>2. QueryInv /\ [Next]_queryVars => [A]_<<status, listVars>>
  BY <1>1
<1>3. QED
  BY <1>2, ReadersAreAccounted, PTL DEF Spec, ShortFirstPageMissesNone

\* "Strong consistency for initial ad submission", on each node: GetAd fails at
\* a node only if another one accepted the ad, whatever Redis answers and
\* however many nodes and requests there are.
THEOREM AcceptedAdsAreFound == Spec => []AcceptedIsFound
<1>1. QueryInv => AcceptedIsFound
  BY DEF QueryInv, CacheInv, AcceptedIsFound
<1>2. QED
  BY <1>1, ReadersAreAccounted, PTL

=============================================================================
