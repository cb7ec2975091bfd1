-------------------------- MODULE MemoryRepository --------------------------
(***************************************************************************)
(* internal/storage/memory: the map of ads, the map of locks and the       *)
(* operations of storage.Repository the queue and the service call.  Every *)
(* operation holds the repository's mutex for its whole body, so each is   *)
(* one atomic step; callers own private copies and race only between       *)
(* calls.                                                                  *)
(*                                                                         *)
(* An operation that may be refused is a pair of operators: its guard      *)
(* (...OK) and its effect on the state.                                    *)
(***************************************************************************)
EXTENDS AdModel, FiniteSets

CONSTANTS
    Ads,          \* ad IDs
    LockTTL       \* QueueOptions.LockTTL, in ticks

ASSUME LockAssumption == LockTTL \in Nat

ASSUME AdsAssumption == IsFiniteSet(Ads) /\ None \notin Ads

VARIABLES
    ads,          \* MemoryRepository.ads; NoAd where the map has no entry
    locks,        \* MemoryRepository.locks; NoLock where the map has no entry
    now           \* the wall clock every time.Now() reads

NoLock == [owner |-> None, expiresAt |-> Never]

LockInfo == [owner : Instances \union {None}, expiresAt : Int]

WithStatus(status) == {a \in Ads : ads[a].status = status}

CountByStatus(status) == Cardinality(WithStatus(status))

-----------------------------------------------------------------------------

Save(id, ad) == ads' = [ads EXCEPT ![id] = ad]

\* What Update leaves both in the map and in the caller's copy.
NextVersion(ad) == [ad EXCEPT !.version = ad.version + 1]

\* Mutant: the optimistic version check is dropped.
UpdateUncheckedOK(id, ad) == ads[id].status # "absent"

UpdateOK(id, ad) ==
    /\ ads[id].status # "absent"
    /\ ads[id].version = ad.version

Update(id, ad) == ads' = [ads EXCEPT ![id] = NextVersion(ad)]

AtomicStatusUpdateOK(id, version, fromStatus) ==
    /\ ads[id].status = fromStatus
    /\ ads[id].version = version

\* Mutant: the status changes in place and the version does not.
AtomicStatusUpdateSilently(id, toStatus) ==
    ads' = [ads EXCEPT ![id] = [ads[id] EXCEPT !.status = toStatus]]

AtomicStatusUpdate(id, toStatus) ==
    ads' = [ads EXCEPT ![id] = NextVersion([ads[id] EXCEPT !.status = toStatus])]

\* The in-memory PushToQueue only overwrites the effective priority in place:
\* whatever the ad's status, and without a new version.
SetEffective(id, priority) ==
    ads' = [ads EXCEPT ![id] = [ads[id] EXCEPT !.effective = priority]]

-----------------------------------------------------------------------------

\* The results FindByStatus(status, limit, 0) may return, as sets of IDs: the
\* newest ones, ties in creation time in any order (sort.Slice is not stable
\* and map iteration is random).
FindByStatus(status, limit) ==
    LET matching == WithStatus(status)
        n        == Cardinality(matching)
    IN  {S \in SUBSET matching :
            /\ Cardinality(S) = (IF n < limit THEN n ELSE limit)
            /\ \A a \in S, b \in matching \ S : ads[a].createdAt >= ads[b].createdAt}

\* The order of PopFromQueue: effective priority, then age.
PopsBefore(a, b) ==
    \/ ads[a].effective < ads[b].effective
    \/ /\ ads[a].effective = ads[b].effective
       /\ ads[a].createdAt =< ads[b].createdAt

\* The IDs the in-memory PopFromQueue may return; it removes nothing.
PopCandidates ==
    {a \in WithStatus("queued") : \A b \in WithStatus("queued") : PopsBefore(a, b)}

\* The order of FindByPriority: effective priority, priority, then age.
RanksBefore(a, b) ==
    \/ ads[a].effective < ads[b].effective
    \/ /\ ads[a].effective = ads[b].effective
       /\ \/ ads[a].priority < ads[b].priority
          \/ /\ ads[a].priority = ads[b].priority
             /\ ads[a].createdAt =< ads[b].createdAt

\* The IDs FindByPriority(status, 1) may return.
FindByPriority(status) ==
    {a \in WithStatus(status) : \A b \in WithStatus(status) : RanksBefore(a, b)}

-----------------------------------------------------------------------------

\* Mutant: the owner of a lock is not compared.
AcquireLockAnyOwnerOK(id, owner) == owner \in Instances

\* An expired lock is free for anyone; its owner may extend it at any time.
AcquireLockOK(id, owner) ==
    \/ locks[id] = NoLock
    \/ now > locks[id].expiresAt
    \/ locks[id].owner = owner

AcquireLock(id, owner) ==
    locks' = [locks EXCEPT ![id] = [owner |-> owner, expiresAt |-> now + LockTTL]]

ReleaseLock(id, owner) ==
    locks' = [locks EXCEPT ![id] = IF locks[id].owner = owner THEN NoLock ELSE locks[id]]

=============================================================================
