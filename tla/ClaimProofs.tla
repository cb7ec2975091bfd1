---------------------------- MODULE ClaimProofs ----------------------------
(***************************************************************************)
(* The exclusion of workers, proved for every value of the constants.  The *)
(* argument has one idea: a step either leaves the content of an ad alone  *)
(* or gives it a new version, so a private copy with the stored version    *)
(* still is the stored ad, and every write that passes a version check is  *)
(* a write to an ad whose status the writer knows.  An ad held by a worker *)
(* is "processing" or "completed"; all other writers only know "submitted" *)
(* or "queued" ads.                                                        *)
(***************************************************************************)
EXTENDS PipelineProofs

\* What one step may do to one stored ad.
AdStep(old, new) == new.version > old.version \/ SameContent(new, old)

\* The whole store follows that discipline in this step.
StoreStep == \A a \in Ads : AdStep(ads[a], ads'[a])

\* The status and the version of a stored ad stay as they are.
Unmoved(a) == ads'[a].status = ads[a].status /\ ads'[a].version = ads[a].version

-----------------------------------------------------------------------------

\* Ads of the same content agree on the fields the code branches on.
LEMMA SameContentFacts ==
    ASSUME NEW ad1 \in AdRecord, NEW ad2 \in AdRecord, SameContent(ad1, ad2)
    PROVE  /\ ad1.status = ad2.status
           /\ ad1.version = ad2.version
           /\ ad1.startedAt = ad2.startedAt
           /\ ad1.analysed = ad2.analysed
<1> DEFINE e1 == [ad1 EXCEPT !.effective = 0]
           e2 == [ad2 EXCEPT !.effective = 0]
<1>1. e1 = e2
  BY DEF SameContent
<1>2. /\ e1.status = ad1.status /\ e2.status = ad2.status
      /\ e1.version = ad1.version /\ e2.version = ad2.version
      /\ e1.startedAt = ad1.startedAt /\ e2.startedAt = ad2.startedAt
      /\ e1.analysed = ad1.analysed /\ e2.analysed = ad2.analysed
  BY DEF AdRecord
<1>3. QED
  BY <1>1, <1>2

\* The in-place write of PushToQueue leaves the content alone.
LEMMA EffectiveKeepsContent ==
    ASSUME NEW ad \in AdRecord, NEW p \in Nat
    PROVE  SameContent([ad EXCEPT !.effective = p], ad)
BY DEF SameContent, AdRecord

\* A copy just read, or read and then given another effective priority, is
\* coherent with the store.
LEMMA CoherentRead ==
    ASSUME NEW ad \in AdRecord
    PROVE  Coherent(ad, ad)
BY DEF Coherent, SameContent, AdRecord

\* A copy stays coherent over any step that respects the discipline.
LEMMA CoherentKept ==
    ASSUME NEW old \in AdRecord, NEW new \in AdRecord, NEW copy \in AdRecord,
           AdStep(old, new), Coherent(old, copy)
    PROVE  Coherent(new, copy)
<1>1. old.version \in Nat /\ new.version \in Nat /\ copy.version \in Nat
  BY DEF AdRecord
<1>2. CASE new.version > old.version
  BY <1>1, <1>2 DEF Coherent
<1>3. CASE SameContent(new, old)
  <2>1. new.version = old.version
    BY <1>3, SameContentFacts
  <2>2. SameContent(copy, old) => SameContent(copy, new)
    BY <1>3 DEF SameContent
  <2>3. QED
    BY <2>1, <2>2 DEF Coherent
<1>4. QED
  BY <1>2, <1>3 DEF AdStep

\* A coherent copy that passes the version check has the stored status.
LEMMA CheckedCopy ==
    ASSUME NEW stored \in AdRecord, NEW copy \in AdRecord, Coherent(stored, copy),
           stored.version = copy.version
    PROVE  /\ copy.status = stored.status
           /\ copy.startedAt = stored.startedAt
           /\ copy.analysed = stored.analysed
BY SameContentFacts DEF Coherent

\* The new version of Update makes any write a legal step.
LEMMA VersionedWrite ==
    ASSUME NEW old \in AdRecord, NEW ad \in AdRecord, ad.version = old.version
    PROVE  /\ AdStep(old, NextVersion(ad))
           /\ NextVersion(ad).status = ad.status
           /\ NextVersion(ad).startedAt = ad.startedAt
           /\ NextVersion(ad).version = old.version + 1
BY DEF AdStep, NextVersion, AdRecord

\* AtomicStatusUpdate changes the status and the version, and nothing else.
LEMMA StatusWrite ==
    ASSUME NEW old \in AdRecord, NEW st \in Statuses
    PROVE  /\ AdStep(old, NextVersion([old EXCEPT !.status = st]))
           /\ NextVersion([old EXCEPT !.status = st]).status = st
           /\ NextVersion([old EXCEPT !.status = st]).startedAt = old.startedAt
<1> DEFINE ad == [old EXCEPT !.status = st]
<1>1. ad \in AdRecord /\ ad.version = old.version /\ ad.status = st /\ ad.startedAt = old.startedAt
  BY DEF AdRecord
<1> HIDE DEF ad
<1>2. /\ AdStep(old, NextVersion(ad))
      /\ NextVersion(ad).status = ad.status
      /\ NextVersion(ad).startedAt = ad.startedAt
  BY <1>1, VersionedWrite
<1>3. QED
  BY <1>1, <1>2 DEF ad

-----------------------------------------------------------------------------
(* What a step does to an actor that takes no part in it.                  *)

\* A store that does not change respects the discipline.
LEMMA NoWrite ==
    ASSUME PipelineInv, UNCHANGED ads
    PROVE  StoreStep /\ StoreInv' /\ \A a \in Ads : Unmoved(a)
BY DEF StoreStep, AdStep, SameContent, PipelineInv, StoreInv, Unmoved

\* One legal write leaves the store in order, and moves no ad but its own.
LEMMA OneWrite ==
    ASSUME PipelineInv, NEW id \in Ads, NEW ad \in AdRecord,
           ads' = [ads EXCEPT ![id] = ad], AdStep(ads[id], ad),
           ad.startedAt = Never, ad.status \notin {"failed", "absent"}
    PROVE  StoreStep /\ StoreInv' /\ \A a \in Ads : a # id => Unmoved(a)
<1>1. ads \in [Ads -> AdRecord]
  BY DEF PipelineInv, TypeOK, RepositoryTypeOK
<1>2. \A a \in Ads : ads'[a] = IF a = id THEN ad ELSE ads[a]
  BY <1>1
<1>3. StoreStep
  BY <1>2 DEF StoreStep, AdStep, SameContent
<1>4. StoreInv'
  BY <1>2 DEF PipelineInv, StoreInv
<1>5. QED
  BY <1>2, <1>3, <1>4 DEF Unmoved

\* A push to the cache queue moves no status and no version, whatever the ad's
\* status is by the time it lands.
LEMMA PushKeepsContent ==
    ASSUME PipelineInv, NEW id \in Ads, NEW p \in Nat, PushToQueue(id, p)
    PROVE  StoreStep /\ StoreInv' /\ \A a \in Ads : Unmoved(a)
<1>1. CASE UNCHANGED ads
  BY <1>1, NoWrite
<1>2. CASE SetEffective(id, p)
  <2> DEFINE ad == [ads[id] EXCEPT !.effective = p]
  <2>1. ads \in [Ads -> AdRecord]
    BY DEF PipelineInv, TypeOK, RepositoryTypeOK
  <2>2. SameContent(ad, ads[id]) /\ ad \in AdRecord
    BY <2>1, EffectiveKeepsContent, EffectiveChangeType
  <2> HIDE DEF ad
  <2>3. /\ ad.status = ads[id].status /\ ad.version = ads[id].version
        /\ ad.startedAt = ads[id].startedAt /\ ad.analysed = ads[id].analysed
    BY <2>1, <2>2, SameContentFacts
  <2>4. \A a \in Ads : ads'[a] = IF a = id THEN ad ELSE ads[a]
    BY <1>2, <2>1 DEF SetEffective, ad
  <2>5. StoreStep
    BY <2>2, <2>4 DEF StoreStep, AdStep, SameContent
  <2>6. StoreInv'
    BY <2>3, <2>4 DEF PipelineInv, StoreInv
  <2>7. QED
    BY <2>3, <2>4, <2>5, <2>6 DEF Unmoved
<1>3. QED
  BY <1>1, <1>2 DEF PushToQueue

\* A request stays in order over any legal step of the store by someone else.
LEMMA SubmitterFrame ==
    ASSUME PipelineInv, TypeOK', StoreStep, NEW s \in Submitters,
           spc'[s] = spc[s], sid'[s] = sid[s], sad'[s] = sad[s]
    PROVE  SubmitterInv(s)'
<1>1. SubmitterInv(s)
  BY DEF PipelineInv
<1>2. spc[s] # "idle" => Coherent(ads'[sid[s]], sad[s])
  <2>1. SUFFICES ASSUME spc[s] # "idle"
                 PROVE  Coherent(ads'[sid[s]], sad[s])
    OBVIOUS
  <2>2. sid[s] \in Ads /\ sad[s] \in AdRecord
    BY <2>1 DEF PipelineInv, TypeOK, SubmitterTypeOK
  <2>3. ads[sid[s]] \in AdRecord /\ ads'[sid[s]] \in AdRecord
    BY <2>2 DEF PipelineInv, TypeOK, RepositoryTypeOK
  <2>4. QED
    BY <1>1, <2>1, <2>2, <2>3, CoherentKept DEF SubmitterInv, StoreStep
<1>3. QED
  BY <1>1, <1>2 DEF SubmitterInv

\* So does a worker, provided the ad it holds does not move.
LEMMA WorkerFrame ==
    ASSUME PipelineInv, TypeOK', StoreStep, NEW w \in Workers,
           wpc'[w] = wpc[w], wid'[w] = wid[w], wad'[w] = wad[w],
           wpc[w] \in HoldingSteps => Unmoved(wid[w])
    PROVE  WorkerInv(w)'
<1>1. WorkerInv(w)
  BY DEF PipelineInv
<1>2. wpc[w] \in CopySteps => Coherent(ads'[wid[w]], wad[w])
  <2>1. SUFFICES ASSUME wpc[w] \in CopySteps
                 PROVE  Coherent(ads'[wid[w]], wad[w])
    OBVIOUS
  <2>2. wid[w] \in Ads /\ wad[w] \in AdRecord
    BY <2>1 DEF PipelineInv, TypeOK, WorkerTypeOK, CopySteps
  <2>3. ads[wid[w]] \in AdRecord /\ ads'[wid[w]] \in AdRecord
    BY <2>2 DEF PipelineInv, TypeOK, RepositoryTypeOK
  <2>4. QED
    BY <1>1, <2>1, <2>2, <2>3, CoherentKept DEF WorkerInv, StoreStep
<1>3. QED
  BY <1>1, <1>2 DEF WorkerInv, HoldingSteps, Unmoved

\* So does a maintenance loop, with its snapshot and the copy it works on.
LEMMA MaintenanceFrame ==
    ASSUME PipelineInv, TypeOK', StoreStep, NEW i \in Instances,
           mpc'[i] = mpc[i], mtask'[i] = mtask[i], mitems'[i] = mitems[i],
           mid'[i] = mid[i], mcopy'[i] = mcopy[i]
    PROVE  MaintenanceInv(i)'
<1>1. MaintenanceInv(i)
  BY DEF PipelineInv
<1>2. ASSUME NEW x \in mitems[i]
      PROVE  Coherent(ads'[x.id], x.ad)
  <2>1. x.id \in Ads /\ x.ad \in AdRecord
    BY DEF PipelineInv, TypeOK, MaintenanceTypeOK, Item
  <2>2. ads[x.id] \in AdRecord /\ ads'[x.id] \in AdRecord
    BY <2>1 DEF PipelineInv, TypeOK, RepositoryTypeOK
  <2>3. QED
    BY <1>1, <2>1, <2>2, CoherentKept DEF MaintenanceInv, StoreStep
<1>3. mpc[i] \in {"get", "update", "push"} => Coherent(ads'[mid[i]], mcopy[i])
  <2>1. SUFFICES ASSUME mpc[i] \in {"get", "update", "push"}
                 PROVE  Coherent(ads'[mid[i]], mcopy[i])
    OBVIOUS
  <2>2. mid[i] \in Ads /\ mcopy[i] \in AdRecord
    BY <2>1 DEF PipelineInv, TypeOK, MaintenanceTypeOK
  <2>3. ads[mid[i]] \in AdRecord /\ ads'[mid[i]] \in AdRecord
    BY <2>2 DEF PipelineInv, TypeOK, RepositoryTypeOK
  <2>4. QED
    BY <1>1, <2>1, <2>2, <2>3, CoherentKept DEF MaintenanceInv, StoreStep
<1>4. QED
  BY <1>1, <1>2, <1>3 DEF MaintenanceInv

\* A worker's ad is in "processing" or "completed", so a write to an ad in any
\* other status concerns no worker.
LEMMA HeldStatus ==
    ASSUME PipelineInv, NEW w \in Workers, wpc[w] \in HoldingSteps
    PROVE  wid[w] \in Ads /\ ads[wid[w]].status \in {"processing", "completed"}
<1>1. wid[w] \in Ads
  BY DEF PipelineInv, TypeOK, WorkerTypeOK, HoldingSteps, IdSteps, WorkerSteps
<1>2. WorkerInv(w)
  BY DEF PipelineInv
<1>3. QED
  BY <1>1, <1>2 DEF WorkerInv, HoldingSteps

\* No worker, hence no claim, changes hands in a step of someone else that
\* leaves the claimed ads alone.
LEMMA AllWorkersFrame ==
    ASSUME PipelineInv, TypeOK', StoreStep, UNCHANGED <<wpc, wid, wad>>,
           \A a \in Ads : ads[a].status \in {"processing", "completed"} => Unmoved(a)
    PROVE  (\A w \in Workers : WorkerInv(w)') /\ ExclusiveClaim'
<1>1. ASSUME NEW w \in Workers
      PROVE  WorkerInv(w)'
  BY HeldStatus, WorkerFrame
<1>2. ExclusiveClaim'
  BY DEF PipelineInv, ExclusiveClaim, Holds
<1>3. QED
  BY <1>1, <1>2

-----------------------------------------------------------------------------
(* The steps of a request.                                                 *)

\* Everyone but the request's own goroutine keeps its part of the invariant
\* when a step of SubmitAd or Enqueue leaves the claimed ads alone.
LEMMA RequestFrame ==
    ASSUME PipelineInv, TypeOK', StoreStep, StoreInv', NEW s \in Submitters,
           UNCHANGED <<workerVars, maintVars>>,
           \A r \in Submitters \ {s} : spc'[r] = spc[r] /\ sid'[r] = sid[r] /\ sad'[r] = sad[r],
           \A a \in Ads : ads[a].status \in {"processing", "completed"} => Unmoved(a),
           SubmitterInv(s)'
    PROVE  PipelineInv'
<1>1. \A r \in Submitters : SubmitterInv(r)'
  <2>1. ASSUME NEW r \in Submitters \ {s}
        PROVE  SubmitterInv(r)'
    BY SubmitterFrame
  <2>2. QED
    BY <2>1
<1>2. (\A w \in Workers : WorkerInv(w)') /\ ExclusiveClaim'
  BY AllWorkersFrame DEF workerVars
<1>3. ASSUME NEW i \in Instances
      PROVE  MaintenanceInv(i)'
  BY MaintenanceFrame DEF maintVars
<1>4. QED
  BY <1>1, <1>2, <1>3 DEF PipelineInv

\* SubmitAd saves under an ID that is not in the map.
LEMMA SubmitAdInv ==
    ASSUME PipelineInv, TypeOK', NEW s \in Submitters, SubmitAd(s)
    PROVE  PipelineInv'
<1>1. PICK a \in Ads, p \in PriorityInputs :
        /\ ads[a].status = "absent"
        /\ ads' = [ads EXCEPT ![a] = NewAd(p, now)]
        /\ sid' = [sid EXCEPT ![s] = a]
        /\ sad' = [sad EXCEPT ![s] = NewAd(p, now)]
  BY DEF SubmitAd, WithStatus, Save
<1> DEFINE ad == NewAd(p, now)
<1>2. ad \in AdRecord
  BY NewAdType, PipelineAssumption DEF PipelineInv, TypeOK, ProcessTypeOK
<1>3. ad.version = 1 /\ ad.startedAt = Never /\ ad.status = "submitted"
  BY DEF NewAd
<1> HIDE DEF ad
<1>4. AdStep(ads[a], ad)
  BY <1>1, <1>3 DEF AdStep, PipelineInv, StoreInv
<1>5. StoreStep /\ StoreInv' /\ \A b \in Ads : b # a => Unmoved(b)
  BY <1>1, <1>2, <1>3, <1>4, OneWrite DEF ad
<1>6. /\ spc' = [spc EXCEPT ![s] = "admit"]
      /\ UNCHANGED <<workerVars, maintVars>>
  BY DEF SubmitAd
<1>7. ads \in [Ads -> AdRecord] /\ spc \in [Submitters -> EnqueueSteps \union {"idle"}]
      /\ sid \in [Submitters -> Ads \union {None}] /\ sad \in [Submitters -> AdRecord]
  BY DEF PipelineInv, TypeOK, RepositoryTypeOK, SubmitterTypeOK
<1>8. SubmitterInv(s)'
  <2>1. ads'[sid'[s]] = ad /\ sad'[s] = ad /\ spc'[s] = "admit"
    BY <1>1, <1>6, <1>7 DEF ad
  <2>2. QED
    BY <1>2, <1>3, <2>1, CoherentRead DEF SubmitterInv
<1>9. \A r \in Submitters \ {s} : spc'[r] = spc[r] /\ sid'[r] = sid[r] /\ sad'[r] = sad[r]
  BY <1>1, <1>6, <1>7
<1>10. QED
  BY <1>1, <1>5, <1>6, <1>8, <1>9, RequestFrame

\* Enqueue writes only the ad it has seen "submitted", at that version.
LEMMA EnqueueInv ==
    ASSUME PipelineInv, TypeOK', NEW s \in Submitters, Enqueue(s)
    PROVE  PipelineInv'
<1>0. /\ ads \in [Ads -> AdRecord] /\ spc \in [Submitters -> EnqueueSteps \union {"idle"}]
      /\ sid \in [Submitters -> Ads \union {None}] /\ sad \in [Submitters -> AdRecord]
      /\ spc[s] # "idle" => sid[s] \in Ads
      /\ now \in Nat
  BY DEF PipelineInv, TypeOK, RepositoryTypeOK, SubmitterTypeOK, ProcessTypeOK
<1>a. SubmitterInv(s)
  BY DEF PipelineInv
<1>b. UNCHANGED <<workerVars, maintVars>>
  BY DEF Enqueue, EnqueueAdmit, EnqueueUpdate, EnqueuePush
<1>c. \A r \in Submitters \ {s} : spc'[r] = spc[r] /\ sid'[r] = sid[r] /\ sad'[r] = sad[r]
  BY <1>0 DEF Enqueue, EnqueueAdmit, EnqueueUpdate, EnqueuePush, EnqueueReturn
<1>d. EnqueueReturn(s) => SubmitterInv(s)'
  BY <1>0 DEF EnqueueReturn, SubmitterInv
<1>1. CASE EnqueueAdmit(s)
  <2>1. UNCHANGED ads
    BY <1>1 DEF EnqueueAdmit, repoVars
  <2>2. SubmitterInv(s)'
    BY <1>0, <1>a, <1>d, <1>1, <2>1 DEF EnqueueAdmit, SubmitterInv
  <2>3. QED
    BY <1>b, <1>c, <2>1, <2>2, NoWrite, RequestFrame
<1>2. CASE EnqueueUpdate(s)
  <2> DEFINE queued == SetStatus(sad[s], "queued", now)
  <2>1. CASE ~UpdateOK(sid[s], queued)
    <3>1. EnqueueReturn(s) /\ UNCHANGED ads
      BY <1>2, <2>1 DEF EnqueueUpdate
    <3>2. QED
      BY <1>b, <1>c, <1>d, <3>1, NoWrite, RequestFrame
  <2>2. CASE UpdateOK(sid[s], queued)
    <3>1. sid[s] \in Ads /\ spc[s] = "update"
      BY <1>0, <1>2 DEF EnqueueUpdate
    <3>2. queued \in AdRecord /\ NextVersion(queued) \in AdRecord
      BY <1>0, SetStatusType, NextVersionType DEF Statuses
    <3>3. queued.version = sad[s].version /\ queued.startedAt = sad[s].startedAt
          /\ queued.status = "queued"
      BY <1>0 DEF SetStatus, AdRecord
    <3>4. /\ ads' = [ads EXCEPT ![sid[s]] = NextVersion(queued)]
          /\ sad' = [sad EXCEPT ![s] = NextVersion(queued)]
          /\ spc' = [spc EXCEPT ![s] = "push"]
          /\ sid' = sid
      BY <1>2, <2>2 DEF EnqueueUpdate, Update
    <3>5. ads[sid[s]].version = queued.version
      BY <2>2 DEF UpdateOK
    <3> HIDE DEF queued
    <3>6. ads[sid[s]].status = "submitted" /\ queued.startedAt = Never
      <4>1. ads[sid[s]].status = sad[s].status /\ ads[sid[s]].startedAt = sad[s].startedAt
        BY <1>0, <1>a, <3>1, <3>3, <3>5, CheckedCopy DEF SubmitterInv
      <4>2. QED
        BY <1>a, <3>1, <3>3, <4>1 DEF SubmitterInv, PipelineInv, StoreInv
    <3>7. /\ AdStep(ads[sid[s]], NextVersion(queued))
          /\ NextVersion(queued).status = "queued"
          /\ NextVersion(queued).startedAt = Never
      BY <1>0, <3>1, <3>2, <3>3, <3>5, <3>6, VersionedWrite
    <3>8. StoreStep /\ StoreInv' /\ \A b \in Ads : b # sid[s] => Unmoved(b)
      BY <3>1, <3>2, <3>4, <3>7, OneWrite
    <3>9. SubmitterInv(s)'
      <4>1. ads'[sid'[s]] = NextVersion(queued) /\ sad'[s] = NextVersion(queued) /\ spc'[s] = "push"
        BY <1>0, <3>1, <3>4
      <4>2. QED
        BY <3>2, <4>1, CoherentRead DEF SubmitterInv
    <3>10. QED
      BY <1>b, <1>c, <3>6, <3>8, <3>9, RequestFrame
  <2>3. QED
    BY <2>1, <2>2
<1>3. CASE EnqueuePush(s)
  <2>1. sid[s] \in Ads /\ sad[s].effective \in Nat
    BY <1>0, <1>3 DEF EnqueuePush, AdRecord
  <2>2. StoreStep /\ StoreInv' /\ \A a \in Ads : Unmoved(a)
    BY <1>3, <2>1, PushKeepsContent DEF EnqueuePush
  <2>3. SubmitterInv(s)'
    BY <1>d, <1>3 DEF EnqueuePush
  <2>4. QED
    BY <1>b, <1>c, <2>2, <2>3, RequestFrame
<1>4. QED
  BY <1>1, <1>2, <1>3 DEF Enqueue

-----------------------------------------------------------------------------
(* The steps of a worker.                                                  *)

\* Everyone but the worker itself keeps its part of the invariant when the
\* step writes at most one ad: the worker's own, or one nobody holds.
LEMMA WorkerStepFrame ==
    ASSUME PipelineInv, TypeOK', StoreStep, StoreInv', NEW w \in Workers,
           UNCHANGED <<submitVars, maintVars>>,
           \A v \in Workers \ {w} : wpc'[v] = wpc[v] /\ wid'[v] = wid[v] /\ wad'[v] = wad[v],
           \A v \in Workers \ {w} : wpc[v] \in HoldingSteps => Unmoved(wid[v]),
           \A v \in Workers \ {w} :
             wpc'[w] \in HoldingSteps /\ wpc[v] \in HoldingSteps => wid'[w] # wid[v],
           WorkerInv(w)'
    PROVE  PipelineInv'
<1>1. \A v \in Workers : WorkerInv(v)'
  <2>1. ASSUME NEW v \in Workers \ {w}
        PROVE  WorkerInv(v)'
    BY WorkerFrame
  <2>2. QED
    BY <2>1
<1>2. ASSUME NEW s \in Submitters
      PROVE  SubmitterInv(s)'
  BY SubmitterFrame DEF submitVars
<1>3. ASSUME NEW i \in Instances
      PROVE  MaintenanceInv(i)'
  BY MaintenanceFrame DEF maintVars
<1>4. ExclusiveClaim'
  BY DEF PipelineInv, ExclusiveClaim, Holds
<1>5. QED
  BY <1>1, <1>2, <1>3, <1>4 DEF PipelineInv

\* A worker that writes nothing and claims nothing disturbs no one.
LEMMA QuietWorkerStep ==
    ASSUME PipelineInv, TypeOK', NEW w \in Workers, UNCHANGED ads,
           UNCHANGED <<submitVars, maintVars>>,
           \A v \in Workers \ {w} : wpc'[v] = wpc[v] /\ wid'[v] = wid[v] /\ wad'[v] = wad[v],
           wpc'[w] \in HoldingSteps => wpc[w] \in HoldingSteps /\ wid'[w] = wid[w],
           WorkerInv(w)'
    PROVE  PipelineInv'
<1>1. StoreStep /\ StoreInv' /\ \A a \in Ads : Unmoved(a)
  BY NoWrite
<1>2. \A v \in Workers \ {w} : wpc[v] \in HoldingSteps => Unmoved(wid[v])
  BY <1>1, HeldStatus
<1>3. \A v \in Workers \ {w} :
        wpc'[w] \in HoldingSteps /\ wpc[v] \in HoldingSteps => wid'[w] # wid[v]
  BY HeldStatus DEF PipelineInv, ExclusiveClaim, Holds
<1>4. QED
  BY <1>1, <1>2, <1>3, WorkerStepFrame

\* A worker that writes the ad it holds disturbs no other worker.
LEMMA HolderWrite ==
    ASSUME PipelineInv, TypeOK', NEW w \in Workers, wpc[w] \in HoldingSteps,
           NEW ad \in AdRecord, ads' = [ads EXCEPT ![wid[w]] = ad],
           AdStep(ads[wid[w]], ad), ad.startedAt = Never, ad.status \notin {"failed", "absent"},
           UNCHANGED <<submitVars, maintVars, wid>>,
           \A v \in Workers \ {w} : wpc'[v] = wpc[v] /\ wad'[v] = wad[v],
           WorkerInv(w)'
    PROVE  PipelineInv'
<1>1. wid[w] \in Ads
  BY HeldStatus
<1>2. StoreStep /\ StoreInv' /\ \A a \in Ads : a # wid[w] => Unmoved(a)
  BY <1>1, OneWrite
<1>3. \A v \in Workers \ {w} : wpc[v] \in HoldingSteps => wid[v] \in Ads /\ wid[v] # wid[w]
  BY <1>1, HeldStatus DEF PipelineInv, ExclusiveClaim, Holds
<1>4. QED
  BY <1>2, <1>3, WorkerStepFrame

\* The steps of a worker at which nothing is stored and no ad is claimed: it
\* drops what it has, reads, takes or releases locks, or moves on.
LEMMA DropInv ==
    ASSUME PipelineInv, TypeOK', NEW w \in Workers, UNCHANGED ads,
           UNCHANGED <<submitVars, maintVars>>, forget(w),
           NEW step \in WorkerSteps \ IdSteps, goto(w, step)
    PROVE  PipelineInv'
<1>1. /\ wpc \in [Workers -> WorkerSteps] /\ wid \in [Workers -> Ads \union {None}]
      /\ wad \in [Workers -> AdRecord]
  BY DEF PipelineInv, TypeOK, WorkerTypeOK
<1>2. \A v \in Workers \ {w} : wpc'[v] = wpc[v] /\ wid'[v] = wid[v] /\ wad'[v] = wad[v]
  BY <1>1 DEF forget, goto
<1>3. wpc'[w] = step
  BY <1>1 DEF goto
<1>4. step \notin HoldingSteps /\ step \notin CopySteps
  BY DEF HoldingSteps, CopySteps, IdSteps, WorkerSteps
<1>5. WorkerInv(w)'
  BY <1>3, <1>4 DEF WorkerInv, HoldingSteps
<1>6. QED
  BY <1>2, <1>3, <1>4, <1>5, QuietWorkerStep

\* Dequeue keeps the invariant.  DequeueClaim is the one step that creates a
\* holder: the compare-and-set has just seen the ad "queued", which no ad in
\* anyone's hands is.  DequeueAssign never meets a conflict.
LEMMA DequeueInv ==
    ASSUME PipelineInv, TypeOK', NEW w \in Workers, Dequeue(w)
    PROVE  PipelineInv'
<1>0. /\ ads \in [Ads -> AdRecord]
      /\ wpc \in [Workers -> WorkerSteps] /\ wid \in [Workers -> Ads \union {None}]
      /\ wad \in [Workers -> AdRecord]
      /\ wpc[w] \in IdSteps => wid[w] \in Ads
  BY DEF PipelineInv, TypeOK, RepositoryTypeOK, WorkerTypeOK
<1>a. WorkerInv(w)
  BY DEF PipelineInv
<1>b. othersUnchanged
  BY DEF Dequeue, DequeueClosed, DequeuePop, DequeuePopMiss, DequeueGet, DequeueFind, DequeueLock,
    DequeueLockDenied, DequeueClaim, DequeueReget, DequeueAssign, DequeueRelease, DequeueUnwind
<1>c. UNCHANGED <<submitVars, maintVars>>
  BY <1>b DEF othersUnchanged
<1>d. ASSUME returnErr(w) \/ recurse(w), UNCHANGED ads
      PROVE  PipelineInv'
  <2>1. PICK step \in {"loop", "returnErr", "dequeue"} : goto(w, step)
    BY <1>d DEF returnErr, recurse
  <2>2. step \in WorkerSteps \ IdSteps /\ forget(w)
    BY <1>d DEF WorkerSteps, IdSteps, returnErr, recurse
  <2>3. QED
    BY <1>c, <1>d, <2>1, <2>2, DropInv
<1> USE DEF goto
<1>1. CASE DequeueClosed(w)
  BY <1>1, <1>d DEF DequeueClosed, repoVars
<1>2. CASE DequeuePop(w)
  <2>1. PICK a \in Ads : wid' = [wid EXCEPT ![w] = a]
    BY <1>2 DEF DequeuePop, PopCandidates, WithStatus, ZMin
  <2>2. wpc' = [wpc EXCEPT ![w] = "get"] /\ UNCHANGED <<ads, wad>>
    BY <1>2 DEF DequeuePop, repoVars
  <2>3. WorkerInv(w)'
    BY <1>0, <2>2 DEF WorkerInv, CopySteps
  <2>4. QED
    BY <1>0, <1>c, <2>1, <2>2, <2>3, QuietWorkerStep DEF HoldingSteps
<1>3. CASE DequeuePopMiss(w)
  <2>1. wpc' = [wpc EXCEPT ![w] = "find"] /\ UNCHANGED <<ads, wid, wad>>
    BY <1>3 DEF DequeuePopMiss, repoVars
  <2>2. WorkerInv(w)'
    BY <1>0, <2>1 DEF WorkerInv, CopySteps, IdSteps
  <2>3. QED
    BY <1>0, <1>c, <2>1, <2>2, QuietWorkerStep DEF HoldingSteps
<1>4. CASE DequeueGet(w)
  <2>1. CASE recurse(w)
    BY <1>4, <1>d, <2>1 DEF DequeueGet, repoVars
  <2>2. CASE ~recurse(w)
    <3>1. /\ wad' = [wad EXCEPT ![w] = ads[wid[w]]]
          /\ wpc' = [wpc EXCEPT ![w] = "lock"]
          /\ UNCHANGED <<ads, wid>>
      BY <1>4, <2>2 DEF DequeueGet, repoVars
    <3>2. wid[w] \in Ads
      BY <1>0, <1>4 DEF DequeueGet, IdSteps, WorkerSteps
    <3>3. Coherent(ads[wid[w]], ads[wid[w]])
      BY <1>0, <3>2, CoherentRead
    <3>4. WorkerInv(w)'
      BY <1>0, <3>1, <3>3 DEF WorkerInv
    <3>5. QED
      BY <1>0, <1>c, <3>1, <3>4, QuietWorkerStep DEF HoldingSteps
  <2>3. QED
    BY <2>1, <2>2
<1>5. CASE DequeueFind(w)
  <2>1. CASE returnErr(w)
    BY <1>5, <1>d, <2>1 DEF DequeueFind, repoVars
  <2>2. CASE ~returnErr(w)
    <3>1. PICK a \in Ads : /\ wid' = [wid EXCEPT ![w] = a]
                           /\ wad' = [wad EXCEPT ![w] = ads[a]]
                           /\ wpc' = [wpc EXCEPT ![w] = "lock"]
      BY <1>5, <2>2 DEF DequeueFind, FindByPriority, WithStatus
    <3>2. UNCHANGED ads
      BY <1>5 DEF DequeueFind, repoVars
    <3>3. Coherent(ads[a], ads[a])
      BY <1>0, CoherentRead
    <3>4. WorkerInv(w)'
      BY <1>0, <3>1, <3>2, <3>3 DEF WorkerInv
    <3>5. QED
      BY <1>0, <1>c, <3>1, <3>2, <3>4, QuietWorkerStep DEF HoldingSteps
  <2>3. QED
    BY <2>1, <2>2
<1>6. CASE DequeueLock(w)
  <2>1. wpc[w] = "lock" /\ wpc' = [wpc EXCEPT ![w] = "cas"] /\ UNCHANGED <<ads, wid, wad>>
    BY <1>6 DEF DequeueLock
  <2>2. WorkerInv(w)'
    BY <1>0, <1>a, <2>1 DEF WorkerInv, CopySteps, IdSteps, WorkerSteps
  <2>3. QED
    BY <1>0, <1>c, <2>1, <2>2, QuietWorkerStep DEF HoldingSteps
<1>7. CASE DequeueLockDenied(w)
  BY <1>7, <1>d DEF DequeueLockDenied, repoVars
<1>8. CASE DequeueClaim(w)
  <2>1. CASE recurse(w) /\ UNCHANGED ads
    BY <1>d, <2>1
  <2>2. CASE UNCHANGED ads /\ UNCHANGED <<wid, wad>> /\ goto(w, "release")
    <3>1. wpc[w] = "cas"
      BY <1>8 DEF DequeueClaim
    <3>2. WorkerInv(w)'
      BY <1>0, <1>a, <2>2, <3>1 DEF WorkerInv, CopySteps, IdSteps, WorkerSteps
    <3>3. QED
      BY <1>0, <1>c, <2>2, <3>1, <3>2, QuietWorkerStep DEF HoldingSteps
  <2>3. CASE ClaimOK(w) /\ AtomicStatusUpdate(wid[w], "processing") /\ goto(w, "reget")
             /\ UNCHANGED <<wid, wad>>
    <3> DEFINE ad == NextVersion([ads[wid[w]] EXCEPT !.status = "processing"])
    <3>1. wpc[w] = "cas" /\ wid[w] \in Ads /\ ads[wid[w]].status = "queued"
      BY <1>0, <1>8, <2>3 DEF DequeueClaim, ClaimOK, AtomicStatusUpdateOK, IdSteps, WorkerSteps
    <3>2. ad \in AdRecord
      BY <1>0, <3>1, StatusChangeType DEF Statuses
    <3>3. AdStep(ads[wid[w]], ad) /\ ad.status = "processing" /\ ad.startedAt = Never
      <4>1. "processing" \in Statuses /\ ads[wid[w]] \in AdRecord
        BY <1>0, <3>1 DEF Statuses
      <4>2. AdStep(ads[wid[w]], ad) /\ ad.status = "processing" /\ ad.startedAt = ads[wid[w]].startedAt
        BY <4>1, StatusWrite
      <4>3. QED
        BY <3>1, <4>2 DEF PipelineInv, StoreInv
    <3>4. ads' = [ads EXCEPT ![wid[w]] = ad]
      BY <2>3 DEF AtomicStatusUpdate
    <3> HIDE DEF ad
    <3>5. StoreStep /\ StoreInv' /\ \A a \in Ads : a # wid[w] => Unmoved(a)
      BY <3>1, <3>2, <3>3, <3>4, OneWrite
    <3>6. \A v \in Workers : wpc[v] \in HoldingSteps => wid[v] \in Ads /\ wid[v] # wid[w]
      BY <3>1, HeldStatus
    <3>7. WorkerInv(w)'
      <4>1. ads'[wid[w]] = ad /\ wpc'[w] = "reget"
        BY <1>0, <2>3, <3>1, <3>4
      <4>2. Coherent(ads[wid[w]], wad[w])
        BY <1>a, <3>1 DEF WorkerInv, CopySteps, IdSteps, WorkerSteps
      <4>3. Coherent(ad, wad[w])
        BY <1>0, <3>1, <3>2, <3>3, <4>2, CoherentKept
      <4>4. QED
        BY <2>3, <3>3, <4>1, <4>3 DEF WorkerInv
    <3>8. QED
      BY <1>0, <1>c, <2>3, <3>5, <3>6, <3>7, WorkerStepFrame
  <2>4. QED
    BY <1>8, <2>1, <2>2, <2>3 DEF DequeueClaim
<1>9. CASE DequeueReget(w)
  <2>1. /\ wpc[w] = "reget" /\ wpc' = [wpc EXCEPT ![w] = "assign"]
        /\ wad' = [wad EXCEPT ![w] = ads[wid[w]]] /\ UNCHANGED <<ads, wid>>
    BY <1>9 DEF DequeueReget, repoVars
  <2>2. wid[w] \in Ads /\ Coherent(ads[wid[w]], ads[wid[w]])
    BY <1>0, <2>1, CoherentRead DEF IdSteps, WorkerSteps
  <2>3. WorkerInv(w)'
    BY <1>0, <1>a, <2>1, <2>2 DEF WorkerInv
  <2>4. QED
    BY <1>0, <1>c, <2>1, <2>3, QuietWorkerStep DEF HoldingSteps
<1>10. CASE DequeueAssign(w)
  <2> DEFINE assigned == IncrementAttempts(AssignWorker(wad[w], InstanceOf[w]))
  <2>1. wpc[w] = "assign" /\ wpc[w] \in HoldingSteps /\ wid[w] \in Ads /\ InstanceOf[w] \in Instances
    BY <1>0, <1>10, QueueAssumption DEF DequeueAssign, HoldingSteps, IdSteps, WorkerSteps
  <2>2. assigned \in AdRecord /\ NextVersion(assigned) \in AdRecord
    BY <1>0, <2>1, AssignedType, NextVersionType
  <2>3. assigned.version = wad[w].version /\ assigned.status = wad[w].status
        /\ assigned.startedAt = wad[w].startedAt
    BY <1>0 DEF IncrementAttempts, AssignWorker, AdRecord
  <2> HIDE DEF assigned
  <2>4. /\ ads[wid[w]].version = assigned.version
        /\ ads[wid[w]].status = "processing"
        /\ Coherent(ads[wid[w]], wad[w])
    BY <1>a, <2>1, <2>3 DEF WorkerInv, CopySteps, IdSteps, WorkerSteps
  <2>5. assigned.status = "processing" /\ assigned.startedAt = Never
    BY <1>0, <2>1, <2>3, <2>4, CheckedCopy DEF PipelineInv, StoreInv
  <2>6. /\ ads' = [ads EXCEPT ![wid[w]] = NextVersion(assigned)]
        /\ wad' = [wad EXCEPT ![w] = NextVersion(assigned)]
        /\ returnAd(w)
    BY <1>10, <2>4 DEF DequeueAssign, UpdateOK, Update, assigned
  <2>7. /\ AdStep(ads[wid[w]], NextVersion(assigned))
        /\ NextVersion(assigned).status = "processing"
        /\ NextVersion(assigned).startedAt = Never
    BY <1>0, <2>1, <2>2, <2>4, <2>5, VersionedWrite
  <2>8. wid' = wid /\ wpc'[w] \in {"work", "returnAd"}
        /\ \A v \in Workers \ {w} : wpc'[v] = wpc[v] /\ wad'[v] = wad[v]
    BY <1>0, <2>6 DEF returnAd
  <2>9. WorkerInv(w)'
    <3>1. ads'[wid'[w]] = NextVersion(assigned) /\ wad'[w] = NextVersion(assigned)
      BY <1>0, <2>1, <2>6, <2>8
    <3>2. Coherent(NextVersion(assigned), NextVersion(assigned))
      BY <2>2, CoherentRead
    <3>3. QED
      BY <2>7, <2>8, <3>1, <3>2 DEF WorkerInv
  <2>10. QED
    BY <1>c, <2>1, <2>2, <2>6, <2>7, <2>8, <2>9, HolderWrite
<1>11. CASE DequeueRelease(w)
  BY <1>11, <1>d DEF DequeueRelease
<1>12. CASE DequeueUnwind(w)
  <2>1. PICK step \in {"returnAd", "returnErr", "work", "loop"} :
          /\ wpc' = [wpc EXCEPT ![w] = step]
          /\ step \in {"returnAd", "work"} => wpc[w] = "returnAd"
    <3> DEFINE next == IF Len(wdefers[w]) > 1 THEN wpc[w]
                       ELSE IF wpc[w] = "returnAd" THEN "work" ELSE "loop"
    <3>1. /\ next \in {"returnAd", "returnErr", "work", "loop"}
          /\ next \in {"returnAd", "work"} => wpc[w] = "returnAd"
      BY <1>12 DEF DequeueUnwind
    <3>2. wpc' = [wpc EXCEPT ![w] = next]
      BY <1>12 DEF DequeueUnwind
    <3>3. QED
      BY <3>1, <3>2
  <2>2. UNCHANGED <<ads, wid, wad>>
    BY <1>12 DEF DequeueUnwind
  <2>3. WorkerInv(w)'
    BY <1>0, <1>a, <2>1, <2>2 DEF WorkerInv, CopySteps, IdSteps, WorkerSteps
  <2>4. QED
    BY <1>0, <1>c, <2>1, <2>2, <2>3, QuietWorkerStep DEF HoldingSteps
<1>13. QED
  BY <1>1, <1>2, <1>3, <1>4, <1>5, <1>6, <1>7, <1>8, <1>9, <1>10, <1>11, <1>12 DEF Dequeue

\* Complete keeps the invariant, and neither its status update nor its Update
\* meets a conflict: nobody else writes an ad in a worker's hands.
LEMMA CompleteInv ==
    ASSUME PipelineInv, TypeOK', NEW w \in Workers, Complete(w)
    PROVE  PipelineInv'
<1>0. /\ ads \in [Ads -> AdRecord]
      /\ wpc \in [Workers -> WorkerSteps] /\ wid \in [Workers -> Ads \union {None}]
      /\ wad \in [Workers -> AdRecord]
      /\ wpc[w] \in IdSteps => wid[w] \in Ads
  BY DEF PipelineInv, TypeOK, RepositoryTypeOK, WorkerTypeOK
<1>a. WorkerInv(w)
  BY DEF PipelineInv
<1>b. othersUnchanged
  BY DEF Complete, CompleteLock, CompleteStatus, CompleteGet, CompleteUpdate, CompleteRelease
<1>c. UNCHANGED <<submitVars, maintVars>>
  BY <1>b DEF othersUnchanged
<1>d. ASSUME goto(w, "loop"), forget(w), UNCHANGED ads
      PROVE  PipelineInv'
  <2>1. "loop" \in WorkerSteps \ IdSteps
    BY DEF WorkerSteps, IdSteps
  <2>2. QED
    BY <1>c, <1>d, <2>1, DropInv
<1>1. CASE CompleteLock(w)
  <2>1. CASE goto(w, "loop") /\ forget(w)
    BY <1>1, <1>d, <2>1 DEF CompleteLock
  <2>2. CASE goto(w, "ccas") /\ UNCHANGED <<wid, wad>>
    <3>1. wpc[w] = "work" /\ wpc' = [wpc EXCEPT ![w] = "ccas"] /\ UNCHANGED ads
      BY <1>1, <2>2 DEF CompleteLock, goto
    <3>2. WorkerInv(w)'
      BY <1>0, <1>a, <2>2, <3>1 DEF WorkerInv, CopySteps, IdSteps, WorkerSteps
    <3>3. QED
      BY <1>0, <1>c, <2>2, <3>1, <3>2, QuietWorkerStep DEF HoldingSteps
  <2>3. QED
    BY <1>1, <2>1, <2>2 DEF CompleteLock
<1>2. CASE CompleteStatus(w)
  <2> DEFINE ad == NextVersion([ads[wid[w]] EXCEPT !.status = "completed"])
  <2>1. wpc[w] = "ccas" /\ wpc[w] \in HoldingSteps /\ wid[w] \in Ads
    BY <1>0, <1>2 DEF CompleteStatus, HoldingSteps, IdSteps, WorkerSteps
  <2>2. /\ ads[wid[w]].version = wad[w].version
        /\ ads[wid[w]].status = "processing"
        /\ Coherent(ads[wid[w]], wad[w])
    BY <1>a, <2>1 DEF WorkerInv, CopySteps, IdSteps, WorkerSteps
  <2>3. /\ ads' = [ads EXCEPT ![wid[w]] = ad]
        /\ wpc' = [wpc EXCEPT ![w] = "cget"]
        /\ UNCHANGED <<wid, wad>>
    BY <1>2, <2>2 DEF CompleteStatus, AtomicStatusUpdateOK, AtomicStatusUpdate, goto
  <2>4. "completed" \in Statuses /\ ads[wid[w]] \in AdRecord
    BY <1>0, <2>1 DEF Statuses
  <2>5. ad \in AdRecord
    BY <2>4, StatusChangeType
  <2>6. AdStep(ads[wid[w]], ad) /\ ad.status = "completed" /\ ad.startedAt = ads[wid[w]].startedAt
    BY <2>4, StatusWrite
  <2> HIDE DEF ad
  <2>7. ad.startedAt = Never
    BY <2>1, <2>6 DEF PipelineInv, StoreInv
  <2>8. WorkerInv(w)'
    <3>1. ads'[wid[w]] = ad /\ wpc'[w] = "cget"
      BY <1>0, <2>1, <2>3
    <3>2. Coherent(ad, wad[w])
      BY <1>0, <2>2, <2>4, <2>5, <2>6, CoherentKept
    <3>3. QED
      BY <2>3, <2>6, <3>1, <3>2 DEF WorkerInv
  <2>9. QED
    BY <1>0, <1>c, <2>1, <2>3, <2>5, <2>6, <2>7, <2>8, HolderWrite
<1>3. CASE CompleteGet(w)
  <2>1. /\ wpc[w] = "cget" /\ wpc' = [wpc EXCEPT ![w] = "cupdate"]
        /\ wad' = [wad EXCEPT ![w] = ads[wid[w]]] /\ UNCHANGED <<ads, wid>>
    BY <1>3 DEF CompleteGet, repoVars, goto
  <2>2. wid[w] \in Ads
    BY <1>0, <2>1 DEF IdSteps, WorkerSteps
  <2>3. Coherent(ads[wid[w]], ads[wid[w]])
    BY <1>0, <2>2, CoherentRead
  <2>4. WorkerInv(w)'
    BY <1>0, <1>a, <2>1, <2>3 DEF WorkerInv
  <2>5. QED
    BY <1>0, <1>c, <2>1, <2>4, QuietWorkerStep DEF HoldingSteps
<1>4. CASE CompleteUpdate(w)
  <2> DEFINE done == SetAnalysisResults(wad[w])
  <2>1. wpc[w] = "cupdate" /\ wpc[w] \in HoldingSteps /\ wid[w] \in Ads
    BY <1>0, <1>4 DEF CompleteUpdate, HoldingSteps, IdSteps, WorkerSteps
  <2>2. done \in AdRecord /\ NextVersion(done) \in AdRecord
    BY <1>0, AnalysedType, NextVersionType
  <2>3. done.version = wad[w].version /\ done.status = wad[w].status
        /\ done.startedAt = wad[w].startedAt
    BY <1>0 DEF SetAnalysisResults, AdRecord
  <2> HIDE DEF done
  <2>4. /\ ads[wid[w]].version = done.version
        /\ ads[wid[w]].status = "completed"
        /\ Coherent(ads[wid[w]], wad[w])
    BY <1>a, <2>1, <2>3 DEF WorkerInv, CopySteps, IdSteps, WorkerSteps
  <2>5. done.status = "completed" /\ done.startedAt = Never
    BY <1>0, <2>1, <2>3, <2>4, CheckedCopy DEF PipelineInv, StoreInv
  <2>6. /\ ads' = [ads EXCEPT ![wid[w]] = NextVersion(done)]
        /\ wpc' = [wpc EXCEPT ![w] = "crelease"]
        /\ UNCHANGED <<wid, wad>>
    BY <1>4, <2>4 DEF CompleteUpdate, UpdateOK, Update, goto, done
  <2>7. /\ AdStep(ads[wid[w]], NextVersion(done))
        /\ NextVersion(done).status = "completed"
        /\ NextVersion(done).startedAt = Never
    BY <1>0, <2>1, <2>2, <2>4, <2>5, VersionedWrite
  <2>8. WorkerInv(w)'
    <3>1. ads'[wid[w]] = NextVersion(done) /\ wpc'[w] = "crelease"
      BY <1>0, <2>1, <2>6
    <3>2. Coherent(NextVersion(done), wad[w])
      BY <1>0, <2>1, <2>2, <2>4, <2>7, CoherentKept
    <3>3. QED
      BY <2>6, <3>1, <3>2 DEF WorkerInv
  <2>9. QED
    BY <1>0, <1>c, <2>1, <2>2, <2>6, <2>7, <2>8, HolderWrite
<1>5. CASE CompleteRelease(w)
  BY <1>5, <1>d DEF CompleteRelease
<1>6. QED
  BY <1>1, <1>2, <1>3, <1>4, <1>5 DEF Complete

\* The head of processLoop and an interrupted processAd keep the invariant.
LEMMA LoopInv ==
    ASSUME PipelineInv, TypeOK', NEW w \in Workers, LoopHead(w) \/ ProcessAdInterrupted(w)
    PROVE  PipelineInv'
<1>0. /\ wpc \in [Workers -> WorkerSteps] /\ wid \in [Workers -> Ads \union {None}]
      /\ wad \in [Workers -> AdRecord]
  BY DEF PipelineInv, TypeOK, WorkerTypeOK
<1>1. UNCHANGED <<submitVars, maintVars>> /\ UNCHANGED ads
  BY DEF LoopHead, ProcessAdInterrupted, othersUnchanged, repoVars
<1>2. CASE LoopHead(w)
  <2>1. PICK step \in {"exited", "dequeue"} : wpc' = [wpc EXCEPT ![w] = step]
    BY <1>2 DEF LoopHead, goto
  <2>2. UNCHANGED <<wid, wad>>
    BY <1>2 DEF LoopHead
  <2>3. WorkerInv(w)'
    BY <1>0, <2>1 DEF WorkerInv, CopySteps, IdSteps
  <2>4. QED
    BY <1>0, <1>1, <2>1, <2>2, <2>3, QuietWorkerStep DEF HoldingSteps
<1>3. CASE ProcessAdInterrupted(w)
  <2>1. "loop" \in WorkerSteps \ IdSteps
    BY DEF WorkerSteps, IdSteps
  <2>2. QED
    BY <1>1, <1>3, <2>1, DropInv DEF ProcessAdInterrupted
<1>4. QED
  BY <1>2, <1>3

-----------------------------------------------------------------------------
(* The steps of a maintenance loop.                                        *)

\* Everyone but the loop itself keeps its part of the invariant when the step
\* leaves the claimed ads alone.
LEMMA MaintenanceStepFrame ==
    ASSUME PipelineInv, TypeOK', StoreStep, StoreInv', NEW i \in Instances,
           UNCHANGED <<submitVars, workerVars>>,
           \A j \in Instances \ {i} :
             /\ mpc'[j] = mpc[j] /\ mtask'[j] = mtask[j] /\ mitems'[j] = mitems[j]
             /\ mid'[j] = mid[j] /\ mcopy'[j] = mcopy[j],
           \A a \in Ads : ads[a].status \in {"processing", "completed"} => Unmoved(a),
           MaintenanceInv(i)'
    PROVE  PipelineInv'
<1>1. \A j \in Instances : MaintenanceInv(j)'
  <2>1. ASSUME NEW j \in Instances \ {i}
        PROVE  MaintenanceInv(j)'
    BY MaintenanceFrame
  <2>2. QED
    BY <2>1
<1>2. (\A w \in Workers : WorkerInv(w)') /\ ExclusiveClaim'
  BY AllWorkersFrame DEF workerVars
<1>3. ASSUME NEW s \in Submitters
      PROVE  SubmitterInv(s)'
  BY SubmitterFrame DEF submitVars
<1>4. QED
  BY <1>1, <1>2, <1>3 DEF PipelineInv

\* The loop writes only ads it has seen "queued", at that version, and finds
\* nothing to requeue.
LEMMA MaintenanceStepInv ==
    ASSUME PipelineInv, TypeOK', NEW i \in Instances, Maintenance(i)
    PROVE  PipelineInv'
<1>0. /\ ads \in [Ads -> AdRecord]
      /\ mpc \in [Instances -> MaintenanceSteps] /\ mtask \in [Instances -> Tasks \union {None}]
      /\ mitems \in [Instances -> SUBSET Item] /\ mid \in [Instances -> Ads \union {None}]
      /\ mcopy \in [Instances -> AdRecord] /\ mnew \in [Instances -> Nat]
      /\ mpc[i] \in {"get", "update", "push"} => mid[i] \in Ads
  BY DEF PipelineInv, TypeOK, RepositoryTypeOK, MaintenanceTypeOK
<1>a. MaintenanceInv(i)
  BY DEF PipelineInv
<1>b. UNCHANGED <<submitVars, workerVars>>
  BY DEF outsideMaintenance, Maintenance, MaintenanceExit, MaintenanceScan, MaintenanceDone,
    PriorityItem, PriorityGet, PriorityUpdate, PriorityPush, RequeueItem
<1> DEFINE OthersIdle ==
      \A j \in Instances \ {i} :
        /\ mpc'[j] = mpc[j] /\ mtask'[j] = mtask[j] /\ mitems'[j] = mitems[j]
        /\ mid'[j] = mid[j] /\ mcopy'[j] = mcopy[j]
<1>c. ASSUME OthersIdle, UNCHANGED ads, MaintenanceInv(i)'
      PROVE  PipelineInv'
  BY <1>b, <1>c, NoWrite, MaintenanceStepFrame
<1>d. ASSUME StoreStep
      PROVE  \A x \in mitems[i] : Coherent(ads'[x.id], x.ad)
  <2>1. SUFFICES ASSUME NEW x \in mitems[i]
                 PROVE  Coherent(ads'[x.id], x.ad)
    OBVIOUS
  <2>2. x.id \in Ads /\ x.ad \in AdRecord
    BY <1>0 DEF Item
  <2>3. ads[x.id] \in AdRecord /\ ads'[x.id] \in AdRecord
    BY <1>0, <2>2 DEF TypeOK, RepositoryTypeOK
  <2>4. QED
    BY <1>a, <1>d, <2>2, <2>3, CoherentKept DEF MaintenanceInv, StoreStep
<1>e. ASSUME StoreStep, nextItem(i), UNCHANGED <<mtask, mitems>>
      PROVE  OthersIdle /\ MaintenanceInv(i)'
  <2>1. mpc'[i] = "next" /\ OthersIdle
    BY <1>0, <1>e DEF nextItem, mgoto
  <2>2. QED
    BY <1>a, <1>d, <1>e, <2>1 DEF MaintenanceInv
<1> USE DEF mgoto
<1>1. CASE MaintenanceExit(i)
  <2>1. mpc' = [mpc EXCEPT ![i] = "exited"] /\ UNCHANGED <<ads, mtask, mitems, mid, mcopy>>
    BY <1>1 DEF MaintenanceExit
  <2>2. MaintenanceInv(i)'
    BY <1>0, <1>a, <2>1 DEF MaintenanceInv
  <2>3. QED
    BY <1>0, <1>c, <2>1, <2>2
<1>2. CASE MaintenanceScan(i)
  <2>0. UNCHANGED <<ads, mid, mcopy>> /\ mpc[i] = "select"
    BY <1>2 DEF MaintenanceScan
  <2>1. CASE UNCHANGED <<mpc, mtask, mitems>>
    <3>1. MaintenanceInv(i)'
      BY <1>a, <2>0, <2>1 DEF MaintenanceInv
    <3>2. QED
      BY <1>c, <2>0, <2>1, <3>1
  <2>2. CASE ~UNCHANGED <<mpc, mtask, mitems>>
    <3>1. PICK t \in due[i] :
            /\ \E S \in SUBSET Ads :
                 /\ t # "requeue" => \A a \in S : ads[a].status = "queued"
                 /\ mitems' = [mitems EXCEPT ![i] = {[id |-> a, ad |-> ads[a], at |-> now] : a \in S}]
            /\ mtask' = [mtask EXCEPT ![i] = t]
            /\ mpc' = [mpc EXCEPT ![i] = "next"]
      BY <1>2, <2>2 DEF MaintenanceScan, FindByStatus, WithStatus
    <3>2. PICK S \in SUBSET Ads :
            /\ t # "requeue" => \A a \in S : ads[a].status = "queued"
            /\ mitems' = [mitems EXCEPT ![i] = {[id |-> a, ad |-> ads[a], at |-> now] : a \in S}]
      BY <3>1
    <3>3. /\ mpc'[i] = "next" /\ mtask'[i] = t
          /\ mitems'[i] = {[id |-> a, ad |-> ads[a], at |-> now] : a \in S}
      BY <1>0, <3>1, <3>2
    <3>4. \A a \in S : Coherent(ads[a], ads[a]) /\ ads[a].startedAt = Never
      BY <1>0, CoherentRead DEF PipelineInv, StoreInv
    <3>5. ASSUME NEW x \in mitems'[i]
          PROVE  /\ Coherent(ads'[x.id], x.ad)
                 /\ x.ad.startedAt = Never
                 /\ mtask'[i] \in {"aging", "boost"} => x.ad.status = "queued"
      <4>1. PICK a \in S : x = [id |-> a, ad |-> ads[a], at |-> now]
        BY <3>3, <3>5
      <4>2. x.id = a /\ x.ad = ads[a]
        BY <4>1
      <4>3. QED
        BY <2>0, <3>2, <3>3, <3>4, <4>2
    <3>6. MaintenanceInv(i)'
      BY <3>3, <3>5 DEF MaintenanceInv
    <3>7. OthersIdle
      BY <1>0, <2>0, <3>1, <3>2
    <3>8. QED
      BY <1>c, <2>0, <3>6, <3>7
  <2>3. QED
    BY <2>1, <2>2
<1>3. CASE MaintenanceDone(i)
  <2>1. /\ mpc' = [mpc EXCEPT ![i] = "select"] /\ mtask' = [mtask EXCEPT ![i] = None]
        /\ mitems[i] = {} /\ UNCHANGED <<ads, mitems, mid, mcopy>>
    BY <1>3 DEF MaintenanceDone
  <2>2. MaintenanceInv(i)'
    BY <1>0, <2>1 DEF MaintenanceInv
  <2>3. QED
    BY <1>0, <1>c, <2>1, <2>2
<1>4. CASE PriorityItem(i)
  <2>1. PICK x \in mitems[i] :
          /\ mitems' = [mitems EXCEPT ![i] = mitems[i] \ {x}]
          /\ \/ UNCHANGED <<mpc, mid, mcopy>>
             \/ /\ mid' = [mid EXCEPT ![i] = x.id]
                /\ mcopy' = [mcopy EXCEPT ![i] = x.ad]
                /\ mpc' = [mpc EXCEPT ![i] = "get"]
    BY <1>4 DEF PriorityItem, NewestItems
  <2>2. mpc[i] = "next" /\ mtask[i] \in {"aging", "boost"} /\ UNCHANGED <<ads, mtask>>
    BY <1>4 DEF PriorityItem
  <2>3. Coherent(ads[x.id], x.ad) /\ x.ad.status = "queued"
    BY <1>a, <2>2 DEF MaintenanceInv
  <2>4. mitems'[i] \subseteq mitems[i] /\ OthersIdle
    BY <1>0, <2>1, <2>2
  <2>5. MaintenanceInv(i)'
    <3>1. CASE UNCHANGED <<mpc, mid, mcopy>>
      BY <1>a, <2>2, <2>4, <3>1 DEF MaintenanceInv
    <3>2. CASE /\ mid' = [mid EXCEPT ![i] = x.id] /\ mcopy' = [mcopy EXCEPT ![i] = x.ad]
               /\ mpc' = [mpc EXCEPT ![i] = "get"]
      <4>1. mid'[i] = x.id /\ mcopy'[i] = x.ad /\ mpc'[i] = "get"
        BY <1>0, <3>2
      <4>2. QED
        BY <1>a, <2>2, <2>3, <2>4, <4>1 DEF MaintenanceInv
    <3>3. QED
      BY <2>1, <3>1, <3>2
  <2>6. QED
    BY <1>c, <2>2, <2>4, <2>5
<1>5. CASE PriorityGet(i)
  <2>0. mpc[i] = "get" /\ mid[i] \in Ads /\ UNCHANGED <<ads, mtask, mitems>>
    BY <1>0, <1>5 DEF PriorityGet
  <2>1. CASE nextItem(i)
    <3>1. StoreStep
      BY <2>0, NoWrite
    <3>2. QED
      BY <1>c, <1>e, <2>0, <2>1, <3>1
  <2>2. CASE ~nextItem(i)
    <3> DEFINE ad == [ads[mid[i]] EXCEPT !.effective = mnew[i]]
    <3>1. /\ ads[mid[i]].version = mcopy[i].version
          /\ mcopy' = [mcopy EXCEPT ![i] = ad]
          /\ mpc' = [mpc EXCEPT ![i] = "update"]
          /\ UNCHANGED mid
      BY <1>5, <2>2 DEF PriorityGet
    <3>2. ad \in AdRecord /\ SameContent(ad, ads[mid[i]])
      BY <1>0, <2>0, EffectiveKeepsContent, EffectiveChangeType
    <3> HIDE DEF ad
    <3>3. ad.version = ads[mid[i]].version /\ ad.status = ads[mid[i]].status
      BY <1>0, <2>0, <3>2, SameContentFacts
    <3>4. ads[mid[i]].status = "queued"
      BY <1>0, <1>a, <2>0, <3>1, CheckedCopy DEF MaintenanceInv
    <3>5. Coherent(ads[mid[i]], ad)
      BY <1>0, <2>0, <3>2, <3>3 DEF Coherent, AdRecord
    <3>6. mcopy'[i] = ad /\ mpc'[i] = "update" /\ OthersIdle
      BY <1>0, <2>0, <3>1
    <3>7. MaintenanceInv(i)'
      BY <1>a, <2>0, <3>1, <3>3, <3>4, <3>5, <3>6 DEF MaintenanceInv
    <3>8. QED
      BY <1>c, <2>0, <3>6, <3>7
  <2>3. QED
    BY <2>1, <2>2
<1>6. CASE PriorityUpdate(i)
  <2>0. mpc[i] = "update" /\ mid[i] \in Ads /\ UNCHANGED <<mtask, mitems>>
    BY <1>0, <1>6 DEF PriorityUpdate
  <2>1. CASE nextItem(i) /\ UNCHANGED ads
    <3>1. StoreStep
      BY <2>1, NoWrite
    <3>2. QED
      BY <1>c, <1>e, <2>0, <2>1, <3>1
  <2>2. CASE ~(nextItem(i) /\ UNCHANGED ads)
    <3> DEFINE ad == NextVersion(mcopy[i])
    <3>1. /\ ads[mid[i]].version = mcopy[i].version
          /\ ads' = [ads EXCEPT ![mid[i]] = ad]
          /\ mcopy' = [mcopy EXCEPT ![i] = ad]
          /\ mpc' = [mpc EXCEPT ![i] = "push"]
          /\ UNCHANGED mid
      BY <1>6, <2>2 DEF PriorityUpdate, UpdateOK, Update
    <3>2. /\ ads[mid[i]].status = mcopy[i].status
          /\ ads[mid[i]].startedAt = mcopy[i].startedAt
          /\ mcopy[i].status = "queued"
      BY <1>0, <1>a, <2>0, <3>1, CheckedCopy DEF MaintenanceInv
    <3>3. ad \in AdRecord
      BY <1>0, NextVersionType
    <3>4. AdStep(ads[mid[i]], ad) /\ ad.status = "queued" /\ ad.startedAt = mcopy[i].startedAt
      BY <1>0, <2>0, <3>1, <3>2, VersionedWrite
    <3> HIDE DEF ad
    <3>5. ad.startedAt = Never
      BY <2>0, <3>2, <3>4 DEF PipelineInv, StoreInv
    <3>6. StoreStep /\ StoreInv' /\ \A a \in Ads : a # mid[i] => Unmoved(a)
      BY <2>0, <3>1, <3>3, <3>4, <3>5, OneWrite
    <3>7. ads'[mid[i]] = ad /\ mcopy'[i] = ad /\ mpc'[i] = "push" /\ OthersIdle
      BY <1>0, <2>0, <3>1
    <3>8. Coherent(ad, ad)
      BY <3>3, CoherentRead
    <3>9. MaintenanceInv(i)'
      BY <1>a, <1>d, <2>0, <3>1, <3>6, <3>7, <3>8 DEF MaintenanceInv
    <3>10. QED
      BY <1>b, <3>2, <3>6, <3>7, <3>9, MaintenanceStepFrame
  <2>3. QED
    BY <2>1, <2>2
<1>7. CASE PriorityPush(i)
  <2>1. mid[i] \in Ads /\ mcopy[i].effective \in Nat
    BY <1>0, <1>7 DEF PriorityPush, AdRecord
  <2>2. StoreStep /\ StoreInv' /\ \A a \in Ads : Unmoved(a)
    BY <1>7, <2>1, PushKeepsContent DEF PriorityPush
  <2>3. OthersIdle /\ MaintenanceInv(i)'
    BY <1>7, <1>e, <2>2 DEF PriorityPush
  <2>4. QED
    BY <1>b, <2>2, <2>3, MaintenanceStepFrame
<1>8. CASE RequeueItem(i)
  <2>1. \A x \in mitems[i] : ~Expired(x)
    BY <1>a DEF MaintenanceInv, Expired
  <2>2. UNCHANGED ads /\ \E x \in mitems[i] : mitems' = [mitems EXCEPT ![i] = mitems[i] \ {x}]
    BY <1>8, <2>1 DEF RequeueItem, NewestItems
  <2>3. UNCHANGED <<mpc, mtask, mid, mcopy>>
    BY <1>8 DEF RequeueItem
  <2>4. mitems'[i] \subseteq mitems[i] /\ OthersIdle
    BY <1>0, <2>2, <2>3
  <2>5. MaintenanceInv(i)'
    BY <1>a, <2>2, <2>3, <2>4 DEF MaintenanceInv
  <2>6. QED
    BY <1>c, <2>2, <2>4, <2>5
<1>9. QED
  BY <1>1, <1>2, <1>3, <1>4, <1>5, <1>6, <1>7, <1>8 DEF Maintenance

-----------------------------------------------------------------------------

\* The service starts with an empty store and idle goroutines.
LEMMA InitInv == Init => PipelineInv
<1> SUFFICES ASSUME Init
             PROVE  PipelineInv
  OBVIOUS
<1>1. TypeOK
  BY InitTypeOK
<1>2. StoreInv
  <2>1. NoAd.version = 0 /\ NoAd.startedAt = Never /\ NoAd.status = "absent" /\ ~NoAd.analysed
    BY DEF NoAd, NewAd
  <2>2. QED
    BY <2>1 DEF Init, StoreInv
<1>3. ASSUME NEW s \in Submitters
      PROVE  SubmitterInv(s)
  BY DEF Init, SubmitterInv
<1>4. ASSUME NEW w \in Workers
      PROVE  WorkerInv(w)
  BY DEF Init, WorkerInv, CopySteps, IdSteps
<1>5. ASSUME NEW i \in Instances
      PROVE  MaintenanceInv(i)
  BY DEF Init, MaintenanceInv
<1>6. ExclusiveClaim
  BY DEF Init, ExclusiveClaim, Holds, HoldingSteps
<1>7. QED
  BY <1>1, <1>2, <1>3, <1>4, <1>5, <1>6 DEF PipelineInv

\* Every step of the service keeps the inductive invariant.
LEMMA NextInv == PipelineInv /\ [Next]_vars => PipelineInv'
<1> SUFFICES ASSUME PipelineInv, [Next]_vars
             PROVE  PipelineInv'
  OBVIOUS
<1>1. TypeOK'
  BY NextTypeOK DEF PipelineInv
<1>2. ASSUME UNCHANGED <<ads, submitVars, workerVars, maintVars>>
      PROVE  PipelineInv'
  <2>1. StoreInv' /\ (\A s \in Submitters : SubmitterInv(s)') /\ (\A w \in Workers : WorkerInv(w)')
    BY <1>2 DEF PipelineInv, StoreInv, SubmitterInv, WorkerInv, submitVars, workerVars
  <2>2. (\A i \in Instances : MaintenanceInv(i)') /\ ExclusiveClaim'
    BY <1>2 DEF PipelineInv, MaintenanceInv, ExclusiveClaim, Holds, workerVars, maintVars
  <2>3. QED
    BY <1>1, <2>1, <2>2 DEF PipelineInv
<1>3. ASSUME NEW w \in Workers, StopWorker(w)
      PROVE  PipelineInv'
  BY <1>2, <1>3 DEF StopWorker, repoVars
<1>4. ASSUME NEW i \in Instances, BeginShutdown(i) \/ Cancel(i) \/ Close(i)
      PROVE  PipelineInv'
  BY <1>2, <1>4 DEF BeginShutdown, Cancel, Close, repoVars
<1>5. CASE Tick \/ OtherProcessPush \/ OtherProcessPop
  BY <1>2, <1>5 DEF Tick, OtherProcessPush, OtherProcessPop, repoVars
<1>6. CASE UNCHANGED vars
  BY <1>2, <1>6 DEF vars, submitVars, workerVars, maintVars
<1>7. QED
  BY <1>1, <1>3, <1>4, <1>5, <1>6, SubmitAdInv, EnqueueInv, DequeueInv, CompleteInv, LoopInv,
    MaintenanceStepInv DEF Next, processLoop

\* The inductive invariant holds of every behaviour: what each goroutine knows
\* of its ad, at each of its steps, is true.
THEOREM InvariantCorrect == Spec => []PipelineInv
BY InitInv, NextInv, PTL DEF Spec

\* For any number of workers, instances, ads and requests, whatever the locks'
\* expiry and either cache, two workers never process the same ad.
THEOREM ClaimsAreExclusive == Spec => []ExclusiveClaim
<1>1. PipelineInv => ExclusiveClaim
  BY DEF PipelineInv
<1>2. QED
  BY <1>1, InvariantCorrect, PTL

\* The version checks of Dequeue and Complete on a claimed ad always succeed.
THEOREM HeldAdsAreCurrent == Spec => []HeldIsCurrent
<1>1. PipelineInv => HeldIsCurrent
  BY DEF PipelineInv, WorkerInv, HeldIsCurrent
<1>2. QED
  BY <1>1, InvariantCorrect, PTL

\* A private copy with the stored version is the stored ad, whoever holds it.
THEOREM CopiesAreCoherent == Spec => []CopiesCoherent
<1>1. PipelineInv => CopiesCoherent
  BY DEF PipelineInv, SubmitterInv, WorkerInv, MaintenanceInv, CopiesCoherent
<1>2. QED
  BY <1>1, InvariantCorrect, PTL

=============================================================================
