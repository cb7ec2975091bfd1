----------------------------- MODULE PoolProofs -----------------------------
(***************************************************************************)
(* The worker pool, proved for any number of workers and goroutines, any   *)
(* limits the configuration accepts and any sequence of calls, ticks and   *)
(* queue sizes: the map of workers stays between the limits and has every  *)
(* worker that was not told to stop.                                       *)
(***************************************************************************)
EXTENDS WorkerPool, FiniteSetTheorems, TLAPS

\* Who holds the mutex while it waits: the mutex names a call in progress or
\* the auto-scaler between its search and the removal, and nobody else.
MutexInv ==
    /\ mu = "scaler" <=> scaler = "remove"
    /\ mu = "caller" <=> caller.op # "none"

\* What the holder relies on while others run: the auto-scaler has compared
\* the size with the minimum, Stop has closed shutdownCh and has still to
\* stop the workers of its list and no others.
HolderInv ==
    /\ scaler = "remove" => Cardinality(workers) > MinWorkers
    /\ caller.op = "stop" =>
        /\ closed
        /\ \A w \in workers : w \in caller.todo \/ state[w] = "stopped"

\* Before Start nothing runs.
StartInv == ~started => workers = {} /\ scaler = "off" /\ caller.op = "none"

PoolInv ==
    /\ PoolTypeOK
    /\ SizeWithinLimits
    /\ RunningIsListed
    /\ MutexInv
    /\ HolderInv
    /\ StartInv

-----------------------------------------------------------------------------
(* The size of the map.                                                    *)

\* Every set of workers is finite and has a size.
LEMMA WorkersFinite ==
    ASSUME NEW W \in SUBSET Workers
    PROVE  IsFiniteSet(W) /\ Cardinality(W) \in Nat
BY FS_Subset, FS_CardinalityType, PoolAssumption

\* A new worker makes the map larger by at most one.
LEMMA AddedSize ==
    ASSUME NEW W \in SUBSET Workers, NEW w \in Workers
    PROVE  /\ Cardinality(W \union {w}) =< Cardinality(W) + 1
           /\ Cardinality(W \union {w}) >= Cardinality(W)
BY WorkersFinite, FS_AddElement

\* A removed worker makes it smaller by one.
LEMMA RemovedSize ==
    ASSUME NEW W \in SUBSET Workers, NEW w \in W
    PROVE  Cardinality(W \ {w}) = Cardinality(W) - 1
BY WorkersFinite, FS_RemoveElement

-----------------------------------------------------------------------------

\* The calls in progress, as PoolTypeOK has them.
CallRecord ==
    [op : {"none", "stop", "remove"}, wait : BOOLEAN, todo : SUBSET Workers,
     at : Workers \union {NoWorker}]

\* No call, and a RemoveWorker that waits, are such records.
LEMMA CallRecords ==
    /\ NoCall \in CallRecord
    /\ \A w \in Workers : [op |-> "remove", wait |-> TRUE, todo |-> {}, at |-> w] \in CallRecord
    /\ \A c \in CallRecord : [c EXCEPT !.at = NoWorker] \in CallRecord
BY DEF NoCall, CallRecord

\* The pool starts empty.
LEMMA PoolInitInv == Init => PoolInv
<1> SUFFICES ASSUME Init
             PROVE  PoolInv
  OBVIOUS
<1>1. PoolTypeOK
  <2>1. ticks \in 0 .. MaxTicks
    BY PoolAssumption DEF Init
  <2>2. {started, closed, cancelled, tick} \subseteq BOOLEAN
    BY Zenon DEF Init
  <2>3. QED
    BY <2>1, <2>2, CallRecords DEF Init, PoolTypeOK, LoopSteps, CallRecord
<1>2. SizeWithinLimits
  BY FS_EmptySet, PoolAssumption DEF Init, SizeWithinLimits
<1>3. QED
  BY <1>1, <1>2 DEF Init, PoolInv, RunningIsListed, Running, MutexInv, HolderInv, StartInv, NoCall

\* The goroutines of the workers change neither the map nor the mutex, so no
\* step of theirs disturbs the pool.
LEMMA LoopStepInv ==
    ASSUME PoolInv, NEW w \in Workers, NEW k \in Loops, processLoop(w, k)
    PROVE  PoolInv'
<1>1. loopOnly
  BY DEF processLoop, LoopHead, LoopDequeue, LoopCount, LoopProcess, LoopComplete
<1>2. \E next \in LoopSteps : step(w, k, next)
  BY DEF processLoop, LoopHead, LoopDequeue, LoopCount, LoopProcess, LoopComplete, LoopSteps
<1>3. loop' \in [Workers -> [Loops -> LoopSteps]]
  BY <1>2 DEF step, PoolInv, PoolTypeOK
<1>4. PoolTypeOK'
  BY <1>1, <1>3 DEF loopOnly, scalerVars, PoolInv, PoolTypeOK
<1>5. QED
  BY <1>1, <1>4 DEF loopOnly, scalerVars, PoolInv, SizeWithinLimits, RunningIsListed, Running, MutexInv,
    HolderInv, StartInv

\* Start and AddWorker create workers and list them in the same step.
LEMMA StartStepInv ==
    ASSUME PoolInv, Start \/ AddWorker
    PROVE  PoolInv'
<1> USE DEF PoolInv
<1>1. CASE Start
  <2>1. PICK W \in SUBSET Unborn : Cardinality(W) = MinWorkers /\ StartWorkers(W) /\ workers' = W
    BY <1>1 DEF Start
  <2>2. W \subseteq Workers /\ workers = {} /\ scaler = "off"
    BY <1>1 DEF Start, Unborn, StartInv
  <2>3. PoolTypeOK'
    BY <1>1, <2>1, <2>2 DEF Start, StartWorkers, PoolTypeOK, LoopSteps
  <2>4. SizeWithinLimits'
    BY <2>1, PoolAssumption DEF SizeWithinLimits, ValidLimits
  <2>5. RunningIsListed'
    BY <2>1, <2>2 DEF StartWorkers, RunningIsListed, Running
  <2>6. MutexInv' /\ HolderInv' /\ StartInv'
    <3>1. started' /\ scaler' # "remove" /\ mu # "scaler" /\ UNCHANGED <<mu, caller, closed>>
      BY <1>1, <2>2 DEF Start, MutexInv
    <3>2. caller.op = "none"
      BY <1>1 DEF Start, StartInv
    <3>3. QED
      BY <3>1, <3>2 DEF MutexInv, HolderInv, StartInv
  <2>7. QED
    BY <2>3, <2>4, <2>5, <2>6
<1>2. CASE AddWorker
  <2>1. PICK w \in Unborn : StartWorkers({w}) /\ workers' = workers \union {w}
    BY <1>2 DEF AddWorker
  <2>2. w \in Workers
    BY DEF Unborn
  <2>3. PoolTypeOK'
    BY <1>2, <2>1, <2>2 DEF AddWorker, scalerVars, StartWorkers, PoolTypeOK, LoopSteps
  <2>4. SizeWithinLimits'
    BY <1>2, <2>1, <2>2, AddedSize, WorkersFinite, PoolAssumption, SMTT(30)
    DEF AddWorker, SizeWithinLimits, PoolTypeOK
  <2>5. RunningIsListed'
    BY <2>1, <2>2 DEF StartWorkers, RunningIsListed, Running
  <2>6. MutexInv' /\ HolderInv' /\ StartInv'
    BY <1>2 DEF AddWorker, scalerVars, MutexInv, HolderInv, StartInv
  <2>7. QED
    BY <2>3, <2>4, <2>5, <2>6
<1>3. QED
  BY <1>1, <1>2

\* RemoveWorker takes a worker off the map only after it was told to stop, and
\* never below the minimum.
LEMMA RemoveStepInv ==
    ASSUME PoolInv, NEW w \in Workers, NEW wait \in BOOLEAN, RemoveWorker(w, wait)
    PROVE  PoolInv'
<1> USE DEF PoolInv
<1>1. /\ w \in workers /\ mu = "free" /\ MayRemove
      /\ state' = [state EXCEPT ![w] = "stopped"]
      /\ UNCHANGED <<loop, started, closed, cancelled, scalerVars>>
  BY DEF RemoveWorker, StopWorker
<1>2. scaler # "remove" /\ caller.op = "none"
  BY <1>1 DEF MutexInv
<1>3. CASE UNCHANGED workers
  <2>1. \/ UNCHANGED <<mu, caller>>
        \/ mu' = "caller" /\ caller' = [op |-> "remove", wait |-> TRUE, todo |-> {}, at |-> w]
    BY <1>3 DEF RemoveWorker
  <2>2. PoolTypeOK'
    <3>1. caller' \in CallRecord /\ mu' \in {"free", "caller", "scaler"}
      BY <2>1, CallRecords DEF PoolTypeOK, CallRecord
    <3>2. QED
      BY <1>1, <1>3, <3>1 DEF PoolTypeOK, CallRecord, scalerVars
  <2>3. MutexInv' /\ HolderInv'
    BY <1>1, <1>2, <1>3, <2>1 DEF MutexInv, HolderInv, scalerVars
  <2>4. QED
    BY <1>1, <1>3, <2>2, <2>3 DEF SizeWithinLimits, RunningIsListed, Running, StartInv, scalerVars, PoolTypeOK
<1>4. CASE ~UNCHANGED workers
  <2>1. workers' = workers \ {w} /\ UNCHANGED <<mu, caller>>
    BY <1>4 DEF RemoveWorker
  <2>2. PoolTypeOK'
    BY <1>1, <1>2, <2>1 DEF PoolTypeOK, scalerVars
  <2>3. SizeWithinLimits'
    BY <1>1, <2>1, RemovedSize, WorkersFinite, PoolAssumption
    DEF SizeWithinLimits, MayRemove, PoolTypeOK
  <2>4. RunningIsListed'
    BY <1>1, <2>1 DEF RunningIsListed, Running, PoolTypeOK
  <2>5. MutexInv' /\ HolderInv' /\ StartInv'
    BY <1>1, <1>2, <2>1 DEF MutexInv, HolderInv, StartInv, scalerVars
  <2>6. QED
    BY <2>2, <2>3, <2>4, <2>5
<1>5. QED
  BY <1>3, <1>4

\* Stop keeps the mutex from its first step to its last, so the map it empties
\* is the list it has gone through.
LEMMA StopStepInv ==
    ASSUME PoolInv, (\E wait \in BOOLEAN : StopBegin(wait)) \/ poolCall
    PROVE  PoolInv'
<1> USE DEF PoolInv
<1>1. CASE \E wait \in BOOLEAN : StopBegin(wait)
  <2>1. PICK wait \in BOOLEAN : StopBegin(wait)
    BY <1>1
  <2>2. scaler # "remove"
    BY <2>1 DEF StopBegin, MutexInv
  <2>3. PoolTypeOK'
    BY <2>1, <2>2 DEF StopBegin, PoolTypeOK, scalerVars
  <2>4. QED
    BY <2>1, <2>2, <2>3 DEF StopBegin, scalerVars, SizeWithinLimits, RunningIsListed, Running, MutexInv,
        HolderInv, StartInv
<1>2. ASSUME NEW w \in Workers, StopNext(w)
      PROVE  PoolInv'
  <2>1. /\ state' = [state EXCEPT ![w] = "stopped"]
        /\ caller.op = "stop" /\ w \in caller.todo
        /\ caller'.op = "stop" /\ caller'.todo = caller.todo \ {w}
        /\ UNCHANGED <<workers, loop, started, closed, mu, cancelled, scalerVars>>
    BY <1>2 DEF StopNext, StopWorker, PoolTypeOK
  <2>2. PoolTypeOK'
    BY <1>2 DEF StopNext, StopWorker, PoolTypeOK, scalerVars
  <2>3. MutexInv' /\ HolderInv'
    BY <2>1 DEF MutexInv, HolderInv, PoolTypeOK, scalerVars
  <2>4. QED
    BY <2>1, <2>2, <2>3 DEF SizeWithinLimits, RunningIsListed, Running, StartInv, PoolTypeOK, scalerVars
<1>3. CASE WaitDone
  <2>1. UNCHANGED <<state, workers, loop, started, closed, cancelled, scalerVars>>
    BY <1>3 DEF WaitDone
  <2>2. \/ /\ caller.op = "stop" /\ caller'.op = "stop" /\ caller'.todo = caller.todo /\ mu' = mu
           /\ caller' = [caller EXCEPT !.at = NoWorker]
        \/ caller.op = "remove" /\ caller' = NoCall /\ mu' = "free"
    BY <1>3 DEF WaitDone, PoolTypeOK
  <2>3. PoolTypeOK'
    <3>1. caller' \in CallRecord /\ mu' \in {"free", "caller", "scaler"}
      BY <2>2, CallRecords DEF PoolTypeOK, CallRecord
    <3>2. QED
      BY <2>1, <3>1 DEF PoolTypeOK, CallRecord, scalerVars
  <2>4. MutexInv' /\ HolderInv'
    BY <2>1, <2>2 DEF MutexInv, HolderInv, NoCall, scalerVars
  <2>5. started
    BY <2>2 DEF StartInv
  <2>6. QED
    BY <2>1, <2>3, <2>4, <2>5 DEF SizeWithinLimits, RunningIsListed, Running, StartInv, scalerVars
<1>4. CASE StopEnd
  <2>1. /\ caller.op = "stop" /\ caller.todo = {} /\ caller' = NoCall /\ mu' = "free"
        /\ workers' = workers \/ workers' = {}
        /\ UNCHANGED <<state, loop, started, closed, cancelled, scalerVars>>
    BY <1>4 DEF StopEnd
  <2>2. closed /\ scaler # "remove" /\ \A w \in workers : state[w] = "stopped"
    BY <2>1 DEF HolderInv, MutexInv
  <2>3. PoolTypeOK'
    BY <2>1, <2>2 DEF PoolTypeOK, NoCall, scalerVars
  <2>4. SizeWithinLimits'
    BY <2>1, <2>2, FS_EmptySet, PoolAssumption DEF SizeWithinLimits
  <2>5. RunningIsListed'
    BY <2>1, <2>2 DEF RunningIsListed, Running
  <2>6. MutexInv' /\ HolderInv' /\ StartInv'
    BY <2>1, <2>2 DEF MutexInv, HolderInv, StartInv, NoCall, scalerVars
  <2>7. QED
    BY <2>3, <2>4, <2>5, <2>6
<1>5. QED
  BY <1>1, <1>2, <1>3, <1>4 DEF poolCall

\* The auto-scaler compares the size with the limits and changes the map under
\* the same hold of the mutex, however old the queue size is that it has read.
LEMMA ScalerStepInv ==
    ASSUME PoolInv, autoScalerLoop
    PROVE  PoolInv'
<1> USE DEF PoolInv
<1>1. CASE ScalerExit \/ ScalerTick \/ ScaleKeep
  <2>1. /\ UNCHANGED <<state, workers, loop, started, closed, mu, caller, cancelled, victim, ticks>>
        /\ scaler \in {"select", "lock"} /\ scaler' \in {"exited", "lock", "select"}
        /\ tick' \in {tick, FALSE} /\ queueSize' \in QueueSizes \union {0}
    BY <1>1 DEF ScalerExit, ScalerTick, ScaleKeep, PoolTypeOK
  <2>2. PoolTypeOK'
    BY <2>1 DEF PoolTypeOK
  <2>3. QED
    BY <2>1, <2>2 DEF SizeWithinLimits, RunningIsListed, Running, MutexInv, HolderInv, StartInv
<1>2. CASE ScaleUp
  <2>1. PICK w \in Unborn : StartWorkers({w}) /\ workers' = workers \union {w}
    BY <1>2 DEF ScaleUp
  <2>2. w \in Workers
    BY DEF Unborn
  <2>3. PoolTypeOK'
    BY <1>2, <2>1, <2>2 DEF ScaleUp, StartWorkers, PoolTypeOK, LoopSteps
  <2>4. SizeWithinLimits'
    <3>1. /\ Cardinality(workers') =< Cardinality(workers) + 1
          /\ Cardinality(workers') >= Cardinality(workers)
          /\ Cardinality(workers) \in Nat /\ Cardinality(workers') \in Nat
      BY <2>1, <2>2, AddedSize, WorkersFinite DEF PoolTypeOK
    <3>2. QED
      BY <1>2, <3>1, PoolAssumption DEF ScaleUp, SizeWithinLimits
  <2>5. RunningIsListed'
    BY <2>1, <2>2 DEF StartWorkers, RunningIsListed, Running
  <2>6. MutexInv' /\ HolderInv' /\ StartInv'
    BY <1>2 DEF ScaleUp, MutexInv, HolderInv, StartInv
  <2>7. QED
    BY <2>3, <2>4, <2>5, <2>6
<1>3. CASE ScaleDownPick
  <2>1. victim' \in workers
    BY <1>3 DEF ScaleDownPick, Idle
  <2>2. PoolTypeOK'
    BY <1>3, <2>1 DEF ScaleDownPick, PoolTypeOK
  <2>3. QED
    BY <1>3, <2>2 DEF ScaleDownPick, SizeWithinLimits, RunningIsListed, Running, MutexInv, HolderInv, StartInv
<1>4. CASE ScaleDownRemove
  <2>1. /\ victim \in workers /\ Cardinality(workers) > MinWorkers /\ caller.op = "none"
        /\ state' = [state EXCEPT ![victim] = "stopped"] /\ workers' = workers \ {victim}
    BY <1>4 DEF ScaleDownRemove, StopWorker, PoolTypeOK, HolderInv, MutexInv
  <2>2. PoolTypeOK'
    BY <1>4, <2>1 DEF ScaleDownRemove, PoolTypeOK
  <2>3. SizeWithinLimits'
    BY <1>4, <2>1, RemovedSize, WorkersFinite, PoolAssumption
    DEF ScaleDownRemove, SizeWithinLimits, PoolTypeOK
  <2>4. RunningIsListed'
    BY <2>1 DEF RunningIsListed, Running, PoolTypeOK
  <2>5. MutexInv' /\ HolderInv' /\ StartInv'
    BY <1>4, <2>1 DEF ScaleDownRemove, MutexInv, HolderInv, StartInv
  <2>6. QED
    BY <2>2, <2>3, <2>4, <2>5
<1>5. QED
  BY <1>1, <1>2, <1>3, <1>4 DEF autoScalerLoop

\* Every step of the pool and of its environment keeps the invariant.
LEMMA PoolNextInv == PoolInv /\ [Next]_poolVars => PoolInv'
<1> SUFFICES ASSUME PoolInv, [Next]_poolVars
             PROVE  PoolInv'
  OBVIOUS
<1> USE DEF PoolInv
<1>1. CASE Tick
  <2>1. PoolTypeOK'
    BY <1>1, PoolAssumption DEF Tick, PoolTypeOK
  <2>2. QED
    BY <1>1, <2>1 DEF Tick, SizeWithinLimits, RunningIsListed, Running, MutexInv, HolderInv, StartInv
<1>2. CASE Cancel \/ UNCHANGED poolVars
  <2>1. UNCHANGED <<state, workers, loop, started, closed, mu, caller, scalerVars>> /\ cancelled' \in {cancelled, TRUE}
    BY <1>2 DEF Cancel, poolVars, scalerVars
  <2>2. PoolTypeOK'
    BY <2>1, ZenonT(30) DEF PoolTypeOK, scalerVars
  <2>3. QED
    BY <2>1, <2>2 DEF scalerVars, SizeWithinLimits, RunningIsListed, Running, MutexInv, HolderInv, StartInv
<1>3. QED
  BY <1>1, <1>2, StartStepInv, RemoveStepInv, StopStepInv, ScalerStepInv, LoopStepInv DEF Next

\* The inductive invariant holds of every behaviour of the pool.
THEOREM PoolInvariant == Spec => []PoolInv
BY PoolInitInv, PoolNextInv, PTL DEF Spec

\* Every variable of the pool keeps its type, and the worker the auto-scaler
\* removes is still in the map when it does.
THEOREM PoolTypeCorrect == Spec => []PoolTypeOK
<1>1. PoolInv => PoolTypeOK
  BY DEF PoolInv
<1>2. QED
  BY <1>1, PoolInvariant, PTL

\* For any limits the configuration accepts, calls and auto-scaler together
\* keep the map between them until the pool is stopped.
THEOREM PoolSizeCorrect == Spec => []SizeWithinLimits
<1>1. PoolInv => SizeWithinLimits
  BY DEF PoolInv
<1>2. QED
  BY <1>1, PoolInvariant, PTL

\* No worker ever runs outside the map without having been told to stop.
THEOREM RunningWorkersAreListed == Spec => []RunningIsListed
<1>1. PoolInv => RunningIsListed
  BY DEF PoolInv
<1>2. QED
  BY <1>1, PoolInvariant, PTL

=============================================================================
