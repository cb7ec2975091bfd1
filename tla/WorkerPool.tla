----------------------------- MODULE WorkerPool -----------------------------
(***************************************************************************)
(* internal/processor/worker.go: the WorkerPool, its auto-scaler and the   *)
(* life of its workers.  A worker is a set of processLoop goroutines that  *)
(* share a shutdown channel.  The pool's mutex is a variable, because Stop *)
(* and RemoveWorker may hold it while they wait for goroutines to end, and *)
(* the auto-scaler reads the queue size before it asks for it.             *)
(*                                                                         *)
(* AdPipeline models what Dequeue and Complete do; here they return any of *)
(* their results, and the size of the queue is what others make it.        *)
(***************************************************************************)
EXTENDS Integers, FiniteSets

CONSTANTS
    Workers,            \* the workers NewWorker may create
    Loops,              \* the MaxConcurrent goroutines of a worker
    NoWorker,           \* the empty worker ID
    MinWorkers,         \* WorkerPoolOptions.MinWorkers
    MaxWorkers,         \* WorkerPoolOptions.MaxWorkers
    TargetQueueSize,    \* WorkerPoolOptions.TargetQueueSize
    EnableAutoScale,    \* WorkerPoolOptions.EnableAutoScale
    Calls,              \* the methods callers use after Start
    QueueSizes,         \* the queue sizes the auto-scaler may read
    MaxTicks            \* bound: firings of the auto-scaler's ticker

\* What Config.Validate accepts of the limits of the pool.
ValidLimits == MinWorkers > 0 /\ MaxWorkers >= MinWorkers

ASSUME PoolAssumption ==
    /\ IsFiniteSet(Workers)
    /\ NoWorker \notin Workers
    /\ MinWorkers \in Nat
    /\ MaxWorkers \in Nat
    /\ ValidLimits
    /\ MinWorkers =< Cardinality(Workers)
    /\ TargetQueueSize \in Nat
    /\ EnableAutoScale \in BOOLEAN
    /\ Calls \subseteq {"AddWorker", "RemoveWorker", "Stop"}
    /\ QueueSizes \subseteq Nat
    /\ MaxTicks \in Nat

VARIABLES
    state,        \* per worker: "unborn", "running" or "stopped"
    workers,      \* WorkerPool.workers
    loop,         \* per worker and goroutine: its step in processLoop
    started,      \* whether Start has returned
    closed,       \* whether WorkerPool.shutdownCh is closed
    cancelled,    \* whether the context is cancelled
    mu,           \* the holder of WorkerPool.mu
    caller,       \* the call that holds mu while it waits: its remaining work
    scaler,       \* the auto-scaler's step
    queueSize,    \* the size it has read
    victim,       \* the worker it removes
    tick,         \* whether its ticker has fired
    ticks         \* how often it has

scalerVars == <<scaler, queueSize, victim, tick, ticks>>
poolVars == <<state, workers, loop, started, closed, cancelled, mu, caller, scaler,
              queueSize, victim, tick, ticks>>

LoopSteps == {"none", "head", "dequeue", "claimed", "working", "complete", "exited"}

NoCall == [op |-> "none", wait |-> FALSE, todo |-> {}, at |-> NoWorker]

Running == {w \in Workers : state[w] = "running"}

ToldToStop(w) == cancelled \/ state[w] = "stopped"

ActiveJobs(w) == Cardinality({k \in Loops : loop[w][k] = "working"})

HasEnded(w) == \A k \in Loops : loop[w][k] \in {"none", "exited"}

Init ==
    /\ state = [w \in Workers |-> "unborn"]
    /\ workers = {}
    /\ loop = [w \in Workers |-> [k \in Loops |-> "none"]]
    /\ started = FALSE
    /\ closed = FALSE
    /\ cancelled = FALSE
    /\ mu = "free"
    /\ caller = NoCall
    /\ scaler = "off"
    /\ queueSize = 0
    /\ victim = NoWorker
    /\ tick = FALSE
    /\ ticks = 0

-----------------------------------------------------------------------------
(* Worker.Start and Worker.Stop.                                           *)

\* NewWorker and Worker.Start: the goroutines of new workers begin.
StartWorkers(W) ==
    /\ state' = [w \in Workers |-> IF w \in W THEN "running" ELSE state[w]]
    /\ loop' = [w \in Workers |-> IF w \in W THEN [k \in Loops |-> "head"] ELSE loop[w]]

\* Worker.Stop without its wait: it closes shutdownCh, once.
StopWorker(w) == state' = [state EXCEPT ![w] = "stopped"]

Unborn == {w \in Workers : state[w] = "unborn"}

-----------------------------------------------------------------------------
(* processLoop.                                                            *)

step(w, k, next) == loop' = [loop EXCEPT ![w][k] = next]

loopOnly == UNCHANGED <<state, workers, started, closed, mu, caller, scalerVars, cancelled>>

\* Mutant: the loop looks at the context only.
LoopHeadContextOnly(w, k) ==
    /\ loop[w][k] = "head"
    /\ step(w, k, IF cancelled THEN "exited" ELSE "dequeue")
    /\ loopOnly

LoopHead(w, k) ==
    /\ loop[w][k] = "head"
    /\ step(w, k, IF ToldToStop(w) THEN "exited" ELSE "dequeue")
    /\ loopOnly

\* Dequeue returns an ad or an error; the wait after an error watches the same
\* two channels as the head of the loop, and ends there.
LoopDequeue(w, k) ==
    /\ loop[w][k] = "dequeue"
    /\ \/ step(w, k, "claimed")
       \/ step(w, k, "head")
    /\ loopOnly

\* activeJobs.Add(1), a step after Dequeue has claimed the ad.
LoopCount(w, k) ==
    /\ loop[w][k] = "claimed"
    /\ step(w, k, "working")
    /\ loopOnly

\* processAd waits for its timer or a signal; activeJobs.Add(-1) follows.
LoopProcess(w, k) ==
    /\ loop[w][k] = "working"
    /\ \/ step(w, k, "complete")
       \/ ToldToStop(w) /\ step(w, k, "head")
    /\ loopOnly

LoopComplete(w, k) ==
    /\ loop[w][k] = "complete"
    /\ step(w, k, "head")
    /\ loopOnly

processLoop(w, k) ==
    \/ LoopHead(w, k)
    \/ LoopDequeue(w, k)
    \/ LoopCount(w, k)
    \/ LoopProcess(w, k)
    \/ LoopComplete(w, k)

-----------------------------------------------------------------------------
(* The pool's methods.  Start and AddWorker take and give back the mutex   *)
(* in one step.                                                            *)

Start ==
    /\ ~started
    /\ started' = TRUE
    /\ \E W \in SUBSET Unborn :
        /\ Cardinality(W) = MinWorkers
        /\ StartWorkers(W)
        /\ workers' = W
    /\ scaler' = IF EnableAutoScale THEN "select" ELSE "off"
    /\ UNCHANGED <<closed, mu, caller, cancelled, queueSize, victim, tick, ticks>>

AddWorker ==
    /\ "AddWorker" \in Calls
    /\ started /\ mu = "free"
    /\ Cardinality(workers) < MaxWorkers
    /\ \E w \in Unborn :
        /\ StartWorkers({w})
        /\ workers' = workers \union {w}
    /\ UNCHANGED <<started, closed, mu, caller, cancelled, scalerVars>>

\* Mutant: the comparison with the minimum is off by one.
MayRemoveOffByOne == Cardinality(workers) >= MinWorkers

MayRemove == Cardinality(workers) > MinWorkers

\* RemoveWorker(w, wait): without wait the worker leaves the map at once; with
\* wait the call keeps the mutex until the worker has ended, and the map keeps
\* the worker.
RemoveWorker(w, wait) ==
    /\ "RemoveWorker" \in Calls
    /\ started /\ mu = "free"
    /\ w \in workers
    /\ MayRemove
    /\ StopWorker(w)
    /\ \/ /\ wait /\ state[w] = "running"
          /\ mu' = "caller"
          /\ caller' = [op |-> "remove", wait |-> TRUE, todo |-> {}, at |-> w]
          /\ UNCHANGED workers
       \/ /\ wait /\ state[w] = "stopped"     \* Stop returns at once
          /\ UNCHANGED <<workers, mu, caller>>
       \/ /\ ~wait
          /\ workers' = workers \ {w}
          /\ UNCHANGED <<mu, caller>>
    /\ UNCHANGED <<loop, started, closed, cancelled, scalerVars>>

\* Stop(wait): closes shutdownCh (a second call would panic) and goes through
\* the map, waiting for each worker in turn if asked to.
StopBegin(wait) ==
    /\ "Stop" \in Calls
    /\ started /\ mu = "free"
    /\ ~closed
    /\ closed' = TRUE
    /\ mu' = "caller"
    /\ caller' = [op |-> "stop", wait |-> wait, todo |-> workers, at |-> NoWorker]
    /\ UNCHANGED <<state, workers, loop, started, cancelled, scalerVars>>

StopNext(w) ==
    /\ caller.op = "stop" /\ caller.at = NoWorker
    /\ w \in caller.todo
    /\ StopWorker(w)
    /\ caller' = [caller EXCEPT !.todo = @ \ {w},
                                !.at = IF caller.wait /\ state[w] = "running" THEN w ELSE NoWorker]
    /\ UNCHANGED <<workers, loop, started, closed, mu, cancelled, scalerVars>>

\* wg.Wait returns.
WaitDone ==
    /\ caller.at # NoWorker
    /\ HasEnded(caller.at)
    /\ \/ /\ caller.op = "stop"
          /\ caller' = [caller EXCEPT !.at = NoWorker]
          /\ UNCHANGED mu
       \/ /\ caller.op = "remove"
          /\ caller' = NoCall
          /\ mu' = "free"
    /\ UNCHANGED <<state, workers, loop, started, closed, cancelled, scalerVars>>

StopEnd ==
    /\ caller.op = "stop" /\ caller.at = NoWorker /\ caller.todo = {}
    /\ workers' = IF caller.wait THEN workers ELSE {}
    /\ caller' = NoCall
    /\ mu' = "free"
    /\ UNCHANGED <<state, loop, started, closed, cancelled, scalerVars>>

poolCall ==
    \/ \E w \in Workers : StopNext(w)
    \/ WaitDone
    \/ StopEnd

-----------------------------------------------------------------------------
(* autoScalerLoop.                                                         *)

\* Mutant: the loop does not watch the context.
ScalerExitOnStopOnly ==
    /\ scaler = "select"
    /\ closed
    /\ scaler' = "exited"
    /\ UNCHANGED <<state, workers, loop, started, closed, mu, caller, cancelled,
                   queueSize, victim, tick, ticks>>

ScalerExit ==
    /\ scaler = "select"
    /\ cancelled \/ closed
    /\ scaler' = "exited"
    /\ UNCHANGED <<state, workers, loop, started, closed, mu, caller, cancelled,
                   queueSize, victim, tick, ticks>>

\* The queue size is read before the mutex is taken.
ScalerTick ==
    /\ scaler = "select"
    /\ tick
    /\ tick' = FALSE
    /\ queueSize' \in QueueSizes
    /\ scaler' = "lock"
    /\ UNCHANGED <<state, workers, loop, started, closed, mu, caller, cancelled, victim, ticks>>

Backlog == queueSize > TargetQueueSize
Slack   == queueSize < TargetQueueSize \div 2

\* Mutant: the new worker is not entered in the map.
ScaleUpUnlisted ==
    /\ scaler = "lock" /\ mu = "free"
    /\ Backlog /\ Cardinality(workers) < MaxWorkers
    /\ \E w \in Unborn : StartWorkers({w})
    /\ scaler' = "select"
    /\ queueSize' = 0
    /\ UNCHANGED <<workers, started, closed, mu, caller, cancelled, victim, tick, ticks>>

ScaleUp ==
    /\ scaler = "lock" /\ mu = "free"
    /\ Backlog /\ Cardinality(workers) < MaxWorkers
    /\ \E w \in Unborn :
        /\ StartWorkers({w})
        /\ workers' = workers \union {w}
    /\ scaler' = "select"
    /\ queueSize' = 0
    /\ UNCHANGED <<started, closed, mu, caller, cancelled, victim, tick, ticks>>

Idle == {w \in workers : ActiveJobs(w) = 0}

\* Mutant: the result of the search is not checked.
ScaleDownPickUnchecked ==
    /\ scaler = "lock" /\ mu = "free"
    /\ Slack /\ Cardinality(workers) > MinWorkers
    /\ victim' \in IF Idle = {} THEN {NoWorker} ELSE Idle
    /\ mu' = "scaler" /\ scaler' = "remove"
    /\ queueSize' = 0
    /\ UNCHANGED <<state, workers, loop, started, closed, caller, cancelled, tick, ticks>>

\* A worker without an active job is looked for, under the mutex; its loops go
\* on while the search goes on.
ScaleDownPick ==
    /\ scaler = "lock" /\ mu = "free"
    /\ Slack /\ Cardinality(workers) > MinWorkers
    /\ \E w \in Idle : victim' = w
    /\ mu' = "scaler" /\ scaler' = "remove"
    /\ queueSize' = 0
    /\ UNCHANGED <<state, workers, loop, started, closed, caller, cancelled, tick, ticks>>

ScaleDownRemove ==
    /\ scaler = "remove"
    /\ StopWorker(victim)
    /\ workers' = workers \ {victim}
    /\ victim' = NoWorker
    /\ mu' = "free" /\ scaler' = "select"
    /\ UNCHANGED <<loop, started, closed, caller, cancelled, queueSize, tick, ticks>>

\* Nothing to do (or, a bound of the model, no worker left to create).
ScaleKeep ==
    /\ scaler = "lock" /\ mu = "free"
    /\ ~(Backlog /\ Cardinality(workers) < MaxWorkers /\ Unborn # {})
    /\ ~(Slack /\ Cardinality(workers) > MinWorkers /\ Idle # {})
    /\ scaler' = "select"
    /\ queueSize' = 0
    /\ UNCHANGED <<state, workers, loop, started, closed, mu, caller, cancelled,
                   victim, tick, ticks>>

autoScalerLoop ==
    \/ ScalerExit
    \/ ScalerTick
    \/ ScaleUp
    \/ ScaleDownPick
    \/ ScaleDownRemove
    \/ ScaleKeep

-----------------------------------------------------------------------------
(* The environment: the clock and the signal handler.                      *)

Tick ==
    /\ scaler # "off" /\ ~tick /\ ticks < MaxTicks
    /\ tick' = TRUE
    /\ ticks' = ticks + 1
    /\ UNCHANGED <<state, workers, loop, started, closed, mu, caller, cancelled,
                   scaler, queueSize, victim>>

Cancel ==
    /\ started /\ ~cancelled
    /\ cancelled' = TRUE
    /\ UNCHANGED <<state, workers, loop, started, closed, mu, caller, scalerVars>>

Next ==
    \/ Start
    \/ AddWorker
    \/ \E w \in Workers, wait \in BOOLEAN : RemoveWorker(w, wait)
    \/ \E wait \in BOOLEAN : StopBegin(wait)
    \/ poolCall
    \/ autoScalerLoop
    \/ \E w \in Workers, k \in Loops : processLoop(w, k)
    \/ Tick
    \/ Cancel

Spec == Init /\ [][Next]_poolVars

\* The goroutines of the workers, the auto-scaler and a call in progress keep
\* running; nobody has to call or to cancel.
FairSpec ==
    /\ Spec
    /\ \A w \in Workers, k \in Loops : WF_poolVars(processLoop(w, k))
    /\ WF_poolVars(autoScalerLoop)
    /\ WF_poolVars(poolCall)

-----------------------------------------------------------------------------

\* Every variable keeps its type, and the auto-scaler removes only a worker it
\* has found in the map.
PoolTypeOK ==
    /\ state \in [Workers -> {"unborn", "running", "stopped"}]
    /\ workers \in SUBSET Workers
    /\ loop \in [Workers -> [Loops -> LoopSteps]]
    /\ {started, closed, cancelled, tick} \subseteq BOOLEAN
    /\ mu \in {"free", "caller", "scaler"}
    /\ caller \in [op : {"none", "stop", "remove"}, wait : BOOLEAN, todo : SUBSET Workers,
                   at : Workers \union {NoWorker}]
    /\ scaler \in {"off", "select", "lock", "remove", "exited"}
    /\ queueSize \in QueueSizes \union {0}
    /\ victim \in Workers \union {NoWorker}
    /\ ticks \in 0 .. MaxTicks
    /\ scaler = "remove" => victim \in workers

\* Calls and the auto-scaler together keep the map between the limits until
\* the pool is stopped, and below the maximum for ever.
SizeWithinLimits ==
    /\ Cardinality(workers) =< MaxWorkers
    /\ started /\ ~closed => Cardinality(workers) >= MinWorkers

\* A worker nobody has told to stop is in the map, where Stop can find it,
\* whoever started it and whatever was removed in the meantime.
RunningIsListed == Running \subseteq workers

\* Stop and RemoveWorker always give the mutex back, though they may wait for
\* goroutines while they hold it: no goroutine they wait for needs it.
CallsReturn == mu # "free" ~> mu = "free"

\* Once the context is cancelled every goroutine of the pool ends, those of
\* workers the auto-scaler was just starting included.
CancelEndsAll ==
    cancelled ~> /\ scaler \in {"off", "exited"}
                 /\ \A w \in Workers : HasEnded(w)

\* "Stop gracefully shuts down all workers": the auto-scaler may have read a
\* long queue before Stop and start a worker after it.
StopEndsAll ==
    closed ~> \A w \in Workers : HasEnded(w)

=============================================================================
