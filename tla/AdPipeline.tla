----------------------------- MODULE AdPipeline -----------------------------
(***************************************************************************)
(* The running service: POST /ads handlers (SubmitAd), the processLoop     *)
(* goroutines of the workers, the queue's maintenance loops, the clock and *)
(* the shutdown sequence of cmd, composed over one PriorityQueue.          *)
(***************************************************************************)
EXTENDS PriorityQueue

CONSTANTS
    PriorityInputs,     \* "priority" values clients send
    Stoppable,          \* workers the pool may stop (scale-down)
    Shutdowns,          \* instances that may receive SIGTERM
    Foreign,            \* IDs of ads that other processes keep in the same Redis
    Period,             \* ticks between two firings of each ticker
    SubmitUntil,        \* bound: no submission after this time
    MaxTime             \* bound of the clock

ASSUME PipelineAssumption ==
    /\ PriorityInputs \subseteq Int
    /\ Stoppable \subseteq Workers
    /\ Shutdowns \subseteq Instances
    /\ Foreign \subseteq Ads
    /\ Period \in [Tasks -> Nat \ {0}]
    /\ SubmitUntil \in Nat
    /\ MaxTime \in Nat

VARIABLES
    stopped,            \* workers whose shutdownCh is closed
    foreign             \* foreign IDs that have been in the Redis queue; each
                        \* enters it once, which bounds the other processes

vars == <<ads, locks, now, cacheType, zset, phase, spc, sid, sad,
          wpc, wid, wad, wslow, wdefers,
          mpc, mtask, mitems, mid, mcopy, mnew, due, stopped, foreign>>

\* What the steps of the queue leave alone: the choice of the cache repository,
\* the stopped workers and the other processes.
queueOnly == UNCHANGED <<cacheType, stopped, foreign>>

\* initializeComponents uses Redis if it is configured and answers the first
\* ping, and the memory repository otherwise.
cacheRepo(configured, connected) ==
    IF configured = "redis" /\ connected THEN "redis" ELSE "memory"

Init ==
    /\ ads = [a \in Ads |-> NoAd]
    /\ locks = [a \in Ads |-> NoLock]
    /\ now = 0
    /\ \E configured \in CacheTypes, connected \in BOOLEAN :
            cacheType = cacheRepo(configured, connected)
    /\ zset = [a \in Ads |-> Never]
    /\ phase = [i \in Instances |-> "serving"]
    /\ spc = [s \in Submitters |-> "idle"]
    /\ sid = [s \in Submitters |-> None]
    /\ sad = [s \in Submitters |-> NoAd]
    /\ wpc = [w \in Workers |-> "loop"]
    /\ wid = [w \in Workers |-> None]
    /\ wad = [w \in Workers |-> NoAd]
    /\ wslow = [w \in Workers |-> FALSE]
    /\ wdefers = [w \in Workers |-> <<>>]
    /\ mpc = [i \in Instances |-> "select"]
    /\ mtask = [i \in Instances |-> None]
    /\ mitems = [i \in Instances |-> {}]
    /\ mid = [i \in Instances |-> None]
    /\ mcopy = [i \in Instances |-> NoAd]
    /\ mnew = [i \in Instances |-> 0]
    /\ due = [i \in Instances |-> {}]
    /\ stopped = {}
    /\ foreign = {}

-----------------------------------------------------------------------------

\* The handler builds the ad, SubmitAd stamps it and saves it; Enqueue follows
\* with the same *models.Ad.  No request is accepted once Shutdown has begun.
\* IDs are random, so a new ad never has the ID of another process's ad.
SubmitAd(s) ==
    /\ spc[s] = "idle"
    /\ phase[InstanceOf[s]] = "serving"
    /\ now =< SubmitUntil
    /\ \E a \in WithStatus("absent") \ Foreign, p \in PriorityInputs :
        LET ad == NewAd(p, now)
        IN  /\ Save(a, ad)
            /\ sid' = [sid EXCEPT ![s] = a]
            /\ sad' = [sad EXCEPT ![s] = ad]
    /\ spc' = [spc EXCEPT ![s] = "admit"]
    /\ UNCHANGED <<locks, now, zset, phase, workerVars, maintVars, due, cacheType, stopped, foreign>>

-----------------------------------------------------------------------------

ToldToStop(w) == cancelled(InstanceOf[w]) \/ w \in stopped

\* The head of processLoop: stop, or call Dequeue.
LoopHead(w) ==
    /\ wpc[w] = "loop"
    /\ \/ ToldToStop(w)  /\ goto(w, "exited")
       \/ ~ToldToStop(w) /\ goto(w, "dequeue")
    /\ UNCHANGED <<repoVars, zset, wid, wad, wslow, wdefers, cacheType, stopped, foreign>>
    /\ othersUnchanged

\* processAd is told to stop while it waits for its timer: the loop counts an
\* error and drops the ad.  Otherwise the ad is analysed and Complete follows.
ProcessAdInterrupted(w) ==
    /\ wpc[w] = "work"
    /\ ToldToStop(w)
    /\ goto(w, "loop") /\ forget(w)
    /\ UNCHANGED <<repoVars, zset, wdefers, cacheType, stopped, foreign>>
    /\ othersUnchanged

processLoop(w) ==
    \/ LoopHead(w)
    \/ Dequeue(w) /\ queueOnly
    \/ ProcessAdInterrupted(w)
    \/ Complete(w) /\ queueOnly

\* Worker.Stop(false), as the auto-scaler calls it.
StopWorker(w) ==
    /\ w \in Stoppable \ stopped
    /\ stopped' = stopped \union {w}
    /\ UNCHANGED <<repoVars, now, zset, phase, submitVars, workerVars, maintVars, due, cacheType, foreign>>

-----------------------------------------------------------------------------

\* SIGTERM: server.Shutdown stops accepting and waits for the handlers,
\* cancel() ends the context, then the queue is closed.
BeginShutdown(i) ==
    /\ i \in Shutdowns
    /\ phase[i] = "serving"
    /\ phase' = [phase EXCEPT ![i] = "draining"]
    /\ UNCHANGED <<repoVars, now, zset, submitVars, workerVars, maintVars, due, cacheType, stopped, foreign>>

Cancel(i) ==
    /\ phase[i] = "draining"
    /\ \A s \in Submitters : InstanceOf[s] = i => spc[s] = "idle"
    /\ phase' = [phase EXCEPT ![i] = "cancelled"]
    /\ UNCHANGED <<repoVars, now, zset, submitVars, workerVars, maintVars, due, cacheType, stopped, foreign>>

\* Time passes; a ticker holds at most one tick that was not received yet.
Tick ==
    /\ now < MaxTime
    /\ now' = now + 1
    /\ due' = [i \in Instances |-> due[i] \union {t \in Tasks : now' % Period[t] = 0}]
    /\ UNCHANGED <<repoVars, zset, phase, submitVars, workerVars, maintVars, cacheType, stopped, foreign>>

\* Every process that uses Redis uses the one "ads:queue", over a memory
\* repository of its own: the Enqueue of another node (or of this one, before
\* a restart) leaves an ID here that Dequeue will not find in its repository.
OtherProcessPush ==
    /\ cacheType = "redis"
    /\ \E a \in Foreign \ foreign, p \in PriorityInputs :
        /\ zset' = [zset EXCEPT ![a] = SetStatus(NewAd(p, now), "queued", now).effective]
        /\ foreign' = foreign \union {a}
    /\ UNCHANGED <<repoVars, now, phase, submitVars, workerVars, maintVars, due, cacheType, stopped>>

\* The Dequeue of another node pops an entry, whoever pushed it.
OtherProcessPop ==
    /\ cacheType = "redis"
    /\ \E a \in ZMin : zset' = [zset EXCEPT ![a] = Never]
    /\ UNCHANGED <<repoVars, now, phase, submitVars, workerVars, maintVars, due, cacheType, stopped, foreign>>

Next ==
    \/ \E s \in Submitters : SubmitAd(s) \/ (Enqueue(s) /\ queueOnly)
    \/ \E w \in Workers : processLoop(w) \/ StopWorker(w)
    \/ \E i \in Instances :
        \/ Maintenance(i) /\ queueOnly
        \/ BeginShutdown(i)
        \/ Cancel(i)
        \/ Close(i) /\ queueOnly
    \/ Tick
    \/ OtherProcessPush
    \/ OtherProcessPop

Spec == Init /\ [][Next]_vars

\* The Go scheduler runs every runnable goroutine: a request in progress, a
\* worker and a maintenance loop keep taking steps.  Nothing obliges clients
\* to submit, the pool to stop workers or anyone to shut an instance down.
Fairness ==
    /\ \A s \in Submitters : WF_vars(Enqueue(s) /\ queueOnly)
    /\ \A w \in Workers : WF_vars(processLoop(w))
    /\ \A i \in Instances : WF_vars(Maintenance(i) /\ queueOnly)

FairSpec == Spec /\ Fairness

=============================================================================
