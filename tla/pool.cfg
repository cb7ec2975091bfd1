\* Calls, scaling up and down and a cancellation in any order. The system
\* may stop: after the cancellation every goroutine ends.
SPECIFICATION FairSpec
CONSTANTS
    NoWorker = NoWorker
    w1 = w1  w2 = w2  w3 = w3  k1 = k1  k2 = k2
    Workers = {w1, w2, w3}
    Loops = {k1}
    MinWorkers = 1
    MaxWorkers = 2
    TargetQueueSize = 2
    EnableAutoScale = TRUE
    Calls = {"AddWorker", "RemoveWorker", "Stop"}
    QueueSizes = {0, 2, 3}
    MaxTicks = 1
INVARIANTS
    PoolTypeOK
    SizeWithinLimits
    RunningIsListed
PROPERTIES
    CallsReturn
    CancelEndsAll
CHECK_DEADLOCK FALSE
