\* Stop against an auto-scaler that has read the queue size.
SPECIFICATION FairSpec
CONSTANTS
    NoWorker = NoWorker
    w1 = w1  w2 = w2  w3 = w3  k1 = k1  k2 = k2
    Workers = {w1, w2, w3}
    Loops = {k1}
    MinWorkers = 1
    MaxWorkers = 2
    TargetQueueSize = 2
    EnableAutoScale = TRUE
    Calls = {"Stop"}
    QueueSizes = {0, 2, 3}
    MaxTicks = 2
PROPERTIES
    StopEndsAll
CHECK_DEADLOCK FALSE
