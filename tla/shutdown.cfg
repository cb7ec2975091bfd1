\* Scale-down of a worker and the shutdown of the process, with either cache
\* queue: Redis entries are lost, stale, popped by another process or pushed
\* by one (a3), and calls fail. The system may stop: every goroutine ends after the context is cancelled.
SPECIFICATION Spec
CONSTANTS
    None = None
    a1 = a1  a2 = a2  a3 = a3  a4 = a4  s1 = s1  s2 = s2  s3 = s3  w1 = w1  w2 = w2  i1 = i1  i2 = i2
    Ads = {a1, a2, a3}
    Submitters = {s1}
    Workers = {w1, w2}
    Instances = {i1}
    InstanceOf <- OneInstance
    MaxWaitTime = 1
    AgingNum = 1
    AgingDen = 2
    LockTTL = 1
    MaxCapacity = 0
    ProcessingTimeout = 0
    MaxAttempts = 2
    EnableAging = TRUE
    ScanLimit = 2
    CacheTypes = {"memory", "redis"}
    PriorityInputs = {0}
    Stoppable = {w1}
    Shutdowns = {i1}
    Foreign = {a3}
    Period <- AgingFaster
    SubmitUntil = 0
    MaxTime = 0
INVARIANTS
    LockHasHolder
    ExclusiveClaim
    HeldIsCurrent
PROPERTIES
    OnlyStopsAbandon
    CloseFindsNoHalfComplete
    RefinesLifecycle
SYMMETRY AdSymmetry
CHECK_DEADLOCK FALSE
