\* Two queues of capacity one, with one worker each, over one repository;
\* locks do not expire within the run.
SPECIFICATION Spec
CONSTANTS
    None = None
    a1 = a1  a2 = a2  a3 = a3  a4 = a4  s1 = s1  s2 = s2  s3 = s3  w1 = w1  w2 = w2  i1 = i1  i2 = i2
    Ads = {a1, a2, a3}
    Submitters = {s1, s2}
    Workers = {w1, w2}
    Instances = {i1, i2}
    InstanceOf <- TwoInstances
    MaxWaitTime = 1
    AgingNum = 1
    AgingDen = 2
    LockTTL = 1
    MaxCapacity = 1
    ProcessingTimeout = 0
    MaxAttempts = 2
    EnableAging = TRUE
    ScanLimit = 2
    CacheTypes = {"memory"}
    PriorityInputs = {0}
    Stoppable = {}
    Shutdowns = {}
    Foreign = {}
    Period <- AgingFaster
    SubmitUntil = 0
    MaxTime = 0
INVARIANTS
    LockSeparatesInstances
    OvershootBounded
    ExclusiveClaim
PROPERTIES
    LockedOutOnlyByDequeue
    RefinesLifecycle
SYMMETRY AdSymmetry
