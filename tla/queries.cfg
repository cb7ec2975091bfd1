\* Readers beside the pipeline: a client that pages through one status or
\* through all ads, or asks for the statistics, while three ads move on; or
\* two clients that keep asking two nodes for one ad.
SPECIFICATION Spec
CONSTANTS
    None = None
    a1 = a1  a2 = a2  a3 = a3  n1 = n1  n2 = n2
    Ads = {a1, a2, a3}
    Workers = {w1}
    Nodes = {n1, n2}
    Getters = {g1, g2}
    CacheTypes = {"memory", "redis"}
    DefaultTTL = 3600
    Filters = {"", "queued", "completed"}
    LimitInputs <- Limits
    DefaultLimit = 2
    MaxLimit = 3
    Workloads <- AllWorkloads
INVARIANTS
    QueriesTypeOK
    StaticPagingIsExact
    GrowingPagingMissesNone
    StatsMissNone
    AcceptedIsFound
PROPERTIES
    ShortFirstPageMissesNone
    CacheConverges
CHECK_DEADLOCK FALSE
