\* A client pages through all ads, without a filter.
SPECIFICATION Spec
CONSTANTS
    None = None
    a1 = a1  a2 = a2  a3 = a3  n1 = n1  n2 = n2
    Ads = {a1, a2, a3}
    Workers = {w1}
    Nodes = {n1, n2}
    Getters = {g1}
    CacheTypes = {"memory", "redis"}
    DefaultTTL = 3600
    Filters = {""}
    LimitInputs <- Limits
    DefaultLimit = 2
    MaxLimit = 3
    Workloads <- InOrder
INVARIANTS
    AllAdsArePaged
CHECK_DEADLOCK FALSE
