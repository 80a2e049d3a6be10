SPECIFICATION FairSpec
CONSTANTS
    MaxParameter = 11
    Null = Null
    Calls = {c1, c2}
    Workloads <- EveryWorkload
    CacheLimit = 1
    c1 = c1
    c2 = c2
    r1 = r1
    r2 = r2
INVARIANTS TypeOK OneTrueAnswer BindsEveryPlaceholder
PROPERTIES EveryCallEnds
CHECK_DEADLOCK FALSE
