CONSTANTS
    t1 = t1
    t2 = t2
    t3 = t3
    t4 = t4
    s1 = s1
    None = None
    Txns = {t1, t2, t3}
    Sessions = {s1}
    Kind <- NoBatch
    Size = 2
    Habits <- OneBranching
    Dialect = "mysql"
    MaxFaults = 2
SPECIFICATION FairSpec
INVARIANTS
    CarefulFailureLeavesNothing
PROPERTIES
    CallsSettle
CHECK_DEADLOCK FALSE
