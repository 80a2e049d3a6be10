CONSTANTS
    t1 = t1
    t2 = t2
    t3 = t3
    t4 = t4
    s1 = s1
    None = None
    Txns = {t1}
    Sessions = {s1}
    Kind <- Callbacks
    Size = 2
    Habits <- Branching
    Dialect = "postgresql"
    MaxFaults = 1
SPECIFICATION Spec
INVARIANTS
    CommitsOnlyOnSuccess
CHECK_DEADLOCK FALSE
