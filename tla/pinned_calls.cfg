CONSTANTS
    t1 = t1
    t2 = t2
    t3 = t3
    t4 = t4
    s1 = s1
    None = None
    Txns = {t1, t2, t3, t4}
    Sessions = {s1}
    Kind <- AllKinds
    Size = 2
    Habits <- OneCareless
    Dialect = "postgresql"
    MaxFaults = 1
SPECIFICATION Spec
INVARIANTS
    TypeOK
    NoSharedSession
    CleanHandover
    CarefulFailureLeavesNothing
    CarefulSuccessIsDurable
CHECK_DEADLOCK FALSE
