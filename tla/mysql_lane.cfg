CONSTANTS
    c1 = c1
    c2 = c2
    l1 = l1
    l2 = l2
    p1 = p1
    p2 = p2
    p3 = p3
    p4 = p4
    None = None
    Callers = {c1, c2}
    Loops = {l1, l2}
    Pools = {p1, p2, p3, p4}
    Dialect = "mysql"
    QueueLimit = 1
    MaxFaults = 3
SPECIFICATION Spec
SYMMETRY Symmetric
INVARIANTS
    TypeOK
    SingleCoordinator
    NoStrandedWaiter
    RestsConnected
    PoolsAccountedFor
PROPERTIES
    EventsAlternate
