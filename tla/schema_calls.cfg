SPECIFICATION Spec
CONSTANTS
    Resources = {a, b, c}
    Tables = {t, u, w, x}
    Features = {k, d}
    MaxVersion = 2
    Runs = {a1, a2, b1, c1}
    Job <- Jobs
    Declared <- Declarations
    Migration <- Migrations
    Required = {}
    Goals <- NoGoals
    Legacy <- LegacyTables
    None = None
    MaxFaults = 1
    MaxLosses = 1
    a = a
    b = b
    c = c
    t = t
    u = u
    w = w
    x = x
    k = k
    d = d
    a1 = a1
    a2 = a2
    b1 = b1
    c1 = c1
INVARIANTS TypeOK RawSqlOnce CreatedMeansOwned InstalledStands
PROPERTY OnlyOwnTables
