SPECIFICATION FairSpec
CONSTANTS
    Resources = {a, b}
    Tables = {t, u, w, x}
    Features = {k, d}
    MaxVersion = 2
    Runs = {a1, a2, b1}
    Job <- Jobs
    Declared <- ResumableDeclarations
    Migration <- ResumableMigrations
    Required = {}
    Goals <- BothInstalled
    Legacy <- LegacyTables
    None = None
    MaxFaults = 3
    MaxLosses = 0
    a = a
    b = b
    c = c
    t = t
    u = u
    w = w
    x = x
    k = k
    d = d
    a1 = a1
    a2 = a2
    b1 = b1
    c1 = c1
PROPERTIES VersionsMoveForward Converges
