SPECIFICATION FairSpec
CONSTANTS
    Resources = {a}
    Tables = {t, u}
    Features = {k, d}
    MaxVersion = 2
    Runs = {a1, a2}
    Job <- Jobs
    Declared <- RenamingDeclarations
    Migration <- RenamingMigrations
    Required = {}
    Goals <- NoGoals
    Legacy <- NoLegacy
    None = None
    MaxFaults = 1
    MaxLosses = 0
    a = a
    b = b
    c = c
    t = t
    u = u
    w = w
    x = x
    k = k
    d = d
    a1 = a1
    a2 = a2
    b1 = b1
    c1 = c1
PROPERTY OwnershipFollowsRename
