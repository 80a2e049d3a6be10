SPECIFICATION FairSpec
CONSTANTS
    Resources = {a, b, c, d}
    Tables = {t, u, w, x}
    Features = {col, alt, idx, chk}
    Kind <- FeatureKinds
    MaxVersion = 2
    Declared <- Declarations
    Migration <- Migrations
    Required = {}
    Legacy <- LegacyTables
    Runs = {r1, r2}
    Deployments <- AllDeployments
    None = None
    MaxFaults = 2
    a = a
    b = b
    c = c
    d = d
    t = t
    u = u
    w = w
    x = x
    col = col
    alt = alt
    idx = idx
    chk = chk
    r1 = r1
    r2 = r2
INVARIANTS TypeOK StatementsOnce RecordedMigrationsRan CreatedMeansOwned InstalledStands
PROPERTIES OwnersKeepTheirTables AbsorbsNothing VersionsMoveForward Converges
