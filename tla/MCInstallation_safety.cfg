SPECIFICATION Spec
CONSTANTS
    p1 = p1 p2 = p2 p3 = p3 t1 = t1 t2 = t2 d1 = d1 r1 = r1 r2 = r2
    Procs = {p1, p2, p3}
    Images <- MCImages
    Versions <- MCVersions
    Plain = {"index"}
    Sums = {"sum", "other"}
    Tokens = {t1, t2}
    Docs = {d1}
    Runs = {r1, r2}
    Baseline = "baseline"
    TokenTable = "setup-token"
    Manifest <- MCManifest
    SumOf <- MCSumOf
    AllowDrift = {"new"}
    None = None
    MaxOps = 4
    MaxFaults = 1
    MaxAge = 1
    Retention = 0
SYMMETRY Symmetry
\* A bounded number of operations: when they are over, the system stops.
CHECK_DEADLOCK FALSE
INVARIANTS
    MigrationsApplyOnceInOrder
    ServesOnlyMigrated
    OneFirstFirm
    BackupIsRestorable
