SPECIFICATION FairSpec
CONSTANTS
    Procs = {p1, p2}
    Pictures = {a}
    Secrets = {endpoint}
    MaxTrouble = 2
    Nil = Nil
INVARIANTS
    VersionIsComplete
    SnapshotIsOriginal
    OneSecret
PROPERTIES
    MigrationFinishes

CHECK_DEADLOCK FALSE
