\* The second copies when the backup disk stays while a copy is being started, and disks
\* that went away are mounted again; batches of one row.
SPECIFICATION FairSpec
CONSTANTS
    N = 2
    Batch = 1
    VerifyBatch = 1
    MaxTrouble = 1
INVARIANTS
    SafeCopiesVerified
    CorruptIsReal
PROPERTIES
    BackupsComplete
    LegacyVerified
    DecayFound
