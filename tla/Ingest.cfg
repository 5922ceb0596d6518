SPECIFICATION FairSpec
CONSTANTS
    x = x
    y = y
    NumFiles = 2
    Content <- MCContent
    Looks <- MCLooks
    BulkWorkers = {v1}
    CPUs = {c1}
    QueueCap = 1
    MaxTrouble = 1
    Nil = Nil
INVARIANTS
    Accounted
    Kept
    HeardIsKept
    VectorOfCaption
PROPERTIES
    IngestEnds
CHECK_DEADLOCK FALSE
