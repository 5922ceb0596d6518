SPECIFICATION FairSpec
CONSTANTS
    Pictures = {a, b, torn}
    Broken = {torn}
    PHash <- MCPHash
    Handlers = {w1}
    Staged = {s1, s2}
    Folder = {f}
    MaxPerBatch = 1
    MaxRows = 3
    MaxTrouble = 1
    Nil = Nil
CHECK_DEADLOCK FALSE
INVARIANTS
    LibraryFiles
    AcceptedKept
PROPERTIES
    SettledStays
    QueueDrains
