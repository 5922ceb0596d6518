SPECIFICATION CarefulSpec
CONSTANTS
    Pictures = {a, b, torn}
    Broken = {torn}
    PHash <- MCPHash
    Handlers = {w1}
    Staged = {s1, s2}
    Folder = {f}
    MaxPerBatch = 1
    MaxRows = 2
    MaxTrouble = 0
    Nil = Nil
CHECK_DEADLOCK FALSE
INVARIANT AlikeKept
