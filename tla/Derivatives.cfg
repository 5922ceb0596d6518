SPECIFICATION FairSpec
CONSTANTS
    Pictures = {a}
    Videos = {v}
    MaxTrouble = 3
    Nil = Nil
INVARIANTS
    ReadyIsWhole
    ListedIsWhole
    WaitingHasJob
PROPERTIES
    PreviewSettles
CHECK_DEADLOCK FALSE
