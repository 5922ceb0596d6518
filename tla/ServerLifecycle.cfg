SPECIFICATION ServerFairSpec
CONSTANTS
    Requests = {r1, r2}
    MaxWork = 1
INVARIANTS
    CutOnlyLate
    ExitAfterQuiet
PROPERTIES
    Answered
    Sleeps
CHECK_DEADLOCK FALSE
