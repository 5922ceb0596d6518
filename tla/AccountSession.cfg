SPECIFICATION Spec
CONSTANTS
    Accounts = {ann, bob}
    Browsers = {b}
    MaxTokens = 3
    MaxTrouble = 2
    Nil = Nil
INVARIANTS
    SessionCoherent
    StaysSignedIn
    LastSignInWins
CHECK_DEADLOCK FALSE
SYMMETRY MCSymmetry
