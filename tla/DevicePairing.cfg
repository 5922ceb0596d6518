SPECIFICATION Spec
CONSTANTS
    Accounts = {ann, bob}
    Devices = {d}
    Codes = {c1, c2}
    Phones = {p1, p2}
    Requests = {q}
    Connections = 2
    MaxTokens = 2
    MaxTrouble = 1
    Nil = Nil
SYMMETRY MCSymmetry
INVARIANTS
    CodePairsOnce
    ServedForOwner
    RedeemsMove
PROPERTIES
    ImplementsPairing
