SPECIFICATION QuotaSpec
CONSTANTS
    Calls = {k1, k2, k3}
    Sizes = {1, 2}
    Limit = 2
    NoCounter = NoCounter
    MaxCharged = 4
    MaxExpiries = 1
    MaxLosses = 1
    MaxKeyEdits = 1
SYMMETRY Interchangeable
INVARIANTS
    CountedOnce
PROPERTY StaysInStep
CHECK_DEADLOCK FALSE
