SPECIFICATION QuotaSpec
CONSTANTS
    Calls = {k1, k2}
    Sizes = {1, 2}
    Limit = 2
    NoCounter = NoCounter
    MaxCharged = 4
    MaxExpiries = 0
    MaxLosses = 4
    MaxKeyEdits = 0
SYMMETRY Interchangeable
INVARIANT BoundedCost
CHECK_DEADLOCK FALSE
