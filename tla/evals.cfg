SPECIFICATION Spec
CONSTANTS
    Runs = {r1, r2}
    Starts <- Started
    ItemKinds <- Kinds
    Files <- Imports
    Replies <- Judged
    Outcomes <- Ends
    ItemOf <- Row
    Threshold = 500
    ImportLimit = 3
    MaxItems = 2
    MaxMishaps = 1
SYMMETRY Interchangeable
INVARIANTS
    RunIsItsRows
    WhatIsPinnedIsTested
    RegressionHasCause
    PriceIsOfOneDelivery
CHECK_DEADLOCK FALSE
