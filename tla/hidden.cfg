SPECIFICATION Spec
CONSTANTS
    Runs = {r1, r2}
    Starts <- Started
    ItemKinds <- Kinds
    Files <- Imports
    Replies <- Judged
    Outcomes <- CutOff
    ItemOf <- Row
    Threshold = 500
    ImportLimit = 3
    MaxItems = 2
    MaxMishaps = 1
SYMMETRY Interchangeable
INVARIANT CostIsReported
CHECK_DEADLOCK FALSE
