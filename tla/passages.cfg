SPECIFICATION PassagesSpec
CONSTANTS
    Settings <- SomeSettings
    Shapes <- SomeShapes
    Levels = {1, 2}
    MaxLines = 4
    MaxPages = 2
INVARIANTS
    WholeAndOrdered
    HonestClaims
    WithinBudget
CHECK_DEADLOCK FALSE
