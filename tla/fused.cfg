SPECIFICATION PassagesSpec
CONSTANTS
    Settings <- NoOverlap
    Shapes <- SomeShapes
    Levels = {1, 2}
    MaxLines = 4
    MaxPages = 2
INVARIANT WordsStayApart
CHECK_DEADLOCK FALSE
