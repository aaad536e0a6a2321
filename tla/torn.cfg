SPECIFICATION PassagesSpec
CONSTANTS
    Settings <- NoOverlap
    Shapes <- Paired
    Levels = {1, 2}
    MaxLines = 4
    MaxPages = 2
INVARIANT WordsStayWhole
CHECK_DEADLOCK FALSE
