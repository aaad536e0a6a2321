SPECIFICATION PassagesSpec
CONSTANTS
    Settings <- Pages
    Shapes <- SomeShapes
    Levels = {1, 2}
    MaxLines = 4
    MaxPages = 2
INVARIANT TextIsKept
CHECK_DEADLOCK FALSE
