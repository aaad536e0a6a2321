SPECIFICATION Spec
CONSTANTS
    Actors = {a1, a2}
    MaxNodes = 3
    MaxSitemap = 2
SYMMETRY Interchangeable
INVARIANTS
    TreeShowsAll
    OrphansWereRaced
    RowHasFile
CHECK_DEADLOCK FALSE
