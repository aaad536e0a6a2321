SPECIFICATION Spec
CONSTANTS
    Sources = {s1, s2}
    Workers = {w1, w2}
    Requests = {r1, r2}
    Kinds = {"create", "reindex", "bulk", "settings", "delete"}
    m1 = m1
    m2 = m2
    c1 = c1
    c2 = c2
    Models = {m1, m2}
    Chunkings = {c1, c2}
    Default <- MCDefault
    None = None
    MaxCrashes = 1
    MaxErrors = 1
SYMMETRY Interchangeable
INVARIANTS
    ReadyIsWhole
    NothingOutlivesItsRow
    OneWriter
PROPERTY ImplementsLifecycle
CHECK_DEADLOCK FALSE
