SPECIFICATION Spec
CONSTANTS
    Sources = {s1}
    Workers = {w1, w2}
    Requests = {r1}
    Kinds = {"create"}
    m1 = m1
    m2 = m2
    c1 = c1
    c2 = c2
    Models = {m1, m2}
    Chunkings = {c1, c2}
    Default <- MCDefault
    None = None
    MaxCrashes = 0
    MaxErrors = 0
INVARIANT PendingHasAJob
CHECK_DEADLOCK FALSE
