SPECIFICATION FairSpec
CONSTANTS
    Sources = {s1, s2}
    Workers = {w1, w2}
    Requests = {r1, r2}
    Kinds = {"reindex", "bulk", "delete"}
    m1 = m1
    m2 = m2
    c1 = c1
    c2 = c2
    Models = {m1}
    Chunkings = {c1}
    Default <- MCDefault
    None = None
    MaxCrashes = 1
    MaxErrors = 0
INVARIANT PendingHasAJob
PROPERTY PendingIsSettled
CHECK_DEADLOCK FALSE
