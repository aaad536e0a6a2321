SPECIFICATION Spec
CONSTANTS
    e1 = e1
    e2 = e2
    s1 = s1
    s2 = s2
    p1 = p1
    p2 = p2
    v1 = v1
    v2 = v2
    v3 = v3
    Exps = {e1, e2}
    Positions = {1, 2, 3}
    Pipelines = {p1, p2}
    Versions = {v1, v2, v3}
    PipelineOf <- MCPipelineOf
    Initial <- MCInitial
    Payloads <- MCPayloads
    Buckets = 3
    BucketOf <- MCBucketOf
    Subjects = {s1}
    Slots = {q1, q2}
    None = None
    MaxStarts = 2
    MaxTurns = 0
SYMMETRY Interchangeable
INVARIANT OneRunning
