SPECIFICATION Spec
CONSTANTS
    e1 = e1
    e2 = e2
    s1 = s1
    s2 = s2
    p1 = p1
    p2 = p2
    v1 = v1
    v2 = v2
    v3 = v3
    Exps = {e1}
    Positions = {1, 2, 3}
    Pipelines = {p1, p2}
    Versions = {v1, v2, v3}
    PipelineOf <- MCPipelineOf
    Initial <- MCInitial
    Payloads <- MCPayloads
    Buckets = 3
    BucketOf <- MCBucketOf
    Subjects = {s2}
    Slots = {q1}
    None = None
    MaxStarts = 1
    MaxTurns = 2
INVARIANT ControlMeasuresOneGraph
