CONSTANTS
    Graphs <- MCGraphs
    Corpus <- MCCorpus
    Org = 1
    SourceIds <- MCSourceIds
    Model = "small"
    Query = {"what", "chem", "pgvector"}
    Size <- MCSize
    K = 2
    RerankHead = 2
    Cites <- MCCites
    Widest = 2
SPECIFICATION Spec
INVARIANTS
    AcceptsExactlySound
    OrderRespectsEdges
    FailureIsTold
    AnswerReadAll
    FusedOnce
