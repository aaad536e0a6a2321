----------------------------- MODULE MCPipeline -----------------------------
(***************************************************************************)
(* Two families of graphs: everything the editor can send over three       *)
(* nodes, where most is refused, and a handful of pipelines that run, with *)
(* passages of one token or two.                                           *)
(***************************************************************************)
EXTENDS Pipeline

N(i, t, c) == [id |-> i, type |-> t, cap |-> c]
G(n, e)    == [nodes |-> n, edges |-> e]

\* Every choice of three types and of edges between different nodes.
Edge == <<<<1, 2>>, <<1, 3>>, <<2, 1>>, <<2, 3>>, <<3, 1>>, <<3, 2>>>>
Chosen(S) == LET picked == SelectSeq(<<1, 2, 3, 4, 5, 6>>, LAMBDA i : i \in S)
             IN  [j \in DOMAIN picked |-> Edge[picked[j]]]
SmallTypes == {"retriever_dense", "context_builder", "agent", "generate"}
SmallGraphs ==
    {G([i \in 1..3 |-> N(i, ty[i], 2)], Chosen(S)) :
        ty \in [1..3 -> SmallTypes], S \in SUBSET (1..6)}

\* What pydantic lets through and validate_dag must refuse.
OddGraphs ==
    {G(<<>>, <<>>),
     G(<<N(1, "generate", 1), N(1, "generate", 1)>>, <<>>),
     G(<<N(1, "generate", 1)>>, <<<<1, 2>>>>),
     G(<<N(1, "generate", 1)>>, <<<<2, 1>>>>),
     G(<<N(1, "nonesuch", 1), N(2, "generate", 1)>>, <<<<1, 2>>>>),
     G(<<N(1, "agent", 0), N(2, "generate", 1)>>, <<<<1, 2>>>>),
     G(<<N(1, "agent", 1)>>, <<>>),
     G(<<N(1, "agent", 1), N(2, "generate", 1)>>, <<<<1, 1>>, <<1, 2>>>>),
     G(<<N(1, "agent", 1), N(2, "generate", 1)>>, <<<<1, 2>>, <<1, 2>>>>)}

Default == DEFAULT_DAG([t \in REGISTRY |-> IF t = "generate" THEN 1 ELSE 3])

\* No fusion: the reranker flattens what the retrievers found.
Unfused ==
    G(<<N(1, "retriever_dense", 2), N(2, "retriever_bm25", 2), N(3, "rerank", 3),
        N(4, "context_builder", 3), N(5, "generate", 1)>>,
      <<<<1, 3>>, <<2, 3>>, <<3, 4>>, <<4, 5>>>>)

\* Two builders, one before and one after the reranker, and an agent.
TwoBuilders ==
    G(<<N(1, "retriever_dense", 3), N(2, "fusion", 3), N(3, "context_builder", 2),
        N(4, "rerank", 2), N(5, "context_builder", 3), N(6, "agent", 2), N(7, "generate", 1)>>,
      <<<<1, 2>>, <<2, 3>>, <<2, 4>>, <<4, 5>>, <<3, 6>>, <<5, 6>>, <<6, 7>>>>)

\* Two answers, of which the last stands.
TwoAnswers ==
    G(<<N(1, "retriever_dense", 2), N(2, "fusion", 2), N(3, "generate", 1),
        N(4, "context_builder", 4), N(5, "generate", 1)>>,
      <<<<1, 2>>, <<2, 3>>, <<2, 4>>, <<4, 5>>>>)

\* A fusion that has nothing to fuse, and two retrievers after it.
LateFinds ==
    G(<<N(1, "agent", 1), N(2, "fusion", 2), N(3, "retriever_dense", 2), N(4, "retriever_bm25", 2),
        N(5, "rerank", 3), N(6, "context_builder", 3), N(7, "generate", 1)>>,
      <<<<1, 2>>, <<2, 3>>, <<2, 4>>, <<3, 5>>, <<4, 5>>, <<5, 6>>, <<6, 7>>>>)

MCGraphs == SmallGraphs \cup OddGraphs \cup {Default, Unfused, TwoBuilders, TwoAnswers,
                                       LateFinds}
\* A directory of two documents of the organization and one beside it, and a
\* document of another organization whose id the bot names.
Source(o, p, d, l) == [org |-> o, path |-> p, directory |-> d, lang |-> l]
Text(s, w, m) == [source |-> s, words |-> w, models |-> m]
MCCorpus ==
    [sources   |-> <<Source(1, <<1>>, TRUE, "english"), Source(1, <<1, 2>>, FALSE, "english"),
                     Source(1, <<1, 3>>, FALSE, "russian"), Source(1, <<4>>, FALSE, "english"),
                     Source(2, <<5>>, FALSE, "english")>>,
     chunks    |-> <<Text(2, {"pgvector"}, {"small"}), Text(2, {"chem"}, {"small", "large"}),
                     Text(3, {"pgvector", "what"}, {"small"}), Text(3, {"what"}, {"large"}),
                     Text(4, {"pgvector"}, {"small"}), Text(5, {"pgvector"}, {"small"})>>,
     stopwords |-> [english |-> {"what"}, russian |-> {"chem"}]]
MCSourceIds == {1, 2, 5, 6}
MCSize   == <<1, 2, 1, 1, 1, 1>>
MCCites  == {<<>>, <<2, 1, 2>>, <<4, 3>>}
=============================================================================
