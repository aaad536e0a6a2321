------------------------------ MODULE Pipeline ------------------------------
(***************************************************************************)
(* A saved pipeline: the graph the editor sends is ordered (Kahn), checked *)
(* and, when it is accepted, walked node by node over one shared state     *)
(* while events stream to whoever asked.                                   *)
(*                                                                         *)
(* A node is [id, type, cap]; ids are natural numbers, whose order stands  *)
(* for the order of the id strings; cap is the one bound in the node's     *)
(* configuration that matters here: k of a retriever, limit of a fusion,   *)
(* top_k of a reranker, token_budget of a context builder, max_steps of an *)
(* agent.  An edge is a pair of ids.                                       *)
(***************************************************************************)
EXTENDS Retrieval

CONSTANTS
    Graphs,      \* the graphs a user may send
    Corpus,      \* what is indexed: see Retrieval
    Org,         \* the organization of the bot
    SourceIds,   \* the sources the bot reads
    Model,       \* the organization's embedding model
    Query,       \* the words of the question
    Size,        \* tokens of each passage, header included
    K,           \* k of the fusion nodes
    RerankHead,  \* rerank_candidates: how many the cross-encoder scores
    Cites,       \* the markers a model may write into its answer
    Widest       \* the largest marker the citation pattern reads

ASSUME PipelineAssumption ==
    /\ \A g \in Graphs :
         /\ g.nodes \in Seq([id : Nat, type : STRING, cap : Nat])
         /\ g.edges \in Seq(Nat \X Nat)
    /\ DOMAIN Corpus.chunks \subseteq Nat /\ IsFiniteSet(DOMAIN Corpus.chunks)
    /\ \A s \in DOMAIN Corpus.sources :
         LET path == Corpus.sources[s].path
         IN  path \in Seq(Nat) /\ path # <<>> /\ path[Len(path)] = s
    /\ K \in Nat \ {0}
    /\ RerankHead \in Nat
    /\ Cites \subseteq Seq(Nat)
    /\ Widest \in Nat

VARIABLES
    graph,      \* the document that was sent
    phase,      \* new, ordering, ordered, rejected, running, walked, stored, broke
    incoming,   \* topological_order: edges into a node not yet discounted
    since,      \* topological_order: turn a node entered the queue, -1 if not in it
    order,      \* topological_order: ids in execution order
    at,         \* execute: position of the next node
    candidates, \* state.candidates in insertion order: [by, hits]
    selected,   \* state.selected
    context,    \* state.context_chunks: passages, numbered by position, with their builder
    answer,     \* state.answer: the node that wrote it, what it cites, what it had read
    usage,      \* nodes whose model calls state.tokens_in and tokens_out count
    failed,     \* state.failed
    events,     \* what was streamed: [kind, by]
    rounds,     \* stream_agent: rounds of tool calls the running agent has made
    aborted,    \* the database transaction of the request is in a failed state
    called,     \* history: nodes that really called a model
    stored      \* the pipeline_runs row: [status, error, citations], if any

orderVars == <<incoming, since, order>>
stateVars == <<candidates, selected, context, answer, usage, failed>>
turnVars  == <<stateVars, events, rounds, aborted, called>>
vars      == <<graph, phase, orderVars, at, turnVars, stored>>

REGISTRY == {"retriever_dense", "retriever_bm25", "fusion", "rerank",
             "context_builder", "generate", "agent"}
Terminal      == {"generate"}
ReadsUpstream == {"fusion", "rerank", "context_builder"}

Ids == {graph.nodes[i].id : i \in DOMAIN graph.nodes}
Types == {graph.nodes[i].type : i \in DOMAIN graph.nodes}
NodeOf(n) == graph.nodes[CHOOSE i \in DOMAIN graph.nodes : graph.nodes[i].id = n]
TypeOf(n) == NodeOf(n).type
Edges == DOMAIN graph.edges
Into(n) == {e \in Edges : graph.edges[e][2] = n}
OutOf(n) == {e \in Edges : graph.edges[e][1] = n}

\* The graph of a bot without a pipeline; ids in the order of answer, bm25,
\* context, dense, fuse, rerank, and the caps of its nodes by type.
DEFAULT_DAG(cap) ==
    LET N(i, t) == [id |-> i, type |-> t, cap |-> cap[t]]
    IN  [nodes |-> <<N(4, "retriever_dense"), N(2, "retriever_bm25"), N(5, "fusion"),
                     N(6, "rerank"), N(3, "context_builder"), N(1, "generate")>>,
         edges |-> <<<<4, 5>>, <<2, 5>>, <<5, 6>>, <<6, 3>>, <<3, 1>>>>]

NoAnswer == [by |-> -1, cites |-> <<>>, read |-> 0]
NoRow    == [status |-> "none", error |-> FALSE, citations |-> <<>>]
-----------------------------------------------------------------------------
Init ==
    /\ graph \in Graphs
    /\ phase = "new"
    /\ incoming = <<>> /\ since = <<>> /\ order = <<>>
    /\ at = 1
    /\ candidates = <<>> /\ selected = <<>> /\ context = <<>>
    /\ answer = NoAnswer
    /\ usage = {} /\ called = {}
    /\ failed = FALSE /\ aborted = FALSE
    /\ events = <<>>
    /\ rounds = 0
    /\ stored = NoRow

\* Duplicate ids and edges to nowhere are refused before anything is ordered.
Count ==
    /\ phase = "new"
    /\ IF /\ Cardinality(Ids) = Len(graph.nodes)
          /\ \A e \in Edges : {graph.edges[e][1], graph.edges[e][2]} \subseteq Ids
       THEN /\ incoming' = [n \in Ids |-> Into(n)]
            /\ since' = [n \in Ids |-> IF Into(n) = {} THEN 0 ELSE -1]
            /\ phase' = "ordering"
       ELSE /\ phase' = "rejected"
            /\ UNCHANGED <<incoming, since>>
    /\ UNCHANGED <<graph, order, at, turnVars, stored>>

(***************************************************************************)
(* The deque `ready` is filled in sorted runs, one per popped node, so its *)
(* head is the node that entered first, the smallest id among equals.      *)
(* Parallel edges are discounted one by one: the count reaches zero, and   *)
(* the target is queued, with the last of them.                            *)
(***************************************************************************)
Ready == {n \in DOMAIN since : since[n] >= 0}
Foremost(n) ==
    /\ n \in Ready
    /\ \A m \in Ready : (since[n] < since[m]) \/ (since[n] = since[m] /\ n <= m)

\* Mutant of Pop: a target is queued with the first of its edges.
PopAtOnce ==
    /\ phase = "ordering"
    /\ \E n \in Ready :
        /\ Foremost(n)
        /\ order' = Append(order, n)
        /\ incoming' = [t \in Ids |-> incoming[t] \ OutOf(n)]
        /\ since' = [t \in Ids |->
                        IF t = n THEN -1
                        ELSE IF incoming[t] \cap OutOf(n) # {} /\ t \notin Range(order)
                             THEN Len(order) + 1
                             ELSE since[t]]
    /\ UNCHANGED <<graph, phase, at, turnVars, stored>>

Pop ==
    /\ phase = "ordering"
    /\ \E n \in Ready :
        /\ Foremost(n)
        /\ order' = Append(order, n)
        /\ incoming' = [t \in Ids |-> incoming[t] \ OutOf(n)]
        /\ since' = [t \in Ids |->
                        IF t = n THEN -1
                        ELSE IF incoming[t] # {} /\ incoming[t] \subseteq OutOf(n)
                             THEN Len(order) + 1
                             ELSE since[t]]
    /\ UNCHANGED <<graph, phase, at, turnVars, stored>>

\* A node the loop never reached sits on a cycle.
Ordered ==
    /\ phase = "ordering"
    /\ Ready = {}
    /\ phase' = IF Len(order) = Cardinality(Ids) THEN "ordered" ELSE "rejected"
    /\ UNCHANGED <<graph, orderVars, at, turnVars, stored>>

\* Mutant of Connected: only loose ends before the answer are looked for.
ConnectedLoosely ==
    \A n \in Ids :
        /\ TypeOf(n) \in ReadsUpstream => Into(n) # {}
        /\ TypeOf(n) \notin Terminal => OutOf(n) # {}

Connected ==
    \A n \in Ids :
        /\ TypeOf(n) \in Terminal => OutOf(n) = {}
        /\ TypeOf(n) \in ReadsUpstream => Into(n) # {}
        /\ TypeOf(n) \notin Terminal => OutOf(n) # {}

validate_dag ==
    /\ order # <<>>
    /\ Types \subseteq REGISTRY
    /\ \A n \in Ids : NodeOf(n).cap >= 1
    /\ \E n \in Ids : TypeOf(n) = "generate"
    /\ Connected
    /\ TypeOf(order[Len(order)]) = "generate"

Check ==
    /\ phase = "ordered"
    /\ phase' = IF validate_dag THEN "running" ELSE "rejected"
    /\ UNCHANGED <<graph, orderVars, at, turnVars, stored>>
-----------------------------------------------------------------------------
(***************************************************************************)
(* execute: one node at a time over the shared state.                      *)
(***************************************************************************)
Node  == order[at]
Cap   == NodeOf(Node).cap
Runs(types) == phase = "running" /\ TypeOf(Node) \in types
Lists == [i \in DOMAIN candidates |-> candidates[i].hits]
Emit(kind) == Append(events, [kind |-> kind, by |-> Node])

Done ==
    /\ at' = at + 1
    /\ phase' = IF at = Len(order) THEN "walked" ELSE "running"

\* A dict entry is replaced in place; a second node of a type overwrites the first.
Finds(hits) ==
    /\ LET found == [by |-> TypeOf(Node), hits |-> hits]
           same  == {i \in DOMAIN candidates : candidates[i].by = found.by}
       IN  candidates' = IF same = {} THEN Append(candidates, found)
                         ELSE [i \in DOMAIN candidates |->
                                  IF i \in same THEN found ELSE candidates[i]]
    /\ Done
    /\ UNCHANGED <<graph, orderVars, selected, context, answer, usage, failed,
                   events, rounds, aborted, called, stored>>

DenseRetriever ==
    /\ Runs({"retriever_dense"})
    /\ \E hits \in dense_search(Corpus, Org, SourceIds, Model, Cap) : Finds(hits)

Bm25Retriever ==
    /\ Runs({"retriever_bm25"})
    /\ \E hits \in bm25_search(Corpus, Org, SourceIds, Query, Cap) : Finds(hits)

Fuse ==
    /\ Runs({"fusion"})
    /\ selected' = reciprocal_rank_fusion(Lists, K, Cap)
    /\ Done
    /\ UNCHANGED <<graph, orderVars, candidates, context, answer, usage, failed,
                   events, rounds, aborted, called, stored>>

\* Mutant of Rerank: the fused list is ignored.
RerankEverything ==
    /\ Runs({"rerank"})
    /\ selected' \in rerank(FlattenSeq(Lists), RerankHead, Cap)
    /\ Done
    /\ UNCHANGED <<graph, orderVars, candidates, context, answer, usage, failed,
                   events, rounds, aborted, called, stored>>

Rerank ==
    /\ Runs({"rerank"})
    /\ selected' \in rerank(IF selected # <<>> THEN selected ELSE FlattenSeq(Lists),
                            RerankHead, Cap)
    /\ Done
    /\ UNCHANGED <<graph, orderVars, candidates, context, answer, usage, failed,
                   events, rounds, aborted, called, stored>>

\* Passages are packed in order until the first that does not fit.
Tokens(passages) == MapThenSumSet(LAMBDA i : Size[passages[i]], DOMAIN passages)
Packed(passages, budget) ==
    SubSeq(passages, 1, Max({n \in 0..Len(passages) :
                                Tokens(SubSeq(passages, 1, n)) <= budget}))

BuildContext ==
    /\ Runs({"context_builder"})
    /\ LET fits == Packed(selected, Cap)
       IN  context' = context \o [i \in DOMAIN fits |-> [passage |-> fits[i], by |-> Node]]
    /\ events' \in {events, IF selected # <<>> THEN Emit("sources") ELSE events}
    /\ Done
    /\ UNCHANGED <<graph, orderVars, candidates, selected, answer, usage, failed,
                   rounds, aborted, called, stored>>

\* The answer of a model that read so many passages replaces any earlier one.
Answers(cites, read) ==
    /\ answer' = [by |-> Node, cites |-> cites, read |-> read]
    /\ usage' = {Node}
    /\ called' = called \cup {Node}
    /\ events' = Emit("token")

Generate ==
    /\ Runs({"generate"})
    /\ \E cites \in Cites : Answers(cites, Len(context))
    /\ Done
    /\ UNCHANGED <<graph, orderVars, candidates, selected, context, failed, rounds,
                   aborted, stored>>

\* The provider stops answering: the deltas already streamed are not taken back.
GenerateFails ==
    /\ Runs({"generate"})
    /\ \E streamed \in BOOLEAN :
         events' = Append(IF streamed THEN Emit("token") ELSE events,
                          [kind |-> "error", by |-> Node])
    /\ usage' \in {usage, {Node}}
    /\ called' = called \cup {Node}
    /\ failed' = TRUE
    /\ phase' = "walked"
    /\ UNCHANGED <<graph, orderVars, at, candidates, selected, context, answer, rounds,
                   aborted, stored>>

(***************************************************************************)
(* stream_agent: model, tools, model again.  recursion_limit is twice      *)
(* max_steps and the answer itself is a step, so an answer after `rounds`  *)
(* rounds of tools needs 2 * rounds + 1 steps.  Its configuration says     *)
(* whether it reads the passages.  A tool that fails says so in its        *)
(* result; one that raises fails the loop after its call was streamed.     *)
(***************************************************************************)
AgentCallsTools ==
    /\ Runs({"agent"})
    /\ 2 * rounds + 2 <= 2 * Cap
    /\ rounds' = rounds + 1
    /\ called' = called \cup {Node}
    /\ events' = Emit("tool_call") \o <<[kind |-> "tool_result", by |-> Node]>>
    /\ UNCHANGED <<graph, phase, orderVars, at, stateVars, aborted, stored>>

AgentAnswers ==
    /\ Runs({"agent"})
    /\ 2 * rounds + 1 <= 2 * Cap
    /\ \E cites \in Cites, read \in {0, Len(context)} : Answers(cites, read)
    /\ rounds' = 0
    /\ Done
    /\ UNCHANGED <<graph, orderVars, candidates, selected, context, failed, aborted, stored>>

\* Mutant of AgentFails: the loop reports the error and raises it as well.
AgentFailsTwice ==
    /\ Runs({"agent"})
    /\ answer' = [by |-> Node, cites |-> <<>>, read |-> Len(context)]
    /\ usage' = {Node}
    /\ called' = called \cup {Node}
    /\ events' = Emit("error") \o <<[kind |-> "error", by |-> Node]>>
    /\ failed' = TRUE
    /\ phase' = "walked"
    /\ UNCHANGED <<graph, orderVars, at, candidates, selected, context, rounds, aborted, stored>>

\* A raised error or the step limit: the outcome so far is kept, marked failed.
AgentFails ==
    /\ Runs({"agent"})
    /\ answer' = [by |-> Node, cites |-> <<>>, read |-> Len(context)]
    /\ usage' = {Node}
    /\ called' = called \cup {Node}
    /\ \E calls \in BOOLEAN :
         events' = Append(IF calls THEN Emit("tool_call") ELSE events,
                          [kind |-> "error", by |-> Node])
    /\ failed' = TRUE
    /\ phase' = "walked"
    /\ UNCHANGED <<graph, orderVars, at, candidates, selected, context, rounds, aborted, stored>>

(***************************************************************************)
(* Any node may raise before it has changed anything: a provider that      *)
(* cannot be built, an embedding that fails, a query that PostgreSQL       *)
(* refuses, which leaves the transaction aborted.                          *)
(***************************************************************************)
NodeBreaks ==
    /\ Runs(REGISTRY)
    /\ rounds = 0
    /\ aborted' \in IF TypeOf(Node) \in {"fusion", "rerank", "context_builder"}
                    THEN {FALSE} ELSE BOOLEAN
    /\ failed' = TRUE
    /\ events' = Emit("error")
    /\ phase' = "walked"
    /\ UNCHANGED <<graph, orderVars, at, candidates, selected, context, answer, usage,
                   rounds, called, stored>>

(***************************************************************************)
(* test_run writes the row of the run; nothing can be written in an        *)
(* aborted transaction, and the request fails.                             *)
(***************************************************************************)
StoreRun ==
    /\ phase = "walked"
    /\ IF aborted
       THEN phase' = "broke" /\ stored' = stored
       ELSE /\ phase' = "stored"
            /\ stored' = [status    |-> IF failed THEN "failed" ELSE "ok",
                          error     |-> \E i \in DOMAIN events : events[i].kind = "error",
                          citations |-> parse_citations(answer.cites, Len(context), Widest)]
    /\ UNCHANGED <<graph, orderVars, at, turnVars>>

\* A request that ended stays as it is.
Ended == phase \in {"rejected", "stored", "broke"} /\ UNCHANGED vars

Next == \/ Count \/ Pop \/ Ordered \/ Check
        \/ DenseRetriever \/ Bm25Retriever \/ Fuse \/ Rerank \/ BuildContext
        \/ Generate \/ GenerateFails
        \/ AgentCallsTools \/ AgentAnswers \/ AgentFails
        \/ NodeBreaks \/ StoreRun \/ Ended

Spec == Init /\ [][Next]_vars
-----------------------------------------------------------------------------
TypeOK ==
    /\ graph \in Graphs
    /\ phase \in {"new", "ordering", "ordered", "rejected", "running", "walked",
                  "stored", "broke"}
    /\ order \in Seq(Nat)
    /\ at \in Nat \ {0}
    /\ failed \in BOOLEAN /\ aborted \in BOOLEAN
    /\ rounds \in Nat
    /\ context \in Seq([passage : Nat, by : Nat])

\* What a graph has to be to be run, said without an order: no set of nodes
\* feeds itself, the sinks are the generate nodes and there is one, and whatever
\* works on earlier results is fed.
Proper ==
    /\ Cardinality(Ids) = Len(graph.nodes)
    /\ \A e \in Edges : graph.edges[e][1] \in Ids /\ graph.edges[e][2] \in Ids

Acyclic ==
    \A S \in (SUBSET Ids) \ {{}} : \E n \in S : \A e \in Into(n) : graph.edges[e][1] \notin S

Suited ==
    \A n \in Ids : /\ NodeOf(n).cap >= 1
                   /\ OutOf(n) = {} <=> TypeOf(n) = "generate"
                   /\ TypeOf(n) \in ReadsUpstream => Into(n) # {}

Sound == Proper /\ Ids # {} /\ Acyclic /\ Types \subseteq REGISTRY /\ Suited

(***************************************************************************)
(* The editor's graph is accepted exactly when it is sound: neither the    *)
(* counting of edges nor the order of the checks refuses a good graph or   *)
(* lets a bad one be saved.                                                *)
(***************************************************************************)
AcceptsExactlySound ==
    /\ phase = "rejected" => ~ Sound
    /\ phase \in {"running", "walked", "stored", "broke"} => Sound

(***************************************************************************)
(* topological_order: no node is placed before a node that feeds it, so    *)
(* what a node reads from the shared state has been written when it runs.  *)
(***************************************************************************)
OrderRespectsEdges ==
    \A i \in DOMAIN order : \A e \in Edges :
        graph.edges[e][2] = order[i] => \E j \in 1..(i - 1) : order[j] = graph.edges[e][1]

(***************************************************************************)
(* execute: a walk that fails says so exactly once, as the last thing it   *)
(* streams, whichever of the node, the agent loop and the runtime noticed; *)
(* a walk that succeeds never does, and the row of the run agrees.         *)
(***************************************************************************)
Errors == {i \in DOMAIN events : events[i].kind = "error"}
FailureIsTold ==
    /\ phase \in {"walked", "stored", "broke"} =>
         Errors = IF failed THEN {Len(events)} ELSE {}
    /\ phase = "stored" => (stored.status = "failed") = stored.error

(***************************************************************************)
(* Generate: an answer that is stored was written with every packed        *)
(* passage in its prompt, by the node that ran last, and what it is said   *)
(* to cite are different passages of that prompt, from the organization's  *)
(* own documents at or below what the bot reads.                           *)
(***************************************************************************)
MayRead(passage) ==
    LET source == Corpus.sources[Corpus.chunks[passage].source]
    IN  source.org = Org /\ Range(source.path) \cap SourceIds # {}
AnswerReadAll ==
    phase = "stored" /\ stored.status = "ok" =>
        /\ \A i \in DOMAIN context : MayRead(context[i].passage)
        /\ answer.by = order[Len(order)]
        /\ answer.read = Len(context)
        /\ Len(stored.citations) = Cardinality(Range(stored.citations))
        /\ Range(stored.citations) \subseteq 1..answer.read

(***************************************************************************)
(* Fusion: where a fusion ran before a builder and nothing was searched    *)
(* for in between, the builder puts no passage into the prompt twice, and  *)
(* has it paid for twice, however many retrievers found it and wherever a  *)
(* reranker moved it.                                                      *)
(***************************************************************************)
Retrievers == {"retriever_dense", "retriever_bm25"}
FusedBefore(b) ==
    \E f \in 1..(b - 1) : /\ TypeOf(order[f]) = "fusion"
                          /\ \A r \in f..b : TypeOf(order[r]) \notin Retrievers
FusedOnce ==
    \A b \in DOMAIN order : TypeOf(order[b]) = "context_builder" /\ FusedBefore(b) =>
        \A i, j \in DOMAIN context :
            (i # j /\ context[i].by = order[b] /\ context[j].by = order[b]) =>
                context[i].passage # context[j].passage

(***************************************************************************)
(* runtime.execute says of a failing node, a database hiccup included,     *)
(* that it is "never a 500 for the whole request".                         *)
(***************************************************************************)
NeverA500 == phase # "broke"
=============================================================================
