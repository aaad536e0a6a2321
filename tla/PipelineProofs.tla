--------------------------- MODULE PipelineProofs ---------------------------
(***************************************************************************)
(* Proofs about Pipeline for any set of graphs, hits and answers, and, at  *)
(* the end, about Passages for any settings and bounds.                    *)
(***************************************************************************)
EXTENDS Pipeline, Passages, FiniteSetTheorems, SequenceTheorems, WellFoundedInduction, TLAPS

(* While the graph is being ordered, a queued node has no edge left to     *)
(* wait for, and an edge that has been discounted starts at a node already *)
(* placed: with these two every placed node follows those that feed it.    *)
Queued ==
    phase = "ordering" =>
        /\ incoming \in [Ids -> SUBSET Edges]
        /\ since \in [Ids -> Int]
        /\ \A n \in Ids : since[n] >= 0 => incoming[n] = {}
        /\ \A n \in Ids : \A e \in Into(n) \ incoming[n] :
               \E j \in DOMAIN order : order[j] = graph.edges[e][1]

OrderInv ==
    /\ graph \in Graphs
    /\ order \in Seq(Nat)
    /\ phase = "new" => order = <<>>
    /\ Queued
    /\ OrderRespectsEdges

LEMMA IdsAreNaturals == ASSUME graph \in Graphs PROVE Ids \subseteq Nat
<1> DEFINE Record == [id : Nat, type : STRING, cap : Nat]
<1>1. graph.nodes \in Seq(Record)
  BY PipelineAssumption
<1>2. \A r \in Record : r.id \in Nat
  OBVIOUS
<1> HIDE DEF Record
<1>3. \A i \in DOMAIN graph.nodes : graph.nodes[i] \in Record
  BY <1>1
<1>4. QED
  BY <1>2, <1>3 DEF Ids

LEMMA PopStep == OrderInv /\ Pop => OrderInv'
<1> SUFFICES ASSUME OrderInv, Pop PROVE OrderInv'
  OBVIOUS
<1>1. PICK n \in Ready : Pop!2!(n)
  BY DEF Pop
<1>2. /\ phase = "ordering" /\ phase' = phase /\ graph' = graph
      /\ Queued /\ graph \in Graphs /\ order \in Seq(Nat) /\ OrderRespectsEdges
  BY DEF Pop, OrderInv
<1>3. n \in Ids /\ n \in Nat /\ incoming[n] = {}
  BY <1>2, IdsAreNaturals DEF Ready, Queued
<1>4. /\ order' = Append(order, n) /\ order' \in Seq(Nat)
      /\ Len(order') = Len(order) + 1 /\ order'[Len(order) + 1] = n
      /\ \A i \in DOMAIN order : order'[i] = order[i]
      /\ DOMAIN order = 1..Len(order) /\ DOMAIN order' = 1..(Len(order) + 1)
      /\ Len(order) \in Nat
  BY <1>1, <1>2, <1>3
<1>5. Ids' = Ids /\ Edges' = Edges /\ \A t : Into(t)' = Into(t) /\ OutOf(t)' = OutOf(t)
  BY <1>2 DEF Ids, Edges, Into, OutOf
<1>6. incoming' \in [Ids -> SUBSET Edges]
  BY <1>1, <1>2 DEF Queued
<1>7. since' \in [Ids -> Int]
  BY <1>1, <1>2, <1>4 DEF Queued
<1>8. ASSUME NEW t \in Ids, since'[t] >= 0 PROVE incoming'[t] = {}
  <2>1. t # n
    BY <1>1, <1>8
  <2>2. CASE incoming[t] # {} /\ incoming[t] \subseteq OutOf(n)
    BY <1>1, <2>2
  <2>3. CASE ~ (incoming[t] # {} /\ incoming[t] \subseteq OutOf(n))
    <3>1. since'[t] = since[t]
      BY <1>1, <2>1, <2>3
    <3>2. incoming[t] = {}
      BY <1>2, <1>8, <3>1 DEF Queued
    <3>3. QED
      BY <1>1, <3>2
  <2>4. QED
    BY <2>2, <2>3
<1>9. ASSUME NEW t \in Ids, NEW e \in Into(t), e \notin incoming'[t]
      PROVE \E j \in DOMAIN order' : order'[j] = graph.edges[e][1]
  <2>1. CASE e \in OutOf(n)
    <3>1. graph.edges[e][1] = n
      BY <2>1 DEF OutOf
    <3>2. Len(order) + 1 \in DOMAIN order'
      BY <1>4
    <3>3. QED
      BY <1>4, <3>1, <3>2
  <2>2. CASE e \notin OutOf(n)
    <3>1. e \notin incoming[t]
      BY <1>1, <1>9, <2>2
    <3>2. PICK j \in DOMAIN order : order[j] = graph.edges[e][1]
      BY <1>2, <3>1 DEF Queued
    <3>3. QED
      BY <1>4, <3>2
  <2>3. QED
    BY <2>1, <2>2
<1>10. OrderRespectsEdges'
  <2> SUFFICES ASSUME NEW i \in DOMAIN order', NEW e \in Edges, graph.edges[e][2] = order'[i]
               PROVE \E j \in 1..(i - 1) : order'[j] = graph.edges[e][1]
    BY <1>2, <1>5 DEF OrderRespectsEdges
  <2>1. CASE i \in DOMAIN order
    <3>1. PICK j \in 1..(i - 1) : order[j] = graph.edges[e][1]
      BY <1>2, <1>4, <2>1 DEF OrderRespectsEdges
    <3>2. j \in DOMAIN order
      BY <1>4, <2>1
    <3>3. QED
      BY <1>4, <3>1, <3>2
  <2>2. CASE i = Len(order) + 1
    <3>1. e \in Into(n) \ incoming[n]
      BY <1>3, <1>4, <2>2 DEF Into
    <3>2. PICK j \in DOMAIN order : order[j] = graph.edges[e][1]
      BY <1>2, <1>3, <3>1 DEF Queued
    <3>3. j \in 1..(i - 1)
      BY <1>4, <2>2
    <3>4. QED
      BY <1>4, <3>2, <3>3
  <2>3. QED
    BY <1>4, <2>1, <2>2
<1>11. Queued'
  BY <1>2, <1>5, <1>6, <1>7, <1>8, <1>9 DEF Queued
<1>12. QED
  BY <1>2, <1>4, <1>10, <1>11 DEF OrderInv

(* Once the graph is ordered, or refused, the order is left alone. *)
LEMMA LeftAlone ==
    ASSUME OrderInv, UNCHANGED <<graph, orderVars>>, phase' \notin {"new", "ordering"}
    PROVE  OrderInv'
  BY DEF OrderInv, Queued, OrderRespectsEdges, orderVars, Edges

LEMMA OrderStep == OrderInv /\ [Next]_vars => OrderInv'
<1> SUFFICES ASSUME OrderInv, [Next]_vars PROVE OrderInv'
  OBVIOUS
<1>1. CASE Count
  <2> SUFFICES Queued'
    BY <1>1 DEF Count, OrderInv, OrderRespectsEdges, Edges
  <2> SUFFICES ASSUME phase' = "ordering" PROVE Queued'
    BY DEF Queued
  <2>1. /\ graph' = graph /\ incoming' = [n \in Ids |-> Into(n)]
        /\ since' = [n \in Ids |-> IF Into(n) = {} THEN 0 ELSE -1]
    BY <1>1 DEF Count
  <2>2. Ids' = Ids /\ Edges' = Edges /\ \A t : Into(t)' = Into(t)
    BY <2>1 DEF Ids, Edges, Into
  <2>3. \A n \in Ids : Into(n) \in SUBSET Edges
    BY DEF Into
  <2>4. QED
    BY <2>1, <2>2, <2>3 DEF Queued
<1>2. CASE Pop
  BY <1>2, PopStep
<1>3. CASE Ordered
  BY <1>3, LeftAlone DEF Ordered
<1>4. CASE Check
  BY <1>4, LeftAlone DEF Check
<1>5. CASE DenseRetriever \/ Bm25Retriever
  BY <1>5, LeftAlone DEF DenseRetriever, Bm25Retriever, Finds, Done
<1>6. CASE Fuse
  BY <1>6, LeftAlone DEF Fuse, Done
<1>7. CASE Rerank
  BY <1>7, LeftAlone DEF Rerank, Done
<1>8. CASE BuildContext
  BY <1>8, LeftAlone DEF BuildContext, Done
<1>9. CASE Generate
  BY <1>9, LeftAlone DEF Generate, Done
<1>10. CASE GenerateFails
  BY <1>10, LeftAlone DEF GenerateFails
<1>11. CASE AgentCallsTools
  BY <1>11, LeftAlone DEF AgentCallsTools, Runs
<1>12. CASE AgentAnswers
  BY <1>12, LeftAlone DEF AgentAnswers, Done
<1>13. CASE AgentFails
  BY <1>13, LeftAlone DEF AgentFails
<1>14. CASE NodeBreaks
  BY <1>14, LeftAlone DEF NodeBreaks
<1>15. CASE StoreRun
  BY <1>15, LeftAlone DEF StoreRun
<1>16. CASE UNCHANGED vars
  <2>1. UNCHANGED <<graph, phase, incoming, since, order>>
    BY <1>16 DEF vars, orderVars
  <2>2. Ids' = Ids /\ Edges' = Edges /\ \A t : Into(t)' = Into(t)
    BY <2>1 DEF Ids, Edges, Into
  <2>3. QED
    BY <2>1, <2>2 DEF OrderInv, Queued, OrderRespectsEdges
<1>17. QED
  BY <1>1, <1>2, <1>3, <1>4, <1>5, <1>6, <1>7, <1>8, <1>9, <1>10, <1>11, <1>12, <1>13,
     <1>14, <1>15, <1>16 DEF Next, Ended

LEMMA OrderInit == Init => OrderInv
  BY DEF Init, OrderInv, Queued, OrderRespectsEdges

(***************************************************************************)
(* topological_order: whatever graph is sent, no node is ever placed       *)
(* before a node that feeds it.                                            *)
(***************************************************************************)
THEOREM OrderTheorem == Spec => []OrderRespectsEdges
<1>1. OrderInv => OrderRespectsEdges
  BY DEF OrderInv
<1>2. QED
  BY OrderInit, OrderStep, <1>1, PTL DEF Spec
-----------------------------------------------------------------------------
(* A walk that goes on has not failed and has reported no error; the step  *)
(* that fails it appends the one error event and ends it.                  *)
Kinds == {"sources", "tool_call", "tool_result", "token", "error"}
Event == [kind : Kinds, by : Nat]
Before == {"new", "ordering", "ordered", "rejected"}

FailureInv ==
    /\ events \in Seq(Event)
    /\ failed \in BOOLEAN
    /\ phase \in Before => at = 1
    /\ phase \in Before \cup {"running"} => ~ failed
    /\ phase = "running" => at \in 1..Len(order)
    /\ Errors = IF failed THEN {Len(events)} ELSE {}
    /\ phase = "stored" => (stored.status = "failed") = stored.error

WalkInv == OrderInv /\ FailureInv

LEMMA NodeIsNatural == WalkInv /\ phase = "running" => Node \in Nat
  BY DEF WalkInv, OrderInv, FailureInv, Node

(* What appending to the stream does to the errors in it. *)
LEMMA AppendEvent ==
    ASSUME NEW s \in Seq(Event), NEW e \in Event
    PROVE  /\ Append(s, e) \in Seq(Event)
           /\ Len(Append(s, e)) = Len(s) + 1
           /\ {i \in DOMAIN Append(s, e) : Append(s, e)[i].kind = "error"} =
                {i \in DOMAIN s : s[i].kind = "error"}
                    \cup (IF e.kind = "error" THEN {Len(s) + 1} ELSE {})
<1> DEFINE a == Append(s, e)
<1>1. /\ a \in Seq(Event) /\ Len(a) = Len(s) + 1 /\ a[Len(s) + 1] = e
      /\ DOMAIN s = 1..Len(s) /\ DOMAIN a = 1..(Len(s) + 1) /\ Len(s) \in Nat
      /\ \A i \in 1..Len(s) : a[i] = s[i]
  OBVIOUS
<1> HIDE DEF a
<1>2. {i \in DOMAIN a : a[i].kind = "error"} =
        {i \in DOMAIN s : s[i].kind = "error"}
            \cup (IF e.kind = "error" THEN {Len(s) + 1} ELSE {})
  <2>1. 1..(Len(s) + 1) = 1..Len(s) \cup {Len(s) + 1}
    BY <1>1
  <2>2. QED
    BY <1>1, <2>1
<1>3. QED
  BY <1>1, <1>2 DEF a

(* A step of the walk that streams nothing, or something that is no error. *)
LEMMA WalkGoesOn ==
    ASSUME FailureInv, phase = "running", failed' = failed, stored' = stored, order' = order,
           \/ phase' = phase /\ at' = at
           \/ Done,
           events' \in Seq(Event), Errors' = Errors
    PROVE  FailureInv'
<1>1. order' = order /\ ~ failed /\ Errors = {} /\ at \in 1..Len(order) /\ Len(order) \in Nat
  BY DEF FailureInv
<1>2. phase' \in {"running", "walked"} /\ (phase' = "running" => at' \in 1..Len(order))
  BY <1>1 DEF Done
<1>3. QED
  BY <1>1, <1>2 DEF FailureInv, Before

(* A step that ends the walk with an error. *)
LEMMA WalkFails ==
    ASSUME WalkInv, phase = "running", failed' = TRUE, phase' = "walked",
           NEW s \in Seq(Event), {i \in DOMAIN s : s[i].kind = "error"} = {},
           NEW n \in Nat, events' = Append(s, [kind |-> "error", by |-> n])
    PROVE  FailureInv'
<1> DEFINE e == [kind |-> "error", by |-> n]
<1>0. e \in Event /\ e.kind = "error"
  BY DEF Event, Kinds
<1>1. e \in Event /\ e.kind = "error" /\ events' = Append(s, e)
  BY <1>0
<1> HIDE DEF e
<1>2. /\ events' \in Seq(Event) /\ Len(events') = Len(s) + 1
      /\ {i \in DOMAIN events' : events'[i].kind = "error"} = {Len(s) + 1}
  BY <1>1, AppendEvent
<1>3. events' \in Seq(Event) /\ Errors' = {Len(events')}
  BY <1>2 DEF Errors
<1>4. QED
  BY <1>3 DEF FailureInv, Before

(* What a node streams that is no error leaves the errors as they were. *)
LEMMA StreamsOn ==
    ASSUME WalkInv, phase = "running", NEW kind \in Kinds, kind # "error"
    PROVE  /\ Emit(kind) \in Seq(Event)
           /\ {i \in DOMAIN Emit(kind) : Emit(kind)[i].kind = "error"} = {}
           /\ [kind |-> kind, by |-> Node] \in Event
<1> DEFINE e == [kind |-> kind, by |-> Node]
<1>1. e \in Event /\ e.kind # "error" /\ Emit(kind) = Append(events, e)
  BY NodeIsNatural DEF Event, Emit
<1>2. events \in Seq(Event) /\ Errors = {}
  BY DEF WalkInv, FailureInv
<1> HIDE DEF e
<1>3. /\ Emit(kind) \in Seq(Event)
      /\ {i \in DOMAIN Emit(kind) : Emit(kind)[i].kind = "error"} = {}
  BY <1>1, <1>2, AppendEvent DEF Errors
<1>4. QED
  BY <1>1, <1>3 DEF e

LEMMA FailureStep == WalkInv /\ [Next]_vars => FailureInv'
<1> SUFFICES ASSUME WalkInv, [Next]_vars PROVE FailureInv'
  OBVIOUS
<1>a. FailureInv /\ OrderInv
  BY DEF WalkInv
<1>b. ASSUME UNCHANGED <<order, events, failed, stored>>, phase = "running",
             (phase' = phase /\ at' = at) \/ Done
      PROVE  FailureInv'
  <2>1. events' \in Seq(Event) /\ Errors' = Errors
    BY <1>a, <1>b DEF FailureInv, Errors
  <2>2. QED
    BY <1>a, <1>b, <2>1, WalkGoesOn
<1>c. ASSUME NEW kind \in Kinds, kind # "error", phase = "running", events' = Emit(kind),
             UNCHANGED <<order, failed, stored>>, Done
      PROVE  FailureInv'
  <2>1. events' \in Seq(Event) /\ Errors' = {}
    BY <1>c, StreamsOn DEF Errors
  <2>2. Errors = {}
    BY <1>a, <1>c DEF FailureInv
  <2>3. QED
    BY <1>a, <1>c, <2>1, <2>2, WalkGoesOn
<1>d. ASSUME phase = "running", failed' = TRUE, phase' = "walked", events' = Emit("error")
      PROVE  FailureInv'
  <2>1. Node \in Nat /\ events \in Seq(Event) /\ {i \in DOMAIN events : events[i].kind = "error"} = {}
    BY <1>a, <1>d, NodeIsNatural DEF FailureInv, Errors
  <2>2. QED
    BY <1>d, <2>1, WalkFails DEF Emit
<1>e. ASSUME phase = "running", failed' = TRUE, phase' = "walked",
             NEW kind \in Kinds, kind # "error", NEW streamed \in BOOLEAN,
             events' = Append(IF streamed THEN Emit(kind) ELSE events,
                              [kind |-> "error", by |-> Node])
      PROVE  FailureInv'
  <2>1. Node \in Nat /\ events \in Seq(Event) /\ {i \in DOMAIN events : events[i].kind = "error"} = {}
    BY <1>a, <1>e, NodeIsNatural DEF FailureInv, Errors
  <2>2. CASE streamed
    <3>1. /\ Emit(kind) \in Seq(Event)
          /\ {i \in DOMAIN Emit(kind) : Emit(kind)[i].kind = "error"} = {}
      BY <1>e, StreamsOn
    <3>2. events' = Append(Emit(kind), [kind |-> "error", by |-> Node])
      BY <1>e, <2>2
    <3>3. QED
      BY <1>e, <2>1, <3>1, <3>2, WalkFails
  <2>3. CASE ~ streamed
    BY <1>e, <2>1, <2>3, WalkFails
  <2>4. QED
    BY <2>2, <2>3
<1>1. CASE Count
  BY <1>1, <1>a DEF Count, FailureInv, Before, Errors, turnVars, stateVars
<1>2. CASE Pop
  BY <1>2, <1>a DEF Pop, FailureInv, Before, Errors, turnVars, stateVars
<1>3. CASE Ordered
  BY <1>3, <1>a DEF Ordered, FailureInv, Before, Errors, turnVars, stateVars
<1>4. CASE Check
  <2>1. order # <<>> => 1 \in 1..Len(order)
    BY <1>a DEF OrderInv
  <2>2. phase' = "running" => order # <<>>
    BY <1>4 DEF Check, validate_dag
  <2>3. UNCHANGED <<events, failed, at, order, stored>> /\ phase = "ordered"
        /\ phase' \in {"running", "rejected"}
    BY <1>4 DEF Check, turnVars, stateVars, orderVars
  <2>4. QED
    BY <1>a, <2>1, <2>2, <2>3 DEF FailureInv, Before, Errors
<1>5. CASE DenseRetriever \/ Bm25Retriever
  BY <1>5, <1>b DEF DenseRetriever, Bm25Retriever, Finds, Runs, orderVars
<1>6. CASE Fuse
  BY <1>6, <1>b DEF Fuse, Runs, orderVars
<1>7. CASE Rerank
  BY <1>7, <1>b DEF Rerank, Runs, orderVars
<1>8. CASE BuildContext
  <2>1. CASE events' = events
    BY <1>8, <1>b, <2>1 DEF BuildContext, Runs, orderVars
  <2>2. CASE events' = Emit("sources")
    <3>1. "sources" \in Kinds /\ "sources" # "error"
      BY DEF Kinds
    <3>2. phase = "running" /\ UNCHANGED <<order, failed, stored>> /\ Done
      BY <1>8 DEF BuildContext, Runs, orderVars
    <3>3. QED
      BY <1>c, <2>2, <3>1, <3>2
  <2>3. QED
    BY <1>8, <2>1, <2>2 DEF BuildContext
<1>9. CASE Generate
  <2>1. "token" \in Kinds /\ "token" # "error"
    BY DEF Kinds
  <2>2. /\ phase = "running" /\ UNCHANGED <<order, failed, stored>> /\ Done
        /\ events' = Emit("token")
    BY <1>9 DEF Generate, Answers, Runs, orderVars
  <2>3. QED
    BY <1>c, <2>1, <2>2
<1>10. CASE GenerateFails
  <2>1. PICK streamed \in BOOLEAN :
          events' = Append(IF streamed THEN Emit("token") ELSE events,
                           [kind |-> "error", by |-> Node])
    BY <1>10 DEF GenerateFails
  <2>2. phase = "running" /\ failed' = TRUE /\ phase' = "walked"
    BY <1>10 DEF GenerateFails, Runs
  <2>3. "token" \in Kinds /\ "token" # "error"
    BY DEF Kinds
  <2>4. QED
    BY <2>1, <2>2, <2>3, <1>e
<1>11. CASE AgentCallsTools
  <2>1. /\ phase = "running" /\ UNCHANGED <<phase, at, order, failed, stored>>
        /\ events' = Emit("tool_call") \o <<[kind |-> "tool_result", by |-> Node]>>
    BY <1>11 DEF AgentCallsTools, Runs, orderVars, stateVars
  <2> DEFINE s == Emit("tool_call")
             e == [kind |-> "tool_result", by |-> Node]
  <2>2. /\ Emit("tool_call") \in Seq(Event)
        /\ {i \in DOMAIN Emit("tool_call") : Emit("tool_call")[i].kind = "error"} = {}
    <3>1. "tool_call" \in Kinds /\ "tool_call" # "error"
      BY DEF Kinds
    <3>2. QED
      BY <2>1, <3>1, StreamsOn
  <2>3. e \in Event /\ e.kind # "error"
    <3>1. "tool_result" \in Kinds /\ "tool_result" # "error"
      BY DEF Kinds
    <3>2. Node \in Nat
      BY <2>1, NodeIsNatural
    <3>3. QED
      BY <3>1, <3>2 DEF Event
  <2> HIDE DEF s, e
  <2>4. events' = Append(s, e)
    BY <2>1, <2>2, <2>3 DEF s, e
  <2>5. s \in Seq(Event) /\ {i \in DOMAIN s : s[i].kind = "error"} = {}
    BY <2>2 DEF s
  <2>6. events' \in Seq(Event) /\ Errors' = {}
    BY <2>3, <2>4, <2>5, AppendEvent DEF Errors
  <2>7. QED
    BY <1>a, <2>1, <2>6, WalkGoesOn DEF FailureInv
<1>12. CASE AgentAnswers
  <2>1. "token" \in Kinds /\ "token" # "error"
    BY DEF Kinds
  <2>2. /\ phase = "running" /\ UNCHANGED <<order, failed, stored>> /\ Done
        /\ events' = Emit("token")
    BY <1>12 DEF AgentAnswers, Answers, Runs, orderVars
  <2>3. QED
    BY <1>c, <2>1, <2>2
<1>13. CASE AgentFails
  <2>1. PICK calls \in BOOLEAN :
          events' = Append(IF calls THEN Emit("tool_call") ELSE events,
                           [kind |-> "error", by |-> Node])
    BY <1>13 DEF AgentFails
  <2>2. phase = "running" /\ failed' = TRUE /\ phase' = "walked"
    BY <1>13 DEF AgentFails, Runs
  <2>3. "tool_call" \in Kinds /\ "tool_call" # "error"
    BY DEF Kinds
  <2>4. QED
    BY <2>1, <2>2, <2>3, <1>e
<1>14. CASE NodeBreaks
  BY <1>14, <1>d DEF NodeBreaks, Runs
<1>15. CASE StoreRun
  <2>a. /\ phase = "walked" /\ UNCHANGED <<events, failed, at, order>>
        /\ phase' \in {"broke", "stored"}
    BY <1>15 DEF StoreRun, turnVars, stateVars, orderVars
  <2>b. ASSUME phase' = "stored"
        PROVE  /\ stored'.status = (IF failed THEN "failed" ELSE "ok")
               /\ stored'.error = (\E i \in DOMAIN events : events[i].kind = "error")
    <3> DEFINE told  == \E i \in DOMAIN events : events[i].kind = "error"
               cited == parse_citations(answer.cites, Len(context), Widest)
    <3>1. stored' = [status |-> IF failed THEN "failed" ELSE "ok",
                     error |-> told, citations |-> cited]
      BY <1>15, <2>b DEF StoreRun
    <3> HIDE DEF told, cited
    <3>2. stored'.status = (IF failed THEN "failed" ELSE "ok") /\ stored'.error = told
      BY <3>1
    <3>3. QED
      BY <3>2 DEF told
  <2>c. (Errors # {}) = (\E i \in DOMAIN events : events[i].kind = "error")
    BY DEF Errors
  <2>1. /\ phase = "walked" /\ UNCHANGED <<events, failed, at, order>>
        /\ phase' \in {"broke", "stored"}
        /\ phase' = "stored" => /\ stored'.status = (IF failed THEN "failed" ELSE "ok")
                                /\ stored'.error = (Errors # {})
    BY <2>a, <2>b, <2>c
  <2>2. (Errors # {}) = failed
    BY <1>a DEF FailureInv
  <2>3. phase' = "stored" => (stored'.status = "failed") = stored'.error
    BY <2>1, <2>2
  <2>4. QED
    BY <1>a, <2>1, <2>3 DEF FailureInv, Before, Errors
<1>16. CASE UNCHANGED vars
  BY <1>16, <1>a DEF vars, turnVars, stateVars, orderVars, FailureInv, Before, Errors
<1>17. QED
  BY <1>1, <1>2, <1>3, <1>4, <1>5, <1>6, <1>7, <1>8, <1>9, <1>10, <1>11, <1>12, <1>13,
     <1>14, <1>15, <1>16 DEF Next, Ended

(***************************************************************************)
(* execute: whatever the graph and wherever the failure, a walk that fails *)
(* streams exactly one error, last, and the row of the run says failed     *)
(* exactly when it carries an error.                                       *)
(***************************************************************************)
THEOREM FailureTheorem == Spec => []FailureIsTold
<1>1. Init => WalkInv
  <2> SUFFICES ASSUME Init PROVE FailureInv
    BY OrderInit DEF WalkInv
  <2>1. events = <<>> /\ failed = FALSE /\ phase = "new" /\ at = 1
    BY DEF Init
  <2>2. events \in Seq(Event) /\ Errors = {}
    BY <2>1 DEF Errors
  <2>3. QED
    BY <2>1, <2>2 DEF FailureInv, Before
<1>2. WalkInv /\ [Next]_vars => WalkInv'
  BY OrderStep, FailureStep DEF WalkInv
<1>3. WalkInv => FailureIsTold
  BY DEF WalkInv, FailureInv, FailureIsTold
<1>4. QED
  BY <1>1, <1>2, <1>3, PTL DEF Spec
-----------------------------------------------------------------------------
(***************************************************************************)
(* Acceptance: what is ordered has no cycle, what cannot be ordered has.   *)
(***************************************************************************)
Placed == {order[i] : i \in DOMAIN order}

\* A node is in the order once; while it is not, the edges it waits for are
\* those from nodes that are not either, and it is queued when there is none.
Counted ==
    phase = "ordering" =>
        /\ Proper
        /\ \A n \in Ids : /\ incoming[n] = {e \in Into(n) : graph.edges[e][1] \notin Placed}
                          /\ since[n] >= 0 <=> (incoming[n] = {} /\ n \notin Placed)

Accepted == {"ordered", "running", "walked", "stored", "broke"}

SoundInv ==
    /\ Placed \subseteq Ids
    /\ \A i, j \in DOMAIN order : i # j => order[i] # order[j]
    /\ Counted
    /\ phase \in Accepted => Proper /\ Placed = Ids
    /\ AcceptsExactlySound

LEMMA Least ==
  ASSUME NEW T \in SUBSET Nat, T # {}
  PROVE  \E n \in T : \A m \in T : n <= m
<1> DEFINE R == OpToRel(<, Nat)
<1>1. \A m, n \in Nat : <<m, n>> \in R <=> m < n
  BY DEF OpToRel
<1>2. IsWellFoundedOn(R, Nat)
  BY NatLessThanWellFounded
<1> HIDE DEF R
<1>3. PICK n \in T : \A m \in T : <<m, n>> \notin R
  BY <1>2, WFMin
<1>4. \A m \in T : ~ (m < n)
  BY <1>1, <1>3
<1> QED  BY <1>4

LEMMA IdsAreFinite == ASSUME graph \in Graphs  PROVE IsFiniteSet(Ids)
<1>1. PICK n \in Nat : DOMAIN graph.nodes = 1..n
  BY PipelineAssumption
<1>2. [i \in 1..n |-> graph.nodes[i].id] \in Surjection(1..n, Ids)
  BY <1>1 DEF Ids, Surjection
<1>3. IsFiniteSet(1..n)
  BY FS_Interval
<1> QED  BY <1>2, <1>3, FS_Surjection

(* Everything is placed exactly when as many are placed as there are nodes. *)
LEMMA AllPlaced ==
  ASSUME OrderInv, Placed \subseteq Ids, \A i, j \in DOMAIN order : i # j => order[i] # order[j]
  PROVE  Len(order) = Cardinality(Ids) <=> Placed = Ids
<1>1. PICK n \in Nat : n = Len(order) /\ DOMAIN order = 1..n /\ order \in [1..n -> Ids]
  BY DEF OrderInv, Placed
<1>2. order \in Injection(1..n, Ids)
  BY <1>1 DEF Injection, IsInjective
<1>3. IsFiniteSet(Ids)
  BY IdsAreFinite DEF OrderInv
<1>4. IsFiniteSet(1..n) /\ Cardinality(1..n) = n
  BY FS_Interval
<1>5. n = Cardinality(Ids) <=> order \in Surjection(1..n, Ids)
  BY <1>2, <1>3, <1>4, FS_Injection
<1>6. order \in Surjection(1..n, Ids) <=> Placed = Ids
  BY <1>1 DEF Surjection, Placed
<1> QED  BY <1>1, <1>5, <1>6

LEMMA OrderedIsAcyclic == ASSUME OrderInv, Placed = Ids  PROVE Acyclic
<1> SUFFICES ASSUME NEW S \in (SUBSET Ids) \ {{}}
             PROVE  \E n \in S : \A e \in Into(n) : graph.edges[e][1] \notin S
  BY DEF Acyclic
<1>0. S \subseteq Ids /\ S # {}
  OBVIOUS
<1> DEFINE T == {i \in DOMAIN order : order[i] \in S}
<1>1. DOMAIN order = 1..Len(order) /\ Len(order) \in Nat
  BY DEF OrderInv
<1>2. T # {} /\ T \in SUBSET Nat
  BY <1>0, <1>1 DEF Placed
<1>3. PICK i \in T : \A j \in T : i <= j
  BY <1>2, Least
<1>4. ASSUME NEW e \in Into(order[i]), graph.edges[e][1] \in S  PROVE FALSE
  <2>1. e \in Edges /\ graph.edges[e][2] = order[i]
    BY DEF Into
  <2>2. PICK j \in 1..(i - 1) : order[j] = graph.edges[e][1]
    BY <2>1 DEF OrderInv, OrderRespectsEdges
  <2>3. j \in T /\ j < i
    BY <1>1, <1>4, <2>2
  <2> QED  BY <1>1, <1>3, <2>3
<1> QED  BY <1>3, <1>4

LEMMA StuckIsCyclic ==
  ASSUME OrderInv, SoundInv, phase = "ordering", Ready = {}, Placed # Ids
  PROVE  ~ Acyclic
<1> DEFINE S == Ids \ Placed
<1>1. S \in (SUBSET Ids) \ {{}}
  <2>1. S # {} /\ S \subseteq Ids
    BY DEF SoundInv
  <2> QED  BY <2>1
<1>2. ASSUME NEW n \in S
      PROVE  \E e \in Into(n) : graph.edges[e][1] \in S
  <2>1. ~ (since[n] >= 0)
    BY <1>2 DEF Ready, OrderInv, Queued
  <2>2. incoming[n] # {}
    BY <1>2, <2>1 DEF SoundInv, Counted
  <2>3. PICK e \in Into(n) : graph.edges[e][1] \notin Placed
    BY <1>2, <2>2 DEF SoundInv, Counted
  <2>4. graph.edges[e][1] \in Ids
    BY DEF Into, SoundInv, Counted, Proper
  <2> QED  BY <2>3, <2>4
<1> QED  BY <1>1, <1>2 DEF Acyclic

(* Nothing leads on from the last node: what it led to would be placed     *)
(* behind it.                                                              *)
LEMMA LastIsSink ==
  ASSUME OrderInv, Proper, Placed = Ids, \A i, j \in DOMAIN order : i # j => order[i] # order[j],
         order # <<>>
  PROVE  order[Len(order)] \in Ids /\ OutOf(order[Len(order)]) = {}
<1>1. Len(order) \in Nat \ {0} /\ DOMAIN order = 1..Len(order)
  BY DEF OrderInv
<1>2. ASSUME NEW e \in OutOf(order[Len(order)])  PROVE FALSE
  <2>1. e \in Edges /\ graph.edges[e][1] = order[Len(order)] /\ graph.edges[e][2] \in Ids
    BY DEF OutOf, Proper
  <2>2. PICK i \in DOMAIN order : order[i] = graph.edges[e][2]
    BY <2>1 DEF Placed
  <2>3. PICK j \in 1..(i - 1) : order[j] = graph.edges[e][1]
    BY <2>1, <2>2 DEF OrderInv, OrderRespectsEdges
  <2>4. i \in Nat /\ i <= Len(order) /\ j \in Nat /\ 1 <= j /\ j < i
    BY <1>1, <2>2, <2>3
  <2>5. j \in DOMAIN order /\ j # Len(order) /\ Len(order) \in DOMAIN order
    <3>1. PICK n : n = Len(order) /\ n \in Nat \ {0} /\ DOMAIN order = 1..n
      BY <1>1
    <3> QED  BY <2>4, <3>1
  <2>6. order[j] = order[Len(order)]
    BY <2>1, <2>3
  <2> QED  BY <2>5, <2>6
<1> QED  BY <1>1, <1>2 DEF Placed

LEMMA CheckedIsSound ==
  ASSUME OrderInv, SoundInv, phase = "ordered"
  PROVE  validate_dag <=> Sound
<1>1. /\ Proper /\ Placed = Ids
      /\ \A i, j \in DOMAIN order : i # j => order[i] # order[j]
  BY DEF SoundInv, Accepted
<1>2. Acyclic
  BY <1>1, OrderedIsAcyclic
<1>3. order # <<>> <=> Ids # {}
  <2>1. Len(order) \in Nat /\ DOMAIN order = 1..Len(order) /\ (order = <<>> <=> Len(order) = 0)
    BY EmptySeq DEF OrderInv
  <2>2. Ids # {} <=> DOMAIN order # {}
    BY <1>1 DEF Placed
  <2> QED  BY <2>1, <2>2
<1>4. ASSUME Sound  PROVE validate_dag
  <2>1. order # <<>>
    BY <1>3, <1>4 DEF Sound, Suited
  <2>2. order[Len(order)] \in Ids /\ OutOf(order[Len(order)]) = {}
    BY <1>1, <2>1, LastIsSink
  <2>3. TypeOf(order[Len(order)]) = "generate"
    BY <1>4, <2>2 DEF Sound, Suited
  <2>4. Connected
    BY <1>4 DEF Sound, Suited, Connected, Terminal
  <2> QED  BY <1>4, <2>1, <2>2, <2>3, <2>4 DEF Sound, Suited, validate_dag
<1>5. ASSUME validate_dag  PROVE Sound
  <2>1. \A n \in Ids : /\ NodeOf(n).cap >= 1
                       /\ OutOf(n) = {} <=> TypeOf(n) = "generate"
                       /\ TypeOf(n) \in ReadsUpstream => Into(n) # {}
    BY <1>5 DEF validate_dag, Connected, Terminal
  <2>2. Ids # {} /\ Types \subseteq REGISTRY
    BY <1>3, <1>5 DEF validate_dag
  <2> QED  BY <1>1, <1>2, <2>1, <2>2 DEF Sound, Suited
<1> QED  BY <1>4, <1>5

(* What is said of a graph is said of it as long as it is the same. *)
LEMMA SameGraph ==
  ASSUME graph' = graph
  PROVE  /\ Ids' = Ids /\ Edges' = Edges /\ Types' = Types
         /\ \A n : Into(n)' = Into(n) /\ OutOf(n)' = OutOf(n)
         /\ Proper' = Proper /\ Sound' = Sound
<1>1. /\ Ids' = Ids /\ Edges' = Edges /\ Types' = Types
      /\ \A n : Into(n)' = Into(n) /\ OutOf(n)' = OutOf(n)
  BY DEF Ids, Edges, Into, OutOf, Types
<1>2. Proper' = Proper
  BY <1>1 DEF Proper
<1>3. Suited' = Suited
  <2>1. \A n : NodeOf(n)' = NodeOf(n) /\ TypeOf(n)' = TypeOf(n)
    BY DEF NodeOf, TypeOf
  <2> QED  BY <1>1, <2>1 DEF Suited
<1>4. Acyclic' = Acyclic
  BY <1>1 DEF Acyclic
<1>5. Sound' = Sound
  BY <1>1, <1>2, <1>3, <1>4 DEF Sound
<1> QED  BY <1>1, <1>2, <1>5

LEMMA CountSound == ASSUME OrderInv, SoundInv, Count  PROVE SoundInv'
<1>1. graph' = graph /\ order' = order /\ phase = "new" /\ order = <<>>
  BY DEF Count, OrderInv
<1>2. Placed = {} /\ Placed' = {} /\ DOMAIN order' = {}
  BY <1>1 DEF Placed
<1>3. CASE Proper
  <2>1. /\ phase' = "ordering" /\ incoming' = [n \in Ids |-> Into(n)]
        /\ since' = [n \in Ids |-> IF Into(n) = {} THEN 0 ELSE -1]
    <3>1. /\ Cardinality(Ids) = Len(graph.nodes)
          /\ \A e \in Edges : {graph.edges[e][1], graph.edges[e][2]} \subseteq Ids
      BY <1>3 DEF Proper
    <3> QED  BY <3>1 DEF Count
  <2>2. ASSUME NEW n \in Ids
        PROVE  /\ incoming'[n] = {e \in Into(n) : graph.edges[e][1] \notin Placed'}
               /\ since'[n] >= 0 <=> (incoming'[n] = {} /\ n \notin Placed')
    BY <1>2, <2>1
  <2>3. Counted'
    BY <1>1, <1>3, <2>2, SameGraph DEF Counted
  <2> QED  BY <1>1, <1>2, <2>1, <2>3 DEF SoundInv, Accepted, AcceptsExactlySound
<1>4. CASE ~ Proper
  <2>1. phase' = "rejected"
    BY <1>4 DEF Count, Proper
  <2>2. ~ Sound'
    BY <1>1, <1>4, SameGraph DEF Sound, Suited
  <2> QED  BY <1>1, <1>2, <2>1, <2>2 DEF SoundInv, Counted, Accepted, AcceptsExactlySound
<1> QED  BY <1>3, <1>4

LEMMA PopSound == ASSUME OrderInv, SoundInv, Pop  PROVE SoundInv'
<1>1. PICK n \in Ready : Pop!2!(n)
  BY DEF Pop
<1>2. /\ phase = "ordering" /\ phase' = phase /\ graph' = graph /\ order \in Seq(Nat)
      /\ graph \in Graphs
  BY DEF Pop, OrderInv
<1>3. /\ incoming \in [Ids -> SUBSET Edges] /\ since \in [Ids -> Int]
      /\ \A t \in Ids : /\ incoming[t] = {e \in Into(t) : graph.edges[e][1] \notin Placed}
                        /\ since[t] >= 0 <=> (incoming[t] = {} /\ t \notin Placed)
  BY <1>2 DEF OrderInv, Queued, SoundInv, Counted
<1>4. n \in Ids /\ since[n] >= 0 /\ incoming[n] = {} /\ n \notin Placed /\ n \in Nat
  BY <1>2, <1>3, IdsAreNaturals DEF Ready
<1>5. /\ DOMAIN order = 1..Len(order) /\ DOMAIN order' = 1..(Len(order) + 1) /\ Len(order) \in Nat
      /\ order'[Len(order) + 1] = n /\ \A i \in 1..Len(order) : order'[i] = order[i]
  BY <1>1, <1>2, <1>4
<1>6. Placed' = Placed \cup {n}
  BY <1>5 DEF Placed
<1>7. /\ incoming' = [t \in Ids |-> incoming[t] \ OutOf(n)]
      /\ since' = [t \in Ids |->
                      IF t = n THEN -1
                      ELSE IF incoming[t] # {} /\ incoming[t] \subseteq OutOf(n)
                           THEN Len(order) + 1
                           ELSE since[t]]
  BY <1>1
<1>8. ASSUME NEW t \in Ids
      PROVE  /\ incoming'[t] = {e \in Into(t) : graph.edges[e][1] \notin Placed'}
             /\ since'[t] >= 0 <=> (incoming'[t] = {} /\ t \notin Placed')
  <2>1. \A e \in Into(t) : e \in OutOf(n) <=> graph.edges[e][1] = n
    BY DEF Into, OutOf
  <2>2. incoming'[t] = {e \in Into(t) : graph.edges[e][1] \notin Placed'}
    BY <1>3, <1>6, <1>7, <2>1
  <2>3. t \in Placed => incoming[t] = {}
    <3>1. ASSUME t \in Placed, NEW e \in incoming[t]  PROVE FALSE
      <4>1. e \in Edges /\ graph.edges[e][2] = t /\ graph.edges[e][1] \notin Placed
        BY <1>3, <3>1 DEF Into
      <4>2. PICK i \in DOMAIN order : order[i] = t
        BY <3>1 DEF Placed
      <4>3. PICK j \in 1..(i - 1) : order[j] = graph.edges[e][1]
        BY <4>1, <4>2 DEF OrderInv, OrderRespectsEdges
      <4>4. j \in DOMAIN order
        BY <1>5, <4>2
      <4> QED  BY <4>1, <4>3, <4>4 DEF Placed
    <3> QED  BY <3>1
  <2>4. CASE t = n
    <3>1. since'[t] = -1
      BY <1>7, <2>4
    <3> QED  BY <1>6, <2>2, <2>4, <3>1
  <2>5. CASE t # n /\ incoming[t] # {} /\ incoming[t] \subseteq OutOf(n)
    <3>1. since'[t] = Len(order) + 1 /\ incoming'[t] = {}
      BY <1>7, <2>5
    <3>2. t \notin Placed'
      BY <1>6, <2>3, <2>5
    <3> QED  BY <1>5, <2>2, <3>1, <3>2
  <2>6. CASE t # n /\ ~ (incoming[t] # {} /\ incoming[t] \subseteq OutOf(n))
    <3>1. since'[t] = since[t] /\ (incoming'[t] = {} <=> incoming[t] = {})
      BY <1>7, <2>6
    <3>2. t \in Placed' <=> t \in Placed
      BY <1>6, <2>6
    <3> QED  BY <1>3, <2>2, <3>1, <3>2
  <2> QED  BY <2>4, <2>5, <2>6
<1>9. Placed' \subseteq Ids /\ Ids' = Ids
  BY <1>2, <1>4, <1>6, SameGraph DEF SoundInv
<1>10. \A i, j \in DOMAIN order' : i # j => order'[i] # order'[j]
  <2>1. \A i, j \in 1..Len(order) : i # j => order[i] # order[j]
    BY <1>5 DEF SoundInv
  <2>2. \A i \in 1..Len(order) : order[i] # n
    BY <1>4, <1>5 DEF Placed
  <2>3. \A i \in DOMAIN order' : i \in 1..Len(order) \/ i = Len(order) + 1
    BY <1>5
  <2> QED  BY <1>5, <2>1, <2>2, <2>3
<1>11. Counted'
  <2>1. Proper'
    BY <1>2, SameGraph DEF SoundInv, Counted
  <2> QED  BY <1>2, <1>8, <2>1, SameGraph DEF Counted
<1> QED  BY <1>2, <1>9, <1>10, <1>11 DEF SoundInv, Accepted, AcceptsExactlySound

LEMMA OrderedSound == ASSUME OrderInv, SoundInv, Ordered  PROVE SoundInv'
<1>1. /\ phase = "ordering" /\ Ready = {} /\ graph' = graph /\ order' = order
      /\ phase' = IF Len(order) = Cardinality(Ids) THEN "ordered" ELSE "rejected"
  BY DEF Ordered, orderVars
<1>2. /\ Placed' = Placed /\ Proper' = Proper /\ Ids' = Ids /\ Sound' = Sound
  BY <1>1, SameGraph DEF Placed
<1>3. Proper
  BY <1>1 DEF SoundInv, Counted
<1>4. Len(order) = Cardinality(Ids) <=> Placed = Ids
  BY AllPlaced DEF SoundInv
<1>5. CASE Placed = Ids
  BY <1>1, <1>2, <1>3, <1>4, <1>5 DEF SoundInv, Counted, AcceptsExactlySound
<1>6. CASE Placed # Ids
  <2>1. ~ Sound
    BY <1>1, <1>6, StuckIsCyclic DEF Sound, Suited
  <2> QED  BY <1>1, <1>2, <1>4, <1>6, <2>1 DEF SoundInv, Counted, Accepted, AcceptsExactlySound
<1> QED  BY <1>5, <1>6

LEMMA CheckSound == ASSUME OrderInv, SoundInv, Check  PROVE SoundInv'
<1>1. /\ phase = "ordered" /\ graph' = graph /\ order' = order
      /\ phase' = IF validate_dag THEN "running" ELSE "rejected"
  BY DEF Check, orderVars
<1>2. /\ Placed' = Placed /\ Proper' = Proper /\ Ids' = Ids /\ Sound' = Sound
  BY <1>1, SameGraph DEF Placed
<1>3. validate_dag <=> Sound
  BY <1>1, CheckedIsSound
<1>4. Proper /\ Placed = Ids
  BY <1>1 DEF SoundInv, Accepted
<1> QED  BY <1>1, <1>2, <1>3, <1>4 DEF SoundInv, Counted, Accepted, AcceptsExactlySound

(* A walk goes on with the graph and the order it was accepted with. *)
LEMMA WalkSound ==
  ASSUME SoundInv, graph' = graph, order' = order,
         phase \in {"running", "walked"}, phase' \in {"running", "walked", "stored", "broke"}
  PROVE  SoundInv'
<1>1. /\ Placed' = Placed /\ Proper' = Proper /\ Ids' = Ids /\ Sound' = Sound
  BY SameGraph DEF Placed
<1>2. Proper /\ Placed = Ids /\ Sound
  BY DEF SoundInv, Accepted, AcceptsExactlySound
<1> QED  BY <1>1, <1>2 DEF SoundInv, Counted, AcceptsExactlySound

\* The steps of the walk, and what they leave alone.
Walking ==
    \/ DenseRetriever \/ Bm25Retriever \/ Fuse \/ Rerank \/ BuildContext \/ Generate
    \/ GenerateFails \/ AgentCallsTools \/ AgentAnswers \/ AgentFails \/ NodeBreaks

LEMMA WalkStep ==
  ASSUME Walking
  PROVE  /\ graph' = graph /\ order' = order /\ phase = "running"
         /\ phase' \in {"running", "walked"} /\ stored' = stored
<1>1. CASE DenseRetriever \/ Bm25Retriever
  BY <1>1 DEF DenseRetriever, Bm25Retriever, Finds, Done, Runs, orderVars
<1>2. CASE Fuse \/ Rerank \/ BuildContext \/ Generate
  BY <1>2 DEF Fuse, Rerank, BuildContext, Generate, Done, Runs, orderVars
<1>3. CASE GenerateFails \/ AgentFails \/ NodeBreaks
  BY <1>3 DEF GenerateFails, AgentFails, NodeBreaks, Runs, orderVars
<1>4. CASE AgentCallsTools
  BY <1>4 DEF AgentCallsTools, Runs, orderVars
<1>5. CASE AgentAnswers
  BY <1>5 DEF AgentAnswers, Done, Runs, orderVars
<1> QED  BY <1>1, <1>2, <1>3, <1>4, <1>5 DEF Walking

LEMMA SoundStep == OrderInv /\ SoundInv /\ [Next]_vars => SoundInv'
<1> SUFFICES ASSUME OrderInv, SoundInv, [Next]_vars  PROVE SoundInv'
  OBVIOUS
<1>1. CASE Walking
  BY <1>1, WalkStep, WalkSound
<1>2. CASE StoreRun
  <2>1. graph' = graph /\ order' = order /\ phase = "walked" /\ phase' \in {"stored", "broke"}
    BY <1>2 DEF StoreRun, orderVars
  <2> QED  BY <2>1, WalkSound
<1>3. CASE UNCHANGED vars
  <2>1. UNCHANGED <<graph, phase, incoming, since, order>>
    BY <1>3 DEF vars, orderVars
  <2>2. /\ Placed' = Placed /\ Proper' = Proper /\ Ids' = Ids /\ Sound' = Sound
        /\ \A n : Into(n)' = Into(n)
    BY <2>1, SameGraph DEF Placed
  <2> QED  BY <2>1, <2>2 DEF SoundInv, Counted, AcceptsExactlySound
<1> QED
  BY <1>1, <1>2, <1>3, CountSound, PopSound, OrderedSound, CheckSound DEF Next, Walking, Ended

LEMMA SoundInit == Init => SoundInv
BY DEF Init, SoundInv, Placed, Counted, Accepted, AcceptsExactlySound

(***************************************************************************)
(* validate_dag and topological_order, for whatever graph is sent: it is   *)
(* refused if and only if some nodes of it feed each other in a circle, or *)
(* it is not a pipeline that ends in its answers.                          *)
(***************************************************************************)
THEOREM ExactlySoundIsAccepted == Spec => []AcceptsExactlySound
<1>1. OrderInv /\ SoundInv /\ [Next]_vars => OrderInv' /\ SoundInv'
  BY OrderStep, SoundStep
<1>2. SoundInv => AcceptsExactlySound
  BY DEF SoundInv
<1> QED  BY OrderInit, SoundInit, <1>1, <1>2, PTL DEF Spec
-----------------------------------------------------------------------------
(* Induction over the subsets of a finite set, stated about a set of them. *)
LEMMA Subsets ==
  ASSUME NEW S, IsFiniteSet(S), NEW Good,
         \A T \in SUBSET S : (\A U \in SUBSET T : U # T => U \in Good) => T \in Good
  PROVE  \A T \in SUBSET S : T \in Good
<1> DEFINE R == StrictSubsetOrdering(S)
           Bad == {T \in SUBSET S : T \notin Good}
<1>1. IsWellFoundedOn(R, SUBSET S)
  BY FS_StrictSubsetOrderingWellFounded, FS_FiniteSubsetsOfFinite
<1>2. \A T, U \in SUBSET S : (U \subseteq T /\ U # T) => <<U, T>> \in R
  BY DEF StrictSubsetOrdering
<1>3. SUFFICES ASSUME Bad # {}  PROVE FALSE
  OBVIOUS
<1>4. Bad \subseteq SUBSET S
  OBVIOUS
<1> HIDE DEF R, Bad
<1>5. PICK T \in Bad : \A U \in Bad : ~ (<<U, T>> \in R)
  BY <1>1, <1>3, <1>4, WFMin
<1>6. T \in SUBSET S /\ T \notin Good
  BY <1>5 DEF Bad
<1>7. ASSUME NEW U \in SUBSET T, U # T  PROVE U \in Good
  <2>1. U \in SUBSET S /\ <<U, T>> \in R
    BY <1>2, <1>6, <1>7
  <2> QED  BY <1>5, <2>1 DEF Bad
<1> QED  BY <1>6, <1>7

(***************************************************************************)
(* What the library's folds over a set compute: they take the elements of  *)
(* the set one by one, and a function that does so exists.                 *)
(***************************************************************************)
Picked(T) == CHOOSE x \in T : TRUE
Rest(T)   == T \ {Picked(T)}

Solves(S, base, step, f) ==
    f = [T \in SUBSET S |-> IF T = {} THEN base ELSE step[<<Picked(T), f[Rest(T)]>>]]

LEMMA RestIsLess ==
  ASSUME NEW T, T # {}
  PROVE  Picked(T) \in T /\ Rest(T) \in SUBSET T /\ Rest(T) # T
<1>1. Picked(T) \in T
  BY DEF Picked
<1> QED  BY <1>1 DEF Rest

LEMMA SolvedNone ==
  ASSUME NEW S, NEW base, NEW step, NEW f, Solves(S, base, step, f)
  PROVE  f[{}] = base
<1>1. {} \in SUBSET S
  OBVIOUS
<1> QED  BY <1>1 DEF Solves

LEMMA SolvedAt ==
  ASSUME NEW S, NEW base, NEW step, NEW f, Solves(S, base, step, f), NEW T \in SUBSET S, T # {}
  PROVE  f[T] = step[<<Picked(T), f[Rest(T)]>>]
BY DEF Solves

LEMMA SolutionsAgree ==
  ASSUME NEW S, IsFiniteSet(S), NEW base, NEW step, NEW f, Solves(S, base, step, f),
         NEW T \in SUBSET S, NEW g, Solves(T, base, step, g)
  PROVE  \A U \in SUBSET T : f[U] = g[U]
<1> DEFINE Good == {U \in SUBSET T : f[U] = g[U]}
<1>1. IsFiniteSet(T)
  BY FS_Subset
<1>2. ASSUME NEW U \in SUBSET T, \A V \in SUBSET U : V # U => V \in Good
      PROVE  U \in Good
  <2>1. U \in SUBSET S
    OBVIOUS
  <2>2. CASE U = {}
    BY <2>2, SolvedNone
  <2>3. CASE U # {}
    <3>1. Rest(U) \in Good
      BY <1>2, <2>3, RestIsLess
    <3>2. f[Rest(U)] = g[Rest(U)]
      BY <3>1
    <3>3. f[U] = step[<<Picked(U), f[Rest(U)]>>] /\ g[U] = step[<<Picked(U), g[Rest(U)]>>]
      BY <2>1, <2>3, SolvedAt
    <3> QED  BY <3>2, <3>3
  <2> QED  BY <2>2, <2>3
<1> HIDE DEF Good
<1>3. \A U \in SUBSET T : U \in Good
  BY <1>1, <1>2, Subsets
<1> QED  BY <1>3 DEF Good

LEMMA FoldExists ==
  ASSUME NEW S, IsFiniteSet(S), NEW base, NEW step
  PROVE  \E f : Solves(S, base, step, f)
<1> DEFINE Good == {T \in SUBSET S : \E f : Solves(T, base, step, f)}
<1>1. ASSUME NEW T \in SUBSET S, \A U \in SUBSET T : U # T => U \in Good
      PROVE  T \in Good
  <2> DEFINE h(U) == CHOOSE g : Solves(U, base, step, g)
             f == [U \in SUBSET T |-> IF U = {} THEN base
                                      ELSE step[<<Picked(U), h(Rest(U))[Rest(U)]>>]]
  <2>1. \A U \in SUBSET T : U # T => Solves(U, base, step, h(U))
    BY <1>1
  <2>2. \A U \in SUBSET T : IsFiniteSet(U)
    BY FS_Subset
  <2> HIDE DEF h
  <2>3. ASSUME NEW V \in SUBSET T, V # T  PROVE f[V] = h(V)[V]
    <3>1. Solves(V, base, step, h(V)) /\ V \in SUBSET V /\ IsFiniteSet(V)
      BY <2>1, <2>2, <2>3
    <3>2. CASE V = {}
      BY <3>1, <3>2, SolvedNone DEF f
    <3>3. CASE V # {}
      <4>1. Rest(V) \in SUBSET V /\ Rest(V) # V /\ Rest(V) # T
        BY <2>3, <3>3, RestIsLess
      <4>2. Solves(Rest(V), base, step, h(Rest(V)))
        BY <2>1, <4>1
      <4>3. h(V)[Rest(V)] = h(Rest(V))[Rest(V)]
        BY <3>1, <4>1, <4>2, SolutionsAgree
      <4>4. h(V)[V] = step[<<Picked(V), h(V)[Rest(V)]>>]
        BY <3>1, <3>3, SolvedAt
      <4> QED  BY <3>3, <4>3, <4>4
    <3> QED  BY <3>2, <3>3
  <2>4. \A U \in SUBSET T : U # {} => f[Rest(U)] = h(Rest(U))[Rest(U)]
    <3>1. \A U \in SUBSET T : U # {} => Rest(U) \in SUBSET T /\ Rest(U) # T
      BY RestIsLess
    <3> QED  BY <2>3, <3>1
  <2>5. f = [U \in SUBSET T |-> IF U = {} THEN base ELSE step[<<Picked(U), f[Rest(U)]>>]]
    BY <2>4
  <2> QED  BY <2>5 DEF Solves
<1> HIDE DEF Good
<1>2. S \in Good
  BY <1>1, Subsets
<1> QED  BY <1>2 DEF Good

(* With a step from values to values, everything it takes is a value. *)
LEMMA FoldTyped ==
  ASSUME NEW S, IsFiniteSet(S), NEW A, NEW base \in A, NEW step \in [S \X A -> A]
  PROVE  \E f \in [SUBSET S -> A] : Solves(S, base, step, f)
<1>1. PICK f : Solves(S, base, step, f)
  BY FoldExists
<1> DEFINE Good == {T \in SUBSET S : f[T] \in A}
<1>2. ASSUME NEW T \in SUBSET S, \A U \in SUBSET T : U # T => U \in Good
      PROVE  T \in Good
  <2>1. CASE T = {}
    BY <1>1, <2>1, SolvedNone
  <2>2. CASE T # {}
    <3>1. Picked(T) \in S /\ Rest(T) \in Good
      BY <1>2, <2>2, RestIsLess
    <3>2. f[T] = step[<<Picked(T), f[Rest(T)]>>]
      BY <1>1, <2>2, SolvedAt
    <3> QED  BY <3>1, <3>2
  <2> QED  BY <2>1, <2>2
<1> HIDE DEF Good
<1>3. \A T \in SUBSET S : T \in Good
  BY <1>2, Subsets
<1>4. DOMAIN f = SUBSET S /\ f = [T \in DOMAIN f |-> f[T]]
  BY <1>1 DEF Solves
<1> QED  BY <1>1, <1>3, <1>4 DEF Good

(* The library's product of a finite set of naturals is a natural. *)
Multiplies(S, f) ==
    f = [T \in SUBSET S |-> IF T = {} THEN 1 ELSE Picked(T) * f[Rest(T)]]

LEMMA ProductIsNatural ==
  ASSUME NEW S \in SUBSET Nat, IsFiniteSet(S)
  PROVE  ProductSet(S) \in Nat
<1> DEFINE step == [p \in S \X Nat |-> p[1] * p[2]]
           iter == CHOOSE f : Multiplies(S, f)
<1>1. ProductSet(S) = iter[S]
  BY DEF ProductSet, FoldSet, MapThenFoldSet, Multiplies, Picked, Rest
<1>2. \E f : Multiplies(S, f)
  <2>0. \A x \in S : \A v \in Nat : x * v \in Nat
    OBVIOUS
  <2>1. step \in [S \X Nat -> Nat] /\ \A x \in S : \A v \in Nat : step[<<x, v>>] = x * v
    BY <2>0
  <2> HIDE DEF step
  <2>2. PICK f \in [SUBSET S -> Nat] : Solves(S, 1, step, f)
    BY <2>1, FoldTyped
  <2>3. \A T \in SUBSET S : T # {} => Picked(T) \in S /\ f[Rest(T)] \in Nat
    BY RestIsLess
  <2>4. f = [T \in SUBSET S |-> IF T = {} THEN 1 ELSE step[<<Picked(T), f[Rest(T)]>>]]
    BY <2>2 DEF Solves
  <2>5. \A T \in SUBSET S : f[T] = IF T = {} THEN 1 ELSE Picked(T) * f[Rest(T)]
    BY <2>1, <2>3, <2>4
  <2>6. f = [T \in SUBSET S |-> IF T = {} THEN 1 ELSE Picked(T) * f[Rest(T)]]
    BY <2>5
  <2> QED  BY <2>6 DEF Multiplies
<1>3. Multiplies(S, iter)
  BY <1>2
<1> HIDE DEF iter
<1> DEFINE Good == {T \in SUBSET S : iter[T] \in Nat}
<1>4. ASSUME NEW T \in SUBSET S, \A U \in SUBSET T : U # T => U \in Good
      PROVE  T \in Good
  <2>1. iter[T] = IF T = {} THEN 1 ELSE Picked(T) * iter[Rest(T)]
    BY <1>3 DEF Multiplies
  <2>2. T # {} => Picked(T) \in Nat /\ iter[Rest(T)] \in Nat
    BY <1>4, RestIsLess
  <2> QED  BY <2>1, <2>2
<1> HIDE DEF Good
<1>5. S \in Good
  BY <1>4, Subsets
<1> QED  BY <1>1, <1>5 DEF Good

(***************************************************************************)
(* A passage's score is a number.                                          *)
(***************************************************************************)
Found(lists, k, p, j) ==
    IF p \in {lists[j][i] : i \in DOMAIN lists[j]}
    THEN Scale(lists, k) \div (k + RankIn(lists[j], p))
    ELSE 0

Sums(lists, k, p, f) ==
    f = [T \in SUBSET DOMAIN lists |->
            IF T = {} THEN 0 ELSE Found(lists, k, p, Picked(T)) + f[Rest(T)]]

LEMMA ScaleIsNatural ==
  ASSUME NEW lists \in Seq(Seq(Nat)), NEW k \in Nat \ {0}
  PROVE  Scale(lists, k) \in Nat
<1>1. PICK n \in Nat : DOMAIN lists = 1..n
  OBVIOUS
<1> DEFINE Domains == {DOMAIN lists[j] : j \in 1..n}
<1>2. IsFiniteSet(Domains)
  <2>1. IsFiniteSet(1..n)
    BY FS_Interval
  <2>2. [j \in 1..n |-> DOMAIN lists[j]] \in Surjection(1..n, Domains)
    BY DEF Surjection
  <2> QED  BY <2>1, <2>2, FS_Surjection
<1>3. \A D \in Domains : IsFiniteSet(D) /\ D \subseteq Nat
  <2>1. ASSUME NEW j \in 1..n  PROVE IsFiniteSet(DOMAIN lists[j]) /\ DOMAIN lists[j] \subseteq Nat
    <3>1. lists[j] \in Seq(Nat)
      BY <1>1
    <3>2. PICK m \in Nat : DOMAIN lists[j] = 1..m
      BY <3>1
    <3> QED  BY <3>2, FS_Interval
  <2> QED  BY <2>1
<1> HIDE DEF Domains
<1> DEFINE U == UNION Domains
<1>4. IsFiniteSet(U) /\ U \subseteq Nat
  BY <1>2, <1>3, FS_UNION
<1>5. Denominators(lists, k) = {k + r : r \in U}
  BY <1>1 DEF Denominators, Domains
<1> HIDE DEF U
<1>6. IsFiniteSet({k + r : r \in U})
  <2>1. [r \in U |-> k + r] \in Surjection(U, {k + r : r \in U})
    BY DEF Surjection
  <2> QED  BY <1>4, <2>1, FS_Surjection
<1>7. {k + r : r \in U} \in SUBSET Nat
  <2>1. \A r \in U : r \in Nat
    BY <1>4
  <2>2. \A r \in Nat : k + r \in Nat
    OBVIOUS
  <2> QED  BY <2>1, <2>2
<1>8. PICK S \in SUBSET Nat : S = {k + r : r \in U}
  BY <1>7
<1>9. ProductSet(S) \in Nat
  BY <1>6, <1>8, ProductIsNatural
<1> QED  BY <1>5, <1>8, <1>9 DEF Scale

LEMMA FoundIsNumber ==
  ASSUME NEW lists \in Seq(Seq(Nat)), NEW k \in Nat \ {0}, NEW p, NEW j \in DOMAIN lists
  PROVE  Found(lists, k, p, j) \in Int
<1>1. CASE p \in {lists[j][i] : i \in DOMAIN lists[j]}
  <2>1. RankIn(lists[j], p) \in DOMAIN lists[j]
    BY <1>1 DEF RankIn
  <2>2. lists[j] \in Seq(Nat)
    OBVIOUS
  <2>3. RankIn(lists[j], p) \in Nat \ {0}
    BY <2>1, <2>2
  <2>4. PICK s \in Nat : s = Scale(lists, k)
    BY ScaleIsNatural
  <2>5. PICK r \in Nat \ {0} : r = RankIn(lists[j], p)
    BY <2>3
  <2>6. s \div (k + r) \in Int
    BY <2>4, <2>5
  <2> QED  BY <1>1, <2>4, <2>5, <2>6 DEF Found
<1>2. CASE p \notin {lists[j][i] : i \in DOMAIN lists[j]}
  BY <1>2 DEF Found
<1> QED  BY <1>1, <1>2

LEMMA ScoreIsNumber ==
  ASSUME NEW lists \in Seq(Seq(Nat)), NEW k \in Nat \ {0}, NEW p
  PROVE  Score(lists, k, p) \in Int
<1> DEFINE D == DOMAIN lists
           step == [q \in D \X Int |-> Found(lists, k, p, q[1]) + q[2]]
           iter == CHOOSE f : Sums(lists, k, p, f)
<1>1. Score(lists, k, p) = iter[DOMAIN lists]
  BY DEF Score, MapThenSumSet, MapThenFoldSet, Sums, Found, Picked, Rest
<1>2. IsFiniteSet(D)
  <2>1. PICK n \in Nat : D = 1..n
    OBVIOUS
  <2> QED  BY <2>1, FS_Interval
<1>3. \A j \in D : Found(lists, k, p, j) \in Int
  BY FoundIsNumber
<1>4. \E f : Sums(lists, k, p, f)
  <2>1. step \in [D \X Int -> Int] /\ \A x \in D : \A v \in Int : step[<<x, v>>] = Found(lists, k, p, x) + v
    BY <1>3
  <2> HIDE DEF step, D
  <2>2. PICK f \in [SUBSET D -> Int] : Solves(D, 0, step, f)
    <3>1. PICK A : A = Int
      OBVIOUS
    <3>2. 0 \in A /\ step \in [D \X A -> A]
      BY <2>1, <3>1
    <3>3. \E f \in [SUBSET D -> A] : Solves(D, 0, step, f)
      BY <1>2, <3>2, FoldTyped
    <3> QED  BY <3>1, <3>3
  <2>3. \A T \in SUBSET D : T # {} => Picked(T) \in D /\ f[Rest(T)] \in Int
    BY RestIsLess
  <2>4. f = [T \in SUBSET D |-> IF T = {} THEN 0 ELSE step[<<Picked(T), f[Rest(T)]>>]]
    BY <2>2 DEF Solves
  <2>5. \A T \in SUBSET D : f[T] = IF T = {} THEN 0 ELSE Found(lists, k, p, Picked(T)) + f[Rest(T)]
    BY <2>1, <2>3, <2>4
  <2>6. f = [T \in SUBSET D |-> IF T = {} THEN 0 ELSE Found(lists, k, p, Picked(T)) + f[Rest(T)]]
    BY <2>5
  <2> QED  BY <2>6 DEF Sums, D
<1>5. Sums(lists, k, p, iter)
  BY <1>4
<1> HIDE DEF iter
<1> DEFINE Good == {T \in SUBSET D : iter[T] \in Int}
<1>6. ASSUME NEW T \in SUBSET D, \A U \in SUBSET T : U # T => U \in Good
      PROVE  T \in Good
  <2>1. iter[T] = IF T = {} THEN 0 ELSE Found(lists, k, p, Picked(T)) + iter[Rest(T)]
    BY <1>5 DEF Sums
  <2>2. T # {} => Found(lists, k, p, Picked(T)) \in Int /\ iter[Rest(T)] \in Int
    BY <1>3, <1>6, RestIsLess
  <2> QED  BY <2>1, <2>2
<1>7. D \in SUBSET D
  OBVIOUS
<1> HIDE DEF Good, D
<1>8. D \in Good
  BY <1>2, <1>6, <1>7, Subsets
<1> QED  BY <1>1, <1>8 DEF Good, D

(***************************************************************************)
(* Putting a finite set in order: each of its elements once, no more.      *)
(***************************************************************************)
Ranks(S, ahead) ==
    /\ \A x \in S : <<x, x>> \notin ahead
    /\ \A x, y, z \in S : <<x, y>> \in ahead /\ <<y, z>> \in ahead => <<x, z>> \in ahead
    /\ \A x, y \in S : x # y => <<x, y>> \in ahead \/ <<y, x>> \in ahead

Different(s) == \A i, j \in DOMAIN s : i # j => s[i] # s[j]

LEMMA InOrderLists ==
  ASSUME NEW S, IsFiniteSet(S), NEW ahead, Ranks(S, ahead)
  PROVE  /\ InOrder(S, ahead) \in [1..Cardinality(S) -> S]
         /\ Different(InOrder(S, ahead))
         /\ \A x \in S : \E i \in 1..Cardinality(S) : InOrder(S, ahead)[i] = x
<1> DEFINE Before_(x) == {y \in S : <<y, x>> \in ahead}
           place == [x \in S |-> Cardinality(Before_(x))]
<1>1. PICK n \in Nat : n = Cardinality(S)
  BY FS_CardinalityType
<1>2. ASSUME NEW x \in S  PROVE place[x] \in 0..(n - 1)
  <2>1. Before_(x) \in SUBSET S /\ Before_(x) # S
    BY DEF Ranks
  <2>2. /\ IsFiniteSet(Before_(x)) /\ Cardinality(Before_(x)) <= n
        /\ Cardinality(Before_(x)) # n
    BY <1>1, <2>1, FS_Subset
  <2>3. Cardinality(Before_(x)) \in Nat
    BY <2>2, FS_CardinalityType
  <2> QED  BY <2>2, <2>3
<1>3. ASSUME NEW x \in S, NEW y \in S, <<x, y>> \in ahead  PROVE place[x] # place[y]
  <2>1. Before_(x) \in SUBSET Before_(y) /\ Before_(x) # Before_(y)
    BY <1>3 DEF Ranks
  <2>2. IsFiniteSet(Before_(y))
    BY FS_Subset
  <2>3. Cardinality(Before_(x)) # Cardinality(Before_(y))
    BY <2>1, <2>2, FS_Subset
  <2> QED  BY <2>3
<1>4. \A x, y \in S : x # y => place[x] # place[y]
  BY <1>3 DEF Ranks
<1>5. \A i \in 1..n : InOrder(S, ahead)[i] = CHOOSE x \in S : place[x] = i - 1
  BY <1>1 DEF InOrder
<1>6. InOrder(S, ahead) = [i \in 1..n |-> InOrder(S, ahead)[i]]
  <2> DEFINE at_(i) == CHOOSE x \in S : Cardinality({y \in S : <<y, x>> \in ahead}) = i - 1
  <2>1. InOrder(S, ahead) = [i \in 1..n |-> at_(i)]
    BY <1>1 DEF InOrder
  <2> HIDE DEF at_
  <2> QED  BY <2>1
<1>7. place \in [S -> 0..(n - 1)]
  BY <1>2
<1> HIDE DEF place
<1>8. \A v \in 0..(n - 1) : \E x \in S : place[x] = v
  <2>1. place \in Injection(S, 0..(n - 1))
    BY <1>4, <1>7 DEF Injection, IsInjective
  <2>2. IsFiniteSet(0..(n - 1)) /\ Cardinality(0..(n - 1)) = n
    BY FS_Interval
  <2>3. place \in Surjection(S, 0..(n - 1))
    BY <1>1, <2>1, <2>2, FS_Injection
  <2> QED  BY <2>3 DEF Surjection
<1>9. \A i \in 1..n : InOrder(S, ahead)[i] \in S /\ place[InOrder(S, ahead)[i]] = i - 1
  <2> SUFFICES ASSUME NEW i \in 1..n
               PROVE  InOrder(S, ahead)[i] \in S /\ place[InOrder(S, ahead)[i]] = i - 1
    OBVIOUS
  <2>1. i - 1 \in 0..(n - 1)
    OBVIOUS
  <2>2. \E x \in S : place[x] = i - 1
    BY <1>8, <2>1
  <2> QED  BY <1>5, <2>2
<1>10. InOrder(S, ahead) \in [1..n -> S]
  BY <1>6, <1>9
<1>11. Different(InOrder(S, ahead))
  BY <1>6, <1>9 DEF Different
<1>12. ASSUME NEW x \in S  PROVE \E i \in 1..n : InOrder(S, ahead)[i] = x
  <2>1. place[x] \in 0..(n - 1)
    BY <1>7
  <2>2. PICK i \in 1..n : i - 1 = place[x]
    <3>1. place[x] + 1 \in 1..n /\ (place[x] + 1) - 1 = place[x]
      BY <2>1
    <3> QED  BY <3>1
  <2>3. InOrder(S, ahead)[i] \in S /\ place[InOrder(S, ahead)[i]] = place[x]
    BY <1>9, <2>2
  <2>4. InOrder(S, ahead)[i] = x
    BY <1>4, <2>3
  <2> QED  BY <2>4
<1> QED  BY <1>1, <1>10, <1>11, <1>12

(***************************************************************************)
(* What the fusion hands on: passages its lists hold, none of them twice,  *)
(* and none at all only when they hold none.                               *)
(***************************************************************************)
LEMMA HoldsPassage ==
  ASSUME NEW lists, NEW j \in DOMAIN lists, NEW i \in DOMAIN lists[j]
  PROVE  lists[j][i] \in Passages(lists)
<1>1. PICK l : l = lists[j]
  OBVIOUS
<1>2. l \in {lists[m] : m \in DOMAIN lists} /\ i \in DOMAIN l
  BY <1>1
<1>3. l[i] \in UNION {{q[m] : m \in DOMAIN q} : q \in {lists[m] : m \in DOMAIN lists}}
  BY <1>2
<1> QED  BY <1>1, <1>3 DEF Passages

LEMMA AheadRanks ==
  ASSUME NEW lists \in Seq(Seq(Nat)), NEW k \in Nat \ {0}
  PROVE  IsFiniteSet(Passages(lists)) /\ Ranks(Passages(lists), Ahead(lists, k))
<1> DEFINE P == Passages(lists)
           score == [p \in P |-> Score(lists, k, p)]
<1>1. PICK n \in Nat : DOMAIN lists = 1..n
  OBVIOUS
<1>2. \A j \in 1..n : IsFiniteSet({lists[j][i] : i \in DOMAIN lists[j]})
  <2> SUFFICES ASSUME NEW j \in 1..n  PROVE IsFiniteSet({lists[j][i] : i \in DOMAIN lists[j]})
    OBVIOUS
  <2>1. lists[j] \in Seq(Nat)
    BY <1>1
  <2>2. PICK l \in Seq(Nat) : l = lists[j]
    BY <2>1
  <2>3. PICK m \in Nat : DOMAIN l = 1..m
    OBVIOUS
  <2>4. IsFiniteSet(1..m)
    BY FS_Interval
  <2>5. [i \in 1..m |-> l[i]] \in Surjection(1..m, {l[i] : i \in 1..m})
    BY DEF Surjection
  <2>6. IsFiniteSet({l[i] : i \in 1..m})
    BY <2>4, <2>5, FS_Surjection
  <2> QED  BY <2>2, <2>3, <2>6
<1>3. IsFiniteSet(P)
  <2> DEFINE held == [j \in 1..n |-> {lists[j][i] : i \in DOMAIN lists[j]}]
             Held == {held[j] : j \in 1..n}
  <2>1. P = UNION Held
    <3>1. ASSUME NEW p \in P  PROVE p \in UNION Held
      <4>1. PICK l \in {lists[j] : j \in DOMAIN lists} : p \in {l[i] : i \in DOMAIN l}
        BY DEF Passages
      <4>2. PICK j \in 1..n : l = lists[j]
        BY <1>1, <4>1
      <4>3. p \in held[j]
        BY <4>1, <4>2
      <4> QED  BY <4>3
    <3>2. ASSUME NEW j \in 1..n, NEW p \in held[j]  PROVE p \in P
      <4>1. PICK i \in DOMAIN lists[j] : p = lists[j][i]
        BY <3>2
      <4> QED  BY <1>1, <4>1, HoldsPassage
    <3> QED  BY <3>1, <3>2
  <2>2. \A j \in 1..n : IsFiniteSet(held[j])
    BY <1>2
  <2>3. held \in Surjection(1..n, Held)
    BY DEF Surjection
  <2> HIDE DEF held
  <2>4. IsFiniteSet(1..n)
    BY FS_Interval
  <2>5. IsFiniteSet(Held)
    BY <2>3, <2>4, FS_Surjection
  <2> HIDE DEF Held, P
  <2>6. IsFiniteSet(UNION Held)
    BY <2>2, <2>5, FS_UNION DEF Held
  <2> QED  BY <2>1, <2>6
<1>4. P \subseteq Nat
  <2>1. \A j \in DOMAIN lists : lists[j] \in Seq(Nat)
    OBVIOUS
  <2>2. \A j \in DOMAIN lists : \A i \in DOMAIN lists[j] : lists[j][i] \in Nat
    BY <2>1
  <2> QED  BY <2>2 DEF Passages
<1>5. \A p \in P : score[p] \in Int
  BY ScoreIsNumber
<1>6. Ahead(lists, k) = {pq \in P \X P : \/ score[pq[1]] > score[pq[2]]
                                         \/ score[pq[1]] = score[pq[2]] /\ pq[1] < pq[2]}
  BY DEF Ahead
<1> HIDE DEF score, P
<1>7. \A x, y \in P : <<x, y>> \in Ahead(lists, k) <=>
                         (score[x] > score[y] \/ (score[x] = score[y] /\ x < y))
  BY <1>6
<1>8. Ranks(P, Ahead(lists, k))
  <2>1. \A x \in P : <<x, x>> \notin Ahead(lists, k)
    BY <1>4, <1>5, <1>7
  <2>2. \A x, y, z \in P : <<x, y>> \in Ahead(lists, k) /\ <<y, z>> \in Ahead(lists, k)
                               => <<x, z>> \in Ahead(lists, k)
    <3> SUFFICES ASSUME NEW x \in P, NEW y \in P, NEW z \in P,
                        <<x, y>> \in Ahead(lists, k), <<y, z>> \in Ahead(lists, k)
                 PROVE  <<x, z>> \in Ahead(lists, k)
      OBVIOUS
    <3>1. score[x] > score[y] \/ (score[x] = score[y] /\ x < y)
      BY <1>7
    <3>2. score[y] > score[z] \/ (score[y] = score[z] /\ y < z)
      BY <1>7
    <3>3. /\ score[x] \in Int /\ score[y] \in Int /\ score[z] \in Int
          /\ x \in Nat /\ y \in Nat /\ z \in Nat
      BY <1>4, <1>5
    <3>4. score[x] > score[z] \/ (score[x] = score[z] /\ x < z)
      BY <3>1, <3>2, <3>3
    <3> QED  BY <1>7, <3>4
  <2>3. \A x, y \in P : x # y => <<x, y>> \in Ahead(lists, k) \/ <<y, x>> \in Ahead(lists, k)
    BY <1>4, <1>5, <1>7
  <2> QED  BY <2>1, <2>2, <2>3 DEF Ranks
<1> QED  BY <1>3, <1>8 DEF P

LEMMA HeadOf ==
  ASSUME NEW R, NEW list \in Seq(R), NEW top \in Nat
  PROVE  /\ Head_(list, top) \in Seq(R)
         /\ Len(Head_(list, top)) <= Len(list)
         /\ \A i \in 1..Len(Head_(list, top)) : Head_(list, top)[i] = list[i]
         /\ Len(Head_(list, top)) = IF Len(list) < top THEN Len(list) ELSE top
<1>1. PICK n \in Nat : n = Len(list) /\ DOMAIN list = 1..n
  OBVIOUS
<1>2. PICK m \in 0..n : m = IF Len(list) < top THEN Len(list) ELSE top
  BY <1>1
<1>3. Head_(list, top) = SubSeq(list, 1, m)
  BY <1>2 DEF Head_
<1>4. /\ SubSeq(list, 1, m) \in Seq(R) /\ Len(SubSeq(list, 1, m)) = m
      /\ \A i \in 1..m : SubSeq(list, 1, m)[i] = list[i]
  BY <1>1
<1> QED  BY <1>1, <1>2, <1>3, <1>4

LEMMA HeadDiffers ==
  ASSUME NEW R, NEW list \in Seq(R), NEW top \in Nat, Different(list)
  PROVE  Different(Head_(list, top))
<1>1. PICK h \in Seq(R) : h = Head_(list, top) /\ Len(h) <= Len(list)
                          /\ \A i \in 1..Len(h) : h[i] = list[i]
  BY HeadOf
<1>2. DOMAIN h = 1..Len(h) /\ DOMAIN list = 1..Len(list) /\ Len(h) \in Nat /\ Len(list) \in Nat
  OBVIOUS
<1>3. \A i, j \in 1..Len(h) : i # j => h[i] # h[j]
  BY <1>1, <1>2 DEF Different
<1> QED  BY <1>1, <1>2, <1>3 DEF Different

LEMMA FusionHolds ==
  ASSUME NEW R \in SUBSET Nat, NEW lists \in Seq(Seq(R)), NEW k \in Nat \ {0}, NEW limit \in Nat
  PROVE  LET fused == reciprocal_rank_fusion(lists, k, limit)
         IN  /\ fused \in Seq(R) /\ Different(fused)
             /\ limit >= 1 /\ fused = <<>> => \A j \in DOMAIN lists : lists[j] = <<>>
<1> DEFINE P == Passages(lists)
           A == Ahead(lists, k)
           c == Cardinality(P)
<1>1. lists \in Seq(Seq(Nat))
  <2>1. \A s \in Seq(R) : s \in Seq(Nat)
    BY SeqMonotonic
  <2>2. Seq(R) \subseteq Seq(Nat)
    BY <2>1
  <2> QED  BY <2>2, SeqMonotonic
<1>2. IsFiniteSet(P) /\ Ranks(P, A) /\ c \in Nat
  BY <1>1, AheadRanks, FS_CardinalityType
<1>3. P \subseteq R
  <2>1. \A j \in DOMAIN lists : lists[j] \in Seq(R)
    OBVIOUS
  <2>2. \A j \in DOMAIN lists : \A i \in DOMAIN lists[j] : lists[j][i] \in R
    BY <2>1
  <2> QED  BY <2>2 DEF Passages
<1>4. \A j \in DOMAIN lists : lists[j] # <<>> => P # {}
  <2> SUFFICES ASSUME NEW j \in DOMAIN lists, lists[j] # <<>>  PROVE P # {}
    OBVIOUS
  <2>1. lists[j] \in Seq(R)
    OBVIOUS
  <2>2. 1 \in DOMAIN lists[j]
    BY <2>1
  <2>3. lists[j][1] \in P
    BY <2>2, HoldsPassage
  <2> QED  BY <2>3
<1>5. reciprocal_rank_fusion(lists, k, limit) = Head_(InOrder(P, A), limit)
  BY DEF reciprocal_rank_fusion
<1> HIDE DEF P, A
<1>6. PICK o : o = InOrder(P, A) /\ o \in [1..c -> P] /\ Different(o)
  BY <1>2, InOrderLists
<1>7. o \in Seq(R) /\ Len(o) = c
  <2>1. PICK n \in Nat : n = c
    BY <1>2
  <2>2. o \in [1..n -> R]
    BY <1>3, <1>6, <2>1
  <2>3. o \in Seq(R) /\ Len(o) = n
    BY <2>2
  <2> QED  BY <2>1, <2>3
<1>8. Head_(o, limit) \in Seq(R) /\ Different(Head_(o, limit))
  BY <1>6, <1>7, HeadOf, HeadDiffers
<1>9. ASSUME limit >= 1, Head_(o, limit) = <<>>
      PROVE  \A j \in DOMAIN lists : lists[j] = <<>>
  <2>1. Len(Head_(o, limit)) = 0
    BY <1>9
  <2>2. c = 0
    BY <1>2, <1>7, <1>9, <2>1, HeadOf
  <2>3. P = {}
    BY <1>2, <2>2, FS_EmptySet
  <2> QED  BY <1>4, <2>3
<1> QED  BY <1>5, <1>6, <1>8, <1>9

LEMMA RerankHolds ==
  ASSUME NEW R, NEW list \in Seq(R), NEW head \in Nat, NEW top \in Nat,
         NEW new \in rerank(list, head, top)
  PROVE  /\ new \in Seq(R)
         /\ Different(list) => Different(new)
         /\ top >= 1 /\ list # <<>> => new # <<>>
<1> DEFINE h == Head_(list, head)
<1>1. CASE new = Head_(list, top)
  <2>1. list # <<>> => Len(list) >= 1
    OBVIOUS
  <2>2. Len(list) \in Nat
    OBVIOUS
  <2>3. top >= 1 /\ list # <<>> => Len(new) # 0
    BY <1>1, <2>1, <2>2, HeadOf
  <2>4. new \in Seq(R) /\ (Different(list) => Different(new))
    BY <1>1, HeadOf, HeadDiffers
  <2> QED  BY <2>3, <2>4
<1>2. CASE \E r \in Reordered(h) : new = Head_(r \o SubSeq(list, Len(h) + 1, Len(list)), top)
  <2>1. PICK r \in Reordered(h) : new = Head_(r \o SubSeq(list, Len(h) + 1, Len(list)), top)
    BY <1>2
  <2>2. PICK n \in Nat : n = Len(list) /\ DOMAIN list = 1..n
    OBVIOUS
  <2>3. PICK m \in 0..n : m = Len(h) /\ DOMAIN h = 1..m /\ h \in Seq(R) /\ \A i \in 1..m : h[i] = list[i]
    BY <2>2, HeadOf
  <2>4. PICK f \in [1..m -> 1..m] : /\ \A i, j \in 1..m : i # j => f[i] # f[j]
                                    /\ r = [i \in 1..m |-> h[f[i]]]
    <3>1. Reordered(h) = {[i \in 1..m |-> h[f[i]]] : f \in {g \in [1..m -> 1..m] :
                                 \A i, j \in 1..m : i # j => g[i] # g[j]}}
      BY <2>3 DEF Reordered
    <3> HIDE DEF h
    <3> QED  BY <2>1, <3>1
  <2> HIDE DEF h
  <2>5. r \in Seq(R) /\ Len(r) = m /\ \A i \in 1..m : r[i] = list[f[i]]
    <3>1. \A i \in 1..m : f[i] \in 1..m /\ r[i] = h[f[i]]
      BY <2>4
    <3>2. \A i \in 1..m : r[i] = list[f[i]]
      BY <2>3, <3>1
    <3>3. m \in Nat /\ \A i \in 1..m : h[f[i]] \in R
      BY <2>3, <3>1
    <3>4. r \in [1..m -> R]
      BY <2>4, <3>3
    <3>5. r \in Seq(R) /\ Len(r) = m
      BY <3>3, <3>4
    <3> QED  BY <3>2, <3>5
  <2>6. PICK t : t = SubSeq(list, m + 1, n)
    OBVIOUS
  <2>7. t \in Seq(R) /\ Len(t) = n - m /\ \A i \in 1..(n - m) : t[i] = list[m + i]
    BY <2>2, <2>6
  <2>8. PICK cat : cat = r \o t
    OBVIOUS
  <2>9. cat \in Seq(R) /\ Len(cat) = n /\ DOMAIN cat = 1..n
    <3>1. cat \in Seq(R) /\ Len(cat) = m + (n - m)
      BY <2>5, <2>7, <2>8, ConcatProperties
    <3>2. Len(cat) = n
      BY <3>1
    <3> QED  BY <3>1, <3>2
  <2>10. \A i \in 1..n : cat[i] = list[IF i <= m THEN f[i] ELSE i]
    <3> SUFFICES ASSUME NEW i \in 1..n
                 PROVE  cat[i] = list[IF i <= m THEN f[i] ELSE i]
      OBVIOUS
    <3>0. r \in Seq(R) /\ t \in Seq(R)
      BY <2>5, <2>7
    <3>a. \A x \in 1..(Len(r) + Len(t)) : cat[x] = IF x <= Len(r) THEN r[x] ELSE t[x - Len(r)]
      BY <2>8, <3>0, ConcatProperties
    <3>1. \A x \in 1..(m + (n - m)) : cat[x] = IF x <= m THEN r[x] ELSE t[x - m]
      BY <2>5, <2>7, <3>a
    <3>2. i \in 1..(m + (n - m))
      BY <2>2, <2>3
    <3>3. CASE i <= m
      <4>1. i \in 1..m
        BY <2>2, <2>3, <3>3
      <4> QED  BY <2>5, <3>1, <3>2, <3>3, <4>1
    <3>4. CASE ~ (i <= m)
      <4>1. i - m \in 1..(n - m) /\ m + (i - m) = i
        BY <2>2, <2>3, <3>4
      <4> QED  BY <2>7, <3>1, <3>2, <3>4, <4>1
    <3> QED  BY <3>3, <3>4
  <2>11. Different(list) => Different(cat)
    <3> SUFFICES ASSUME Different(list), NEW i \in 1..n, NEW j \in 1..n, i # j
                 PROVE  cat[i] # cat[j]
      BY <2>9 DEF Different
    <3> DEFINE g(x) == IF x <= m THEN f[x] ELSE x
    <3>1. g(i) \in 1..n /\ g(j) \in 1..n /\ g(i) # g(j)
      <4>1. i <= m => f[i] \in 1..m /\ i \in 1..m
        BY <2>4
      <4>2. j <= m => f[j] \in 1..m /\ j \in 1..m
        BY <2>4
      <4>3. i <= m /\ j <= m => f[i] # f[j]
        BY <2>4
      <4>4. CASE i <= m /\ j <= m
        <5>1. PICK a \in 1..m, b \in 1..m : a = f[i] /\ b = f[j] /\ a # b
          BY <4>1, <4>2, <4>3, <4>4
        <5>2. g(i) = a /\ g(j) = b
          BY <4>4, <5>1
        <5> HIDE DEF g
        <5>3. a \in 1..n /\ b \in 1..n
          BY <2>2, <2>3, <5>1
        <5> QED  BY <5>1, <5>2, <5>3
      <4>5. CASE i <= m /\ ~ (j <= m)
        BY <4>1, <4>5
      <4>6. CASE ~ (i <= m) /\ j <= m
        BY <4>2, <4>6
      <4>7. CASE ~ (i <= m) /\ ~ (j <= m)
        BY <4>7
      <4> QED  BY <4>4, <4>5, <4>6, <4>7
    <3>2. cat[i] = list[g(i)] /\ cat[j] = list[g(j)]
      BY <2>10
    <3> QED  BY <2>2, <3>1, <3>2 DEF Different
  <2>12. new = Head_(cat, top)
    BY <2>1, <2>2, <2>3, <2>6, <2>8
  <2>13. new \in Seq(R) /\ (Different(list) => Different(new))
    BY <2>9, <2>11, <2>12, HeadOf, HeadDiffers
  <2>14. list # <<>> => n >= 1
    BY <2>2
  <2>15. Len(new) = IF Len(cat) < top THEN Len(cat) ELSE top
    BY <2>9, <2>12, HeadOf
  <2>16. top >= 1 /\ list # <<>> => Len(new) # 0
    BY <2>2, <2>9, <2>14, <2>15
  <2> QED  BY <2>13, <2>16
<1>3. new = Head_(list, top) \/ \E r \in Reordered(h) : new = Head_(r \o SubSeq(list, Len(h) + 1, Len(list)), top)
  BY DEF rerank, Unranked
<1> QED  BY <1>1, <1>2, <1>3

(* Flattening lists of something gives a list of it; with R = {}, it gives *)
(* nothing when there is nothing in them.                                  *)
Joins(seqs, n, f) ==
    f = [i \in 1..n |-> IF i = 1 THEN seqs[i] ELSE f[i - 1] \o seqs[i]]

LEMMA JoinExists ==
  ASSUME NEW seqs, NEW n \in Nat
  PROVE  \E f : Joins(seqs, n, f)
<1> DEFINE Bad == {m \in Nat : ~ \E f : Joins(seqs, m, f)}
<1>1. SUFFICES ASSUME Bad # {}  PROVE FALSE
  OBVIOUS
<1>2. PICK m \in Bad : \A l \in Bad : m <= l
  BY <1>1, Least
<1>3. CASE m = 0
  <2> DEFINE f == [i \in 1..0 |-> seqs[i]]
  <2>1. f = [i \in 1..0 |-> IF i = 1 THEN seqs[i] ELSE f[i - 1] \o seqs[i]]
    OBVIOUS
  <2> QED  BY <1>3, <2>1 DEF Joins
<1>4. CASE m # 0
  <2>1. m - 1 \in Nat /\ m \in Nat /\ m - 1 \notin Bad
    BY <1>2, <1>4
  <2>2. PICK g : Joins(seqs, m - 1, g)
    BY <2>1
  <2> DEFINE f == [i \in 1..m |-> IF i = m THEN (IF i = 1 THEN seqs[i] ELSE g[i - 1] \o seqs[i])
                                  ELSE g[i]]
  <2>3. \A i \in 1..(m - 1) : g[i] = IF i = 1 THEN seqs[i] ELSE g[i - 1] \o seqs[i]
    BY <2>1, <2>2 DEF Joins
  <2>4. \A i \in 1..m : i # 1 => f[i - 1] = g[i - 1]
    BY <2>1
  <2>5. \A i \in 1..m : f[i] = IF i = 1 THEN seqs[i] ELSE g[i - 1] \o seqs[i]
    BY <2>1, <2>3
  <2>6. \A i \in 1..m : f[i] = IF i = 1 THEN seqs[i] ELSE f[i - 1] \o seqs[i]
    BY <2>4, <2>5
  <2>7. f = [i \in 1..m |-> f[i]]
    OBVIOUS
  <2> HIDE DEF f
  <2>8. f = [i \in 1..m |-> IF i = 1 THEN seqs[i] ELSE f[i - 1] \o seqs[i]]
    BY <2>6, <2>7
  <2> QED  BY <1>2, <2>8 DEF Joins
<1> QED  BY <1>3, <1>4

LEMMA FlattenHolds ==
  ASSUME NEW R, NEW seqs \in Seq(Seq(R))
  PROVE  FlattenSeq(seqs) \in Seq(R)
<1>1. PICK n \in Nat : n = Len(seqs) /\ DOMAIN seqs = 1..n
  OBVIOUS
<1>2. CASE n = 0
  <2>1. FlattenSeq(seqs) = seqs /\ seqs = <<>>
    BY <1>1, <1>2, EmptySeq DEF FlattenSeq
  <2> QED  BY <2>1
<1>3. CASE n # 0
  <2> DEFINE f == CHOOSE g : Joins(seqs, n, g)
  <2>1. FlattenSeq(seqs) = f[n]
    BY <1>1, <1>3 DEF FlattenSeq, Joins
  <2>2. Joins(seqs, n, f)
    BY JoinExists
  <2> HIDE DEF f
  <2> DEFINE Bad == {i \in 1..n : f[i] \notin Seq(R)}
  <2>3. ASSUME Bad # {}  PROVE FALSE
    <3>0. Bad \in SUBSET Nat
      OBVIOUS
    <3>1. PICK i \in Bad : \A j \in Bad : i <= j
      BY <2>3, <3>0, Least
    <3>2. f[i] = IF i = 1 THEN seqs[i] ELSE f[i - 1] \o seqs[i]
      BY <2>2 DEF Joins
    <3>3. seqs[i] \in Seq(R)
      BY <1>1
    <3>4. CASE i = 1
      BY <3>2, <3>3, <3>4
    <3>5. CASE i # 1
      <4>1. i - 1 \in 1..n /\ ~ (i <= i - 1)
        BY <3>5
      <4>2. f[i - 1] \in Seq(R)
        BY <3>1, <4>1
      <4>3. f[i - 1] \o seqs[i] \in Seq(R)
        BY <3>3, <4>2, ConcatProperties
      <4> QED  BY <3>2, <3>5, <4>3
    <3> QED  BY <3>4, <3>5
  <2>4. n \in 1..n
    BY <1>3
  <2> QED  BY <2>1, <2>3, <2>4
<1> QED  BY <1>2, <1>3

LEMMA FlattenNothing ==
  ASSUME NEW R, NEW seqs \in Seq(Seq(R)), \A j \in DOMAIN seqs : seqs[j] = <<>>
  PROVE  FlattenSeq(seqs) = <<>>
<1>1. PICK n \in Nat : n = Len(seqs) /\ DOMAIN seqs = 1..n
  OBVIOUS
<1>2. \A j \in 1..n : seqs[j] \in Seq({})
  BY <1>1, EmptySeq
<1>3. seqs \in [1..n -> Seq({})]
  BY <1>1, <1>2
<1>4. seqs \in Seq(Seq({}))
  BY <1>3, SeqDef
<1>5. PICK s \in Seq({}) : s = FlattenSeq(seqs)
  BY <1>4, FlattenHolds
<1>6. Len(s) = 0
  <2>1. Len(s) \in Nat /\ \A i \in 1..Len(s) : s[i] \in {}
    BY ElementOfSeq
  <2>2. Len(s) # 0 => 1 \in 1..Len(s)
    BY <2>1
  <2> QED  BY <2>1, <2>2
<1>7. s = <<>>
  BY <1>6, EmptySeq
<1> QED  BY <1>5, <1>7

(* What fits the budget is the beginning of what was offered. *)
LEMMA PackedIsFirst ==
  ASSUME NEW R, NEW passages \in Seq(R), NEW budget \in Nat
  PROVE  /\ Packed(passages, budget) \in Seq(R)
         /\ Len(Packed(passages, budget)) <= Len(passages)
         /\ \A i \in 1..Len(Packed(passages, budget)) : Packed(passages, budget)[i] = passages[i]
<1>1. PICK n \in Nat : n = Len(passages) /\ DOMAIN passages = 1..n
  OBVIOUS
<1> DEFINE Fits == {m \in 0..n : Tokens(SubSeq(passages, 1, m)) <= budget}
<1>2. Tokens(<<>>) = 0
  <2> DEFINE Adds(f) == f = [s \in SUBSET DOMAIN <<>> |->
                               IF s = {} THEN 0 ELSE Size[<<>>[Picked(s)]] + f[Rest(s)]]
             iter == CHOOSE f : Adds(f)
  <2>1. Tokens(<<>>) = iter[DOMAIN <<>>]
    BY DEF Tokens, MapThenSumSet, MapThenFoldSet, Picked, Rest
  <2>2. DOMAIN <<>> = {}
    OBVIOUS
  <2>3. Adds([s \in SUBSET DOMAIN <<>> |-> 0])
    BY <2>2
  <2>4. Adds(iter)
    BY <2>3
  <2> HIDE DEF iter
  <2>5. iter[{}] = 0
    BY <2>2, <2>4
  <2> QED  BY <2>1, <2>2, <2>5
<1>3. 0 \in Fits
  <2>1. SubSeq(passages, 1, 0) = <<>>
    BY <1>1
  <2>2. Tokens(SubSeq(passages, 1, 0)) = Tokens(<<>>)
    BY ONLY <2>1, Zenon
  <2>3. Tokens(SubSeq(passages, 1, 0)) <= budget
    BY <1>2, <2>2
  <2> QED  BY <1>1, <2>3
<1> HIDE DEF Fits
<1>4. \E m \in Fits : \A l \in Fits : m >= l
  <2> DEFINE Left == {n - m : m \in Fits}
  <2>1. Fits \subseteq 0..n
    BY DEF Fits
  <2>2. Left \in SUBSET Nat /\ Left # {}
    BY <1>3, <2>1
  <2>3. PICK d \in Left : \A e \in Left : d <= e
    BY <2>2, Least
  <2>4. PICK m \in Fits : d = n - m
    BY <2>3
  <2>5. ASSUME NEW l \in Fits  PROVE m >= l
    <3>1. n - m <= n - l
      BY <2>3, <2>4
    <3> QED  BY <2>1, <3>1
  <2> QED  BY <2>5
<1>5. Max(Fits) \in Fits
  BY <1>4 DEF Max
<1>6. PICK m \in 0..n : m = Max(Fits)
  BY <1>5 DEF Fits
<1>7. Packed(passages, budget) = SubSeq(passages, 1, m)
  BY <1>1, <1>6 DEF Packed, Fits
<1>8. /\ SubSeq(passages, 1, m) \in Seq(R) /\ Len(SubSeq(passages, 1, m)) = m
      /\ \A i \in 1..m : SubSeq(passages, 1, m)[i] = passages[i]
  BY <1>1
<1> QED  BY <1>1, <1>7, <1>8

(***************************************************************************)
(* What an answer is said to cite are different passages of its prompt.    *)
(***************************************************************************)
LEMMA CitedOnce ==
  ASSUME NEW cites \in Seq(Nat), NEW n \in Nat, NEW widest \in Nat
  PROVE  LET cited == parse_citations(cites, n, widest)
         IN  Len(cited) = Cardinality(Range(cited)) /\ Range(cited) \subseteq 1..n
<1> DEFINE first == {j \in DOMAIN cites : /\ cites[j] \in 1..n /\ cites[j] <= widest
                                          /\ \A l \in 1..(j - 1) : cites[l] # cites[j]}
           before == {jl \in first \X first : jl[1] < jl[2]}
           c == Cardinality(first)
           cited == parse_citations(cites, n, widest)
<1>1. PICK m \in Nat : DOMAIN cites = 1..m
  OBVIOUS
<1>2. IsFiniteSet(first) /\ c \in Nat
  <2>1. first \in SUBSET (1..m)
    BY <1>1
  <2> HIDE DEF first
  <2>2. IsFiniteSet(1..m)
    BY FS_Interval
  <2>3. IsFiniteSet(first)
    BY <2>1, <2>2, FS_Subset
  <2> QED  BY <2>3, FS_CardinalityType
<1>3. Ranks(first, before)
  <2>1. first \subseteq Nat
    BY <1>1
  <2> HIDE DEF first
  <2>2. \A x, y \in first : <<x, y>> \in before <=> x < y
    OBVIOUS
  <2> HIDE DEF before
  <2> QED  BY <2>1, <2>2 DEF Ranks
<1>4. \A j, l \in first : j # l => cites[j] # cites[l]
  BY <1>1
<1>5. \A j \in first : cites[j] \in 1..n
  OBVIOUS
<1>6. cited = [i \in DOMAIN InOrder(first, before) |-> cites[InOrder(first, before)[i]]]
  BY DEF parse_citations
<1> HIDE DEF first, before, cited
<1>7. PICK o : o = InOrder(first, before) /\ o \in [1..c -> first] /\ Different(o)
  BY <1>2, <1>3, InOrderLists
<1>8. cited = [i \in 1..c |-> cites[o[i]]]
  BY <1>6, <1>7
<1>9. /\ cited \in [1..c -> Range(cited)] /\ Range(cited) \subseteq 1..n
      /\ \A v \in Range(cited) : \E i \in 1..c : cited[i] = v
  BY <1>5, <1>7, <1>8 DEF Range
<1>10. \A i, j \in 1..c : i # j => cited[i] # cited[j]
  BY <1>4, <1>7, <1>8 DEF Different
<1>11. Cardinality(1..c) = c /\ IsFiniteSet(1..c)
  BY <1>2, FS_Interval
<1>12. Cardinality(Range(cited)) = c
  <2>1. cited \in Injection(1..c, Range(cited)) /\ cited \in Surjection(1..c, Range(cited))
    BY <1>9, <1>10 DEF Injection, IsInjective, Surjection
  <2>2. IsFiniteSet(Range(cited))
    BY <1>11, <2>1, FS_Surjection
  <2> QED  BY <1>11, <2>1, <2>2, FS_Injection
<1>13. Len(cited) = c
  BY <1>2, <1>8
<1> QED  BY <1>9, <1>12, <1>13 DEF cited
-----------------------------------------------------------------------------
(***************************************************************************)
(* The shared state of a walk: whatever it holds came from a document the  *)
(* bot may read, and the last node of the order writes the answer.         *)
(***************************************************************************)
Readable == {p \in DOMAIN Corpus.chunks : MayRead(p)}
Hit      == [by : STRING, hits : Seq(Readable)]
Entry    == [passage : Readable, by : Nat]
Over     == {"walked", "stored", "broke"}

ReadInv ==
    /\ candidates \in Seq(Hit)
    /\ selected \in Seq(Readable)
    /\ context \in Seq(Entry)
    /\ answer.cites \in Seq(Nat)
    /\ phase \in {"running"} \cup Over => TypeOf(order[Len(order)]) = "generate"
    /\ phase \in Over /\ ~ failed =>
         answer.by = order[Len(order)] /\ answer.read = Len(context)
    /\ AnswerReadAll

\* A fusion has run and no retriever since.
FusedSince ==
    \E f \in 1..(at - 1) : /\ TypeOf(order[f]) = "fusion"
                           /\ \A r \in f..(at - 1) : TypeOf(order[r]) \notin Retrievers

FusedInv ==
    /\ \A i \in DOMAIN context :
         \E j \in 1..(at - 1) : j \in DOMAIN order /\ context[i].by = order[j]
    /\ phase = "running" /\ FusedSince =>
         /\ Different(selected)
         /\ selected = <<>> => \A i \in DOMAIN candidates : candidates[i].hits = <<>>
    /\ FusedOnce

StateInv == WalkInv /\ SoundInv /\ ReadInv /\ FusedInv

LEMMA NodeIs ==
  ASSUME WalkInv, SoundInv, phase = "running"
  PROVE  /\ Node \in Ids /\ Node \in Nat /\ Cap \in Nat /\ Cap >= 1
         /\ TypeOf(Node) \in STRING
<1>1. order \in Seq(Nat) /\ at \in 1..Len(order) /\ DOMAIN order = 1..Len(order)
  BY DEF WalkInv, OrderInv, FailureInv
<1>2. Node \in Placed /\ Node \in Nat
  BY <1>1 DEF Placed, Node
<1>3. Node \in Ids /\ Sound
  BY <1>2 DEF SoundInv, AcceptsExactlySound
<1>4. NodeOf(Node).cap >= 1
  BY <1>3 DEF Sound, Suited
<1> DEFINE Record == [id : Nat, type : STRING, cap : Nat]
<1>5. \A r \in Record : r.cap \in Nat /\ r.type \in STRING
  OBVIOUS
<1>6. graph.nodes \in Seq(Record)
  BY PipelineAssumption DEF WalkInv, OrderInv
<1> HIDE DEF Record
<1>7. \E i \in DOMAIN graph.nodes : graph.nodes[i].id = Node
  BY <1>3 DEF Ids
<1>8. NodeOf(Node) \in Record
  BY <1>6, <1>7 DEF NodeOf
<1>9. NodeOf(Node).cap \in Nat /\ NodeOf(Node).type \in STRING
  BY <1>5, <1>8
<1> QED  BY <1>2, <1>3, <1>4, <1>9 DEF Cap, TypeOf

LEMMA AllowedIsReadable ==
  ASSUME NEW c \in Within(Corpus, Allowed(Corpus, Org, SourceIds))
  PROVE  c \in Readable
<1>1. PICK s \in Allowed(Corpus, Org, SourceIds) : s = Corpus.chunks[c].source
  BY DEF Within
<1>2. s \in DOMAIN Corpus.sources /\ Corpus.sources[s].org = Org
  BY DEF Allowed
<1>3. PICK t \in SourceIds \cap DOMAIN Corpus.sources :
             IsPrefix(Corpus.sources[t].path, Corpus.sources[s].path)
  BY DEF Allowed
<1>4. PICK p \in Seq(Nat) : p = Corpus.sources[s].path
  BY <1>2, PipelineAssumption
<1>5. PICK q \in Seq(Nat) : q = Corpus.sources[t].path /\ q # <<>> /\ q[Len(q)] = t
  BY <1>3, PipelineAssumption
<1>6. Len(q) <= Len(p) /\ SubSeq(q, 1, Len(q)) = SubSeq(p, 1, Len(q))
  BY <1>3, <1>4, <1>5 DEF IsPrefix
<1>7. p[Len(q)] = t /\ Len(q) \in DOMAIN p
  <2>1. Len(q) \in Nat \ {0} /\ Len(p) \in Nat /\ DOMAIN p = 1..Len(p)
    BY <1>5, EmptySeq
  <2>2. PICK l \in Nat \ {0} : l = Len(q) /\ l \in 1..Len(p) /\ l \in 1..Len(q)
    BY <1>6, <2>1
  <2>3. SubSeq(q, 1, l)[l] = q[l]
    BY <2>1, <2>2
  <2>4. SubSeq(p, 1, l)[l] = p[l]
    BY <2>1, <2>2
  <2> QED  BY <1>5, <1>6, <2>1, <2>2, <2>3, <2>4
<1>8. t \in Range(Corpus.sources[s].path) \cap SourceIds
  BY <1>3, <1>4, <1>7 DEF Range
<1>9. MayRead(c)
  BY <1>1, <1>2, <1>8 DEF MayRead
<1> QED  BY <1>9 DEF Readable, Within

LEMMA RankingsAreLists ==
  ASSUME NEW S, NEW n \in Nat, NEW hits \in Rankings(S, n)
  PROVE  hits \in Seq(S)
<1>1. hits \in [1..n -> S]
  BY DEF Rankings
<1> QED  BY <1>1, SeqDef

LEMMA SearchesRead ==
  ASSUME NEW k \in Nat, NEW hits,
         \/ hits \in dense_search(Corpus, Org, SourceIds, Model, k)
         \/ hits \in bm25_search(Corpus, Org, SourceIds, Query, k)
  PROVE  hits \in Seq(Readable)
<1> DEFINE W == Within(Corpus, Allowed(Corpus, Org, SourceIds))
<1>1. W \subseteq Readable
  BY AllowedIsReadable
<1>2. IsFiniteSet(DOMAIN Corpus.chunks) /\ W \subseteq DOMAIN Corpus.chunks
  BY PipelineAssumption DEF Within
<1>3. \A S \in SUBSET W : Cardinality(S) \in Nat
  <2>1. \A S \in SUBSET W : S \in SUBSET DOMAIN Corpus.chunks
    BY <1>2
  <2> HIDE DEF W
  <2>2. \A S \in SUBSET W : IsFiniteSet(S)
    BY <1>2, <2>1, FS_Subset
  <2> QED  BY <2>2, FS_CardinalityType
<1>4. \A m \in Nat : Min({k, m}) \in Nat
  BY DEF Min
<1>5. ASSUME NEW S \in SUBSET W, NEW n \in Nat, hits \in Rankings(S, n)
      PROVE  hits \in Seq(Readable)
  <2>1. S \subseteq Readable
    BY <1>1
  <2>2. hits \in Seq(S)
    BY <1>5, RankingsAreLists
  <2> QED  BY <2>1, <2>2, SeqMonotonic
<1>6. CASE hits \in dense_search(Corpus, Org, SourceIds, Model, k)
  <2> DEFINE found == {c \in W : Model \in Corpus.chunks[c].models}
  <2>1. PICK n \in 0..Min({k, Cardinality(found)}) : hits \in Rankings(found, n)
    BY <1>6 DEF dense_search
  <2>2. found \in SUBSET W /\ n \in Nat
    BY <1>3, <1>4, <2>1
  <2> QED  BY <1>5, <2>1, <2>2
<1>7. CASE hits \in bm25_search(Corpus, Org, SourceIds, Query, k)
  <2> DEFINE found == {c \in W : Corpus.chunks[c].words
                          \cap useful(Corpus, Allowed(Corpus, Org, SourceIds), Query) # {}}
  <2>1. hits \in Rankings(found, Min({k, Cardinality(found)}))
    BY <1>7 DEF bm25_search
  <2>2. found \in SUBSET W /\ Min({k, Cardinality(found)}) \in Nat
    BY <1>3, <1>4
  <2> QED  BY <1>5, <2>1, <2>2
<1> QED  BY <1>6, <1>7

LEMMA ListsAreRead ==
  ASSUME ReadInv
  PROVE  /\ Lists \in Seq(Seq(Readable)) /\ DOMAIN Lists = DOMAIN candidates
         /\ \A i \in DOMAIN candidates : Lists[i] = candidates[i].hits
<1>1. PICK n \in Nat : DOMAIN candidates = 1..n
  BY DEF ReadInv
<1>2. \A h \in Hit : h.hits \in Seq(Readable)
  BY DEF Hit
<1>3. \A i \in 1..n : candidates[i].hits \in Seq(Readable)
  BY <1>1, <1>2 DEF ReadInv
<1>4. Lists \in [1..n -> Seq(Readable)]
  BY <1>1, <1>3 DEF Lists
<1>5. Lists \in Seq(Seq(Readable))
  BY <1>4, SeqDef
<1> QED  BY <1>1, <1>4, <1>5 DEF Lists

LEMMA SameTypes == ASSUME graph' = graph  PROVE \A n : TypeOf(n)' = TypeOf(n)
BY DEF TypeOf, NodeOf

LEMMA FusedNext ==
  ASSUME graph' = graph, order' = order, at \in Nat \ {0}, at' = at + 1, FusedSince'
  PROVE  TypeOf(Node) \notin Retrievers /\ (TypeOf(Node) = "fusion" \/ FusedSince)
<1>1. PICK f \in 1..at : /\ TypeOf(order[f]) = "fusion"
                         /\ \A r \in f..at : TypeOf(order[r]) \notin Retrievers
  <2>1. (at + 1) - 1 = at
    OBVIOUS
  <2>2. \E f \in 1..at : /\ TypeOf(order[f])' = "fusion"
                         /\ \A r \in f..at : TypeOf(order[r])' \notin Retrievers
    BY <2>1 DEF FusedSince, Retrievers
  <2>3. \A i : TypeOf(order[i])' = TypeOf(order[i])
    BY SameTypes DEF TypeOf, NodeOf
  <2> QED  BY <2>2, <2>3
<1>2. TypeOf(order[at]) \notin Retrievers
  BY <1>1
<1>3. f # at => f \in 1..(at - 1) /\ \A r \in f..(at - 1) : r \in f..at
  BY <1>1
<1>4. f # at => FusedSince
  BY <1>1, <1>3 DEF FusedSince
<1>5. f = at => TypeOf(order[at]) = "fusion"
  BY <1>1
<1> QED  BY <1>2, <1>4, <1>5 DEF Node

LEMMA SameFused ==
  ASSUME graph' = graph, order' = order, at' = at  PROVE FusedSince' <=> FusedSince
<1>1. \A i : TypeOf(order[i])' = TypeOf(order[i])
  BY DEF TypeOf, NodeOf
<1> QED  BY <1>1 DEF FusedSince, Retrievers

\* A step that packs nothing keeps the promise about what was packed.
LEMMA FusedGoesOn ==
  ASSUME StateInv, graph' = graph, order' = order, at \in Nat, at' \in {at, at + 1},
         context' = context,
         phase' = "running" /\ FusedSince' =>
            /\ Different(selected')
            /\ selected' = <<>> => \A i \in DOMAIN candidates' : candidates'[i].hits = <<>>
  PROVE  FusedInv'
<1>1. \A i \in DOMAIN context : \E j \in 1..(at - 1) : j \in DOMAIN order /\ context[i].by = order[j]
  BY DEF StateInv, FusedInv
<1>2. \A j \in 1..(at - 1) : j \in 1..(at' - 1)
  <2>1. CASE at' = at
    BY <2>1
  <2>2. CASE at' = at + 1
    BY <2>2
  <2> QED  BY <2>1, <2>2
<1>3. \A i \in DOMAIN context' : \E j \in 1..(at' - 1) : j \in DOMAIN order' /\ context'[i].by = order'[j]
  BY <1>1, <1>2
<1>4. FusedOnce'
  <2>1. \A i : TypeOf(order[i])' = TypeOf(order[i])
    BY DEF TypeOf, NodeOf
  <2>2. \A b : FusedBefore(b)' <=> FusedBefore(b)
    BY <2>1 DEF FusedBefore, Retrievers
  <2>3. FusedOnce
    BY SMTT(30) DEF StateInv, FusedInv
  <2> QED  BY <2>1, <2>2, <2>3 DEF FusedOnce
<1> QED  BY <1>3, <1>4 DEF FusedInv, Different

LEMMA LastGenerates ==
  ASSUME StateInv, phase = "running"
  PROVE  /\ at \in 1..Len(order) /\ Len(order) \in Nat /\ DOMAIN order = 1..Len(order)
         /\ at = Len(order) => TypeOf(Node) = "generate"
         /\ Node = order[at]
<1>1. at \in 1..Len(order) /\ order \in Seq(Nat)
  BY DEF StateInv, WalkInv, FailureInv, OrderInv
<1>2. Len(order) \in Nat /\ DOMAIN order = 1..Len(order)
  BY <1>1, LenProperties
<1>3. TypeOf(order[Len(order)]) = "generate"
  BY DEF StateInv, ReadInv
<1> QED  BY <1>1, <1>2, <1>3 DEF Node

LEMMA RunningAt ==
  ASSUME StateInv, phase = "running"
  PROVE  \E n \in Nat : DOMAIN order = 1..n /\ at \in 1..n
<1>1. PICK n \in Nat : n = Len(order)
  BY LastGenerates
<1>2. DOMAIN order = 1..n
  BY <1>1, LastGenerates, Zenon
<1>3. at \in 1..n
  BY <1>1, LastGenerates, Zenon
<1> QED  BY <1>1, <1>2, <1>3, Zenon

LEMMA EarlierNodes ==
  ASSUME StateInv, phase = "running"
  PROVE  /\ at \in Nat \ {0} /\ at \in DOMAIN order /\ at \in 1..at /\ (at + 1) - 1 = at
         /\ \A j \in 1..(at - 1) : j \in DOMAIN order /\ j \in 1..at /\ order[j] # order[at]
<1>1. PICK n \in Nat : DOMAIN order = 1..n /\ at \in 1..n
  BY RunningAt
<1>2. PICK a \in 1..n : a = at
  BY <1>1
<1>3. a \in Nat \ {0} /\ a \in 1..a /\ (a + 1) - 1 = a
  OBVIOUS
<1>4. \A j \in 1..(a - 1) : j \in 1..n /\ j \in 1..a /\ j # a
  OBVIOUS
<1>5. \A i, j \in DOMAIN order : i # j => order[i] # order[j]
  BY DEF StateInv, SoundInv
<1>6. \A j \in 1..(a - 1) : order[j] # order[a]
  BY <1>1, <1>4, <1>5
<1> QED  BY <1>1, <1>2, <1>3, <1>4, <1>6

LEMMA BeforeStep ==
  ASSUME StateInv, Count \/ Pop \/ Ordered \/ Check  PROVE ReadInv' /\ FusedInv'
<1>1. /\ graph' = graph /\ phase \in Before /\ phase' \in Before \cup {"running"}
      /\ at' = at /\ at = 1
      /\ UNCHANGED <<candidates, selected, context, answer, failed>>
  BY DEF Count, Pop, Ordered, Check, turnVars, stateVars, Before, StateInv, WalkInv, FailureInv
<1>2. phase' = "running" => order' = order /\ TypeOf(order[Len(order)]) = "generate"
  BY DEF Count, Pop, Ordered, Check, orderVars, validate_dag
<1>3. phase' = "running" => TypeOf(order[Len(order)])' = "generate"
  BY <1>1, <1>2 DEF TypeOf, NodeOf
<1>4. ReadInv'
  BY <1>1, <1>3 DEF StateInv, ReadInv, AnswerReadAll, Before, Over
<1>5. DOMAIN context = {}
  <2>1. 1..(at - 1) = {}
    BY <1>1
  <2> QED  BY <2>1 DEF StateInv, FusedInv
<1>6. ~ FusedSince'
  BY <1>1 DEF FusedSince
<1>7. FusedOnce'
  BY <1>1, <1>5 DEF FusedOnce
<1> QED  BY <1>1, <1>4, <1>5, <1>6, <1>7 DEF FusedInv

LEMMA StoreStep == ASSUME StateInv, StoreRun  PROVE ReadInv' /\ FusedInv'
<1>1. /\ phase = "walked" /\ phase' \in {"stored", "broke"} /\ graph' = graph /\ order' = order
      /\ UNCHANGED <<at, candidates, selected, context, answer, failed>>
  BY DEF StoreRun, orderVars, turnVars, stateVars
<1>2. TypeOf(order[Len(order)])' = TypeOf(order[Len(order)])
  BY <1>1 DEF TypeOf, NodeOf
<1>3. AnswerReadAll'
  <2> SUFFICES ASSUME phase' = "stored", stored'.status = "ok"
               PROVE  /\ \A i \in DOMAIN context : MayRead(context[i].passage)
                      /\ answer.by = order[Len(order)]
                      /\ answer.read = Len(context)
                      /\ Len(stored'.citations) = Cardinality(Range(stored'.citations))
                      /\ Range(stored'.citations) \subseteq 1..answer.read
    BY <1>1 DEF AnswerReadAll, MayRead
  <2> DEFINE told  == \E i \in DOMAIN events : events[i].kind = "error"
             cited == parse_citations(answer.cites, Len(context), Widest)
  <2>1. stored' = [status |-> IF failed THEN "failed" ELSE "ok", error |-> told, citations |-> cited]
    BY DEF StoreRun
  <2> HIDE DEF told, cited
  <2>2. ~ failed /\ stored'.citations = cited
    BY <2>1
  <2>3. answer.by = order[Len(order)] /\ answer.read = Len(context)
    BY <1>1, <2>2 DEF StateInv, ReadInv, Over
  <2>4. context \in Seq(Entry) /\ answer.cites \in Seq(Nat)
    BY DEF StateInv, ReadInv
  <2>5. \A i \in DOMAIN context : MayRead(context[i].passage)
    <3>1. \A e \in Entry : e.passage \in Readable
      BY DEF Entry
    <3>2. \A i \in DOMAIN context : context[i] \in Entry
      BY <2>4
    <3> QED  BY <3>1, <3>2 DEF Readable
  <2>6. Len(context) \in Nat /\ Widest \in Nat
    BY <2>4, PipelineAssumption
  <2>7. Len(cited) = Cardinality(Range(cited)) /\ Range(cited) \subseteq 1..Len(context)
    BY <2>4, <2>6, CitedOnce DEF cited
  <2> QED  BY <2>2, <2>3, <2>5, <2>7
<1>4. ReadInv'
  BY <1>1, <1>2, <1>3 DEF StateInv, ReadInv, Over
<1>5. FusedInv'
  <2>1. FusedInv /\ phase' # "running"
    BY <1>1 DEF StateInv
  <2>2. \A i : TypeOf(order[i])' = TypeOf(order[i])
    BY <1>1 DEF TypeOf, NodeOf
  <2>3. \A b : FusedBefore(b)' <=> FusedBefore(b)
    BY <1>1, <2>2 DEF FusedBefore, Retrievers
  <2>4. FusedOnce'
    BY <1>1, <2>1, <2>2, <2>3 DEF FusedInv, FusedOnce
  <2> QED  BY <1>1, <2>1, <2>4 DEF FusedInv
<1> QED  BY <1>4, <1>5

\* What a step of the walk has to show of the state it leaves.
LEMMA WalkReads ==
  ASSUME StateInv, Walking, candidates' \in Seq(Hit), selected' \in Seq(Readable),
         context' \in Seq(Entry), answer'.cites \in Seq(Nat),
         phase' = "walked" /\ ~ failed' =>
            answer'.by = order[Len(order)] /\ answer'.read = Len(context')
  PROVE  ReadInv'
<1>1. /\ graph' = graph /\ order' = order /\ phase = "running"
      /\ phase' \in {"running", "walked"}
  BY WalkStep
<1>2. TypeOf(order[Len(order)])' = TypeOf(order[Len(order)])
  BY <1>1 DEF TypeOf, NodeOf
<1>3. TypeOf(order[Len(order)]) = "generate"
  BY <1>1 DEF StateInv, ReadInv
<1> QED  BY <1>1, <1>2, <1>3 DEF ReadInv, AnswerReadAll, Over

LEMMA SearchStep ==
  ASSUME StateInv, DenseRetriever \/ Bm25Retriever  PROVE ReadInv' /\ FusedInv'
<1>1. phase = "running" /\ TypeOf(Node) \in Retrievers /\ Walking
  BY DEF DenseRetriever, Bm25Retriever, Runs, Walking, Retrievers
<1>2. /\ Node \in Nat /\ Cap \in Nat /\ TypeOf(Node) \in STRING
      /\ at \in 1..Len(order) /\ at # Len(order)
  BY <1>1, NodeIs, LastGenerates DEF StateInv, Retrievers
<1>3. PICK hits \in Seq(Readable) : Finds(hits)
  BY <1>2, SearchesRead DEF DenseRetriever, Bm25Retriever
<1> DEFINE found == [by |-> TypeOf(Node), hits |-> hits]
           same  == {i \in DOMAIN candidates : candidates[i].by = found.by}
<1>4. /\ candidates' = IF same = {} THEN Append(candidates, found)
                       ELSE [i \in DOMAIN candidates |-> IF i \in same THEN found ELSE candidates[i]]
      /\ at' = at + 1 /\ phase' = "running" /\ graph' = graph /\ order' = order
      /\ UNCHANGED <<selected, context, answer, failed>>
  BY <1>2, <1>3 DEF Finds, Done, orderVars
<1>5. candidates' \in Seq(Hit)
  <2>1. found \in Hit
    BY <1>2 DEF Hit
  <2> HIDE DEF found, same
  <2>2. candidates \in Seq(Hit)
    BY DEF StateInv, ReadInv
  <2>3. Append(candidates, found) \in Seq(Hit)
    BY <2>1, <2>2
  <2>4. [i \in DOMAIN candidates |-> IF i \in same THEN found ELSE candidates[i]] \in Seq(Hit)
    <3>1. PICK n \in Nat : DOMAIN candidates = 1..n /\ candidates \in [1..n -> Hit]
      BY <2>2
    <3>2. [i \in 1..n |-> IF i \in same THEN found ELSE candidates[i]] \in [1..n -> Hit]
      BY <2>1, <3>1
    <3> QED  BY <3>1, <3>2, SeqDef
  <2> QED  BY <1>4, <2>3, <2>4
<1>6. ReadInv'
  BY <1>1, <1>4, <1>5, WalkReads DEF StateInv, ReadInv
<1>7. ~ FusedSince'
  BY <1>1, <1>2, <1>4, FusedNext
<1> QED  BY <1>2, <1>4, <1>6, <1>7, FusedGoesOn

LEMMA FuseStep == ASSUME StateInv, Fuse  PROVE ReadInv' /\ FusedInv'
<1>1. phase = "running" /\ TypeOf(Node) = "fusion" /\ Walking
  BY DEF Fuse, Runs, Walking
<1>2. /\ Cap \in Nat /\ Cap >= 1 /\ at \in 1..Len(order) /\ at # Len(order)
  BY <1>1, NodeIs, LastGenerates DEF StateInv
<1>3. /\ selected' = reciprocal_rank_fusion(Lists, K, Cap)
      /\ at' = at + 1 /\ phase' = "running" /\ graph' = graph /\ order' = order
      /\ UNCHANGED <<candidates, context, answer, failed>>
  BY <1>2 DEF Fuse, Done, orderVars
<1>4. /\ Lists \in Seq(Seq(Readable)) /\ DOMAIN Lists = DOMAIN candidates
      /\ \A i \in DOMAIN candidates : Lists[i] = candidates[i].hits
  BY ListsAreRead DEF StateInv
<1>5. Readable \in SUBSET Nat /\ K \in Nat \ {0}
  BY PipelineAssumption DEF Readable
<1>6. /\ selected' \in Seq(Readable) /\ Different(selected')
      /\ selected' = <<>> => \A j \in DOMAIN Lists : Lists[j] = <<>>
  BY <1>2, <1>3, <1>4, <1>5, FusionHolds
<1>7. ReadInv'
  BY <1>1, <1>3, <1>6, WalkReads DEF StateInv, ReadInv
<1>8. selected' = <<>> => \A i \in DOMAIN candidates' : candidates'[i].hits = <<>>
  BY <1>3, <1>4, <1>6
<1> QED  BY <1>2, <1>3, <1>6, <1>7, <1>8, FusedGoesOn

LEMMA RerankStep == ASSUME StateInv, Rerank  PROVE ReadInv' /\ FusedInv'
<1>1. phase = "running" /\ TypeOf(Node) = "rerank" /\ Walking
  BY DEF Rerank, Runs, Walking
<1>2. /\ Cap \in Nat /\ Cap >= 1 /\ at \in 1..Len(order) /\ at # Len(order)
  BY <1>1, NodeIs, LastGenerates DEF StateInv
<1>3. PICK list : /\ list = (IF selected # <<>> THEN selected ELSE FlattenSeq(Lists))
                  /\ selected' \in rerank(list, RerankHead, Cap)
  BY DEF Rerank
<1>4. /\ at' = at + 1 /\ phase' = "running" /\ graph' = graph /\ order' = order
      /\ UNCHANGED <<candidates, context, answer, failed>>
  BY <1>2 DEF Rerank, Done, orderVars
<1>5. /\ Lists \in Seq(Seq(Readable)) /\ DOMAIN Lists = DOMAIN candidates
      /\ \A i \in DOMAIN candidates : Lists[i] = candidates[i].hits
  BY ListsAreRead DEF StateInv
<1>6. selected \in Seq(Readable) /\ FlattenSeq(Lists) \in Seq(Readable)
  BY <1>5, FlattenHolds DEF StateInv, ReadInv
<1>7. list \in Seq(Readable) /\ RerankHead \in Nat
  BY <1>3, <1>6, PipelineAssumption
<1>8. /\ selected' \in Seq(Readable) /\ (Different(list) => Different(selected'))
      /\ list # <<>> => selected' # <<>>
  BY <1>2, <1>3, <1>7, RerankHolds
<1>9. ReadInv'
  BY <1>1, <1>4, <1>8, WalkReads DEF StateInv, ReadInv
<1>10. ASSUME FusedSince'
       PROVE  /\ Different(selected')
              /\ selected' = <<>> => \A i \in DOMAIN candidates' : candidates'[i].hits = <<>>
  <2>1. FusedSince
    BY <1>1, <1>2, <1>4, <1>10, FusedNext
  <2>2. /\ Different(selected)
        /\ selected = <<>> => \A i \in DOMAIN candidates : candidates[i].hits = <<>>
    BY <1>1, <2>1 DEF StateInv, FusedInv
  <2>3. CASE selected # <<>>
    BY <1>3, <1>8, <2>2, <2>3
  <2>4. CASE selected = <<>>
    <3>1. list = <<>>
      BY <1>3, <1>5, <2>2, <2>4, FlattenNothing
    <3>2. Different(list)
      BY <3>1 DEF Different
    <3> QED  BY <1>4, <1>8, <2>2, <2>4, <3>2
  <2> QED  BY <2>3, <2>4
<1> QED  BY <1>2, <1>4, <1>9, <1>10, FusedGoesOn

LEMMA BuildStep == ASSUME StateInv, BuildContext  PROVE ReadInv' /\ FusedInv'
<1>1. phase = "running" /\ TypeOf(Node) = "context_builder" /\ Walking
  BY DEF BuildContext, Runs, Walking
<1>2. Cap \in Nat /\ Node \in Nat /\ Node = order[at] /\ at # Len(order)
  BY <1>1, NodeIs, LastGenerates DEF StateInv
<1>a. at \in Nat \ {0} /\ at \in DOMAIN order /\ at \in 1..at /\ (at + 1) - 1 = at
  BY <1>1, EarlierNodes
<1>3. PICK fits : /\ fits = Packed(selected, Cap)
                  /\ context' = context \o [i \in DOMAIN fits |-> [passage |-> fits[i], by |-> Node]]
  BY DEF BuildContext
<1>4. /\ at' = at + 1 /\ phase' = "running" /\ graph' = graph /\ order' = order
      /\ UNCHANGED <<candidates, selected, answer, failed>>
  BY <1>2 DEF BuildContext, Done, orderVars
<1>5. selected \in Seq(Readable) /\ context \in Seq(Entry)
  BY DEF StateInv, ReadInv
<1>6. /\ fits \in Seq(Readable) /\ Len(fits) <= Len(selected)
      /\ \A i \in 1..Len(fits) : fits[i] = selected[i]
  BY <1>2, <1>3, <1>5, PackedIsFirst
<1>7. PICK m \in Nat, n \in Nat : /\ m = Len(context) /\ DOMAIN context = 1..m
                                  /\ n = Len(fits) /\ DOMAIN fits = 1..n
  BY <1>5, <1>6, LenProperties
<1>8. PICK new : new = [i \in 1..n |-> [passage |-> fits[i], by |-> Node]]
  OBVIOUS
<1>9. new \in Seq(Entry) /\ Len(new) = n
  <2>0. \A i \in 1..n : fits[i] \in Readable
    BY <1>6, <1>7, ElementOfSeq
  <2>1. \A i \in 1..n : new[i] \in Entry
    BY <1>2, <1>8, <2>0 DEF Entry
  <2>2. new \in [1..n -> Entry]
    BY <1>8, <2>1
  <2>3. new \in Seq(Entry)
    BY <2>2, SeqDef
  <2> QED  BY <1>8, <2>3, LenProperties
<1>10. context' = context \o new
  BY <1>3, <1>7, <1>8
<1>11. /\ context' \in Seq(Entry) /\ Len(context') = m + n
       /\ \A i \in 1..(m + n) : context'[i] = IF i <= m THEN context[i] ELSE new[i - m]
  <2>1. /\ context \o new \in Seq(Entry) /\ Len(context \o new) = Len(context) + Len(new)
        /\ \A i \in 1..(Len(context) + Len(new)) :
             (context \o new)[i] = IF i <= Len(context) THEN context[i] ELSE new[i - Len(context)]
    BY <1>5, <1>9, ConcatProperties
  <2> QED  BY <1>7, <1>9, <1>10, <2>1
<1>12. DOMAIN context' = 1..(m + n)
  BY <1>11, LenProperties
<1>13. ReadInv'
  BY <1>1, <1>4, <1>11, WalkReads DEF StateInv, ReadInv
<1>14. \A i \in 1..m : context'[i] = context[i] /\ \E j \in 1..(at - 1) : context[i].by = order[j]
  <2>1. \A i \in 1..m : i \in 1..(m + n) /\ i <= m
    OBVIOUS
  <2> QED  BY <1>7, <1>11, <2>1 DEF StateInv, FusedInv
<1>15. \A i \in (m + 1)..(m + n) : /\ i - m \in 1..n /\ context'[i] = new[i - m]
                                   /\ context'[i].by = Node /\ context'[i].passage = fits[i - m]
  <2>1. \A i \in (m + 1)..(m + n) : i \in 1..(m + n) /\ ~ (i <= m) /\ i - m \in 1..n
    OBVIOUS
  <2>2. \A i \in 1..n : new[i].by = Node /\ new[i].passage = fits[i]
    BY <1>8
  <2> QED  BY <1>11, <2>1, <2>2
<1>16. \A i \in 1..(m + n) : i \in 1..m \/ i \in (m + 1)..(m + n)
  OBVIOUS
<1>17. \A j \in 1..(at - 1) : order[j] # order[at] /\ j \in DOMAIN order /\ j \in 1..at
  BY <1>1, EarlierNodes
<1>18. \A i \in DOMAIN context' : \E j \in 1..at : j \in DOMAIN order /\ context'[i].by = order[j]
  <2>2. \A i \in 1..m : \E j \in 1..at : j \in DOMAIN order /\ context'[i].by = order[j]
    BY <1>14, <1>17
  <2>3. \A i \in (m + 1)..(m + n) : context'[i].by = order[at]
    BY <1>2, <1>15
  <2> QED  BY <1>12, <1>16, <1>a, <2>2, <2>3
<1>19. \A i : TypeOf(order[i])' = TypeOf(order[i])
  BY <1>4 DEF TypeOf, NodeOf
<1>20. FusedOnce'
  <2> SUFFICES ASSUME NEW b \in DOMAIN order, TypeOf(order[b]) = "context_builder", FusedBefore(b),
                      NEW i \in DOMAIN context', NEW j \in DOMAIN context', i # j,
                      context'[i].by = order[b], context'[j].by = order[b]
               PROVE  context'[i].passage # context'[j].passage
    <3>1. \A b : FusedBefore(b)' <=> FusedBefore(b)
      BY <1>4, <1>19 DEF FusedBefore, Retrievers
    <3> QED  BY <1>4, <1>19, <3>1 DEF FusedOnce
  <2>1. CASE b = at
    <3>1. i \in (m + 1)..(m + n) /\ j \in (m + 1)..(m + n)
      <4>1. i \notin 1..m /\ j \notin 1..m
        <5>1. \A x \in 1..m : context'[x].by # order[at]
          BY <1>14, <1>17
        <5> QED  BY <2>1, <5>1
      <4> QED  BY <1>12, <1>16, <4>1
    <3>2. FusedSince
      <4>1. PICK f \in 1..(at - 1) : /\ TypeOf(order[f]) = "fusion"
                                     /\ \A r \in f..at : TypeOf(order[r]) \notin Retrievers
        BY <2>1 DEF FusedBefore
      <4>2. \A r \in f..(at - 1) : r \in f..at
        BY <1>a
      <4> QED  BY <4>1, <4>2 DEF FusedSince
    <3>3. Different(selected)
      BY <1>1, <3>2 DEF StateInv, FusedInv
    <3>4. /\ i - m \in 1..n /\ j - m \in 1..n /\ i - m # j - m
          /\ context'[i].passage = fits[i - m] /\ context'[j].passage = fits[j - m]
      BY <1>15, <3>1
    <3>5. \A x \in 1..n : x \in DOMAIN selected /\ fits[x] = selected[x]
      <4>1. Len(selected) \in Nat /\ DOMAIN selected = 1..Len(selected)
        BY <1>5, LenProperties
      <4> QED  BY <1>6, <1>7, <4>1
    <3> QED  BY <3>3, <3>4, <3>5 DEF Different
  <2>2. CASE b # at
    <3>1. order[b] # Node
      BY <1>2, <1>a, <2>2 DEF StateInv, SoundInv
    <3>2. i \in 1..m /\ j \in 1..m
      BY <1>12, <1>15, <1>16, <3>1
    <3>3. context'[i] = context[i] /\ context'[j] = context[j]
      BY <1>14, <3>2
    <3> QED  BY <1>7, <3>2, <3>3 DEF StateInv, FusedInv, FusedOnce
  <2> QED  BY <2>1, <2>2
<1>21. FusedSince' => /\ Different(selected')
                      /\ selected' = <<>> => \A i \in DOMAIN candidates' : candidates'[i].hits = <<>>
  <2>1. FusedSince' => FusedSince
    BY <1>1, <1>4, <1>a, FusedNext
  <2>2. FusedSince => /\ Different(selected)
                      /\ selected = <<>> => \A i \in DOMAIN candidates : candidates[i].hits = <<>>
    BY <1>1 DEF StateInv, FusedInv
  <2> QED  BY <1>4, <2>1, <2>2
<1>22. FusedInv'
  BY <1>4, <1>18, <1>20, <1>21, <1>a DEF FusedInv
<1> QED  BY <1>13, <1>22

LEMMA AnswerStep ==
  ASSUME StateInv, \/ Generate \/ GenerateFails \/ AgentCallsTools \/ AgentAnswers
                   \/ AgentFails \/ NodeBreaks
  PROVE  ReadInv' /\ FusedInv'
<1>1. /\ phase = "running" /\ Walking /\ graph' = graph /\ order' = order
      /\ UNCHANGED <<candidates, selected, context>>
  BY WalkStep DEF Walking, Generate, GenerateFails, AgentCallsTools, AgentAnswers, AgentFails,
                  NodeBreaks, Runs, stateVars
<1>2. /\ at \in 1..Len(order) /\ Node = order[at] /\ Len(order) \in Nat
      /\ at = Len(order) => TypeOf(Node) = "generate"
  BY <1>1, LastGenerates
<1>3. /\ candidates' \in Seq(Hit) /\ selected' \in Seq(Readable) /\ context' \in Seq(Entry)
      /\ answer.cites \in Seq(Nat)
  BY <1>1 DEF StateInv, ReadInv
<1>4. CASE Generate
  <2>1. PICK cites \in Cites : answer' = [by |-> Node, cites |-> cites, read |-> Len(context)]
    BY <1>4 DEF Generate, Answers
  <2>2. cites \in Seq(Nat)
    BY <2>1, PipelineAssumption
  <2>3. answer'.by = Node /\ answer'.read = Len(context) /\ answer'.cites \in Seq(Nat)
    BY <2>1, <2>2
  <2>4. /\ at' = at + 1 /\ (phase' = "walked" => at = Len(order)) /\ TypeOf(Node) # "fusion"
    BY <1>4 DEF Generate, Done, Runs
  <2>5. ReadInv'
    BY <1>1, <1>2, <1>3, <2>3, <2>4, WalkReads
  <2>6. FusedSince' => FusedSince
    BY <1>1, <1>2, <2>4, FusedNext
  <2>7. FusedInv'
    BY <1>1, <1>2, <2>4, <2>6, FusedGoesOn DEF StateInv, FusedInv
  <2> QED  BY <2>5, <2>7
<1>5. CASE AgentAnswers
  <2>1. PICK cites \in Cites, read \in {0, Len(context)} :
               answer' = [by |-> Node, cites |-> cites, read |-> read]
    BY <1>5 DEF AgentAnswers, Answers
  <2>2. answer'.cites \in Seq(Nat)
    BY <2>1, PipelineAssumption
  <2>3. TypeOf(Node) = "agent" /\ at' = at + 1 /\ (phase' = "walked" => at = Len(order))
    BY <1>5 DEF AgentAnswers, Done, Runs
  <2>4. ReadInv'
    BY <1>1, <1>2, <1>3, <2>2, <2>3, WalkReads
  <2>5. FusedSince' => FusedSince
    BY <1>1, <1>2, <2>3, FusedNext
  <2>6. FusedInv'
    BY <1>1, <1>2, <2>3, <2>5, FusedGoesOn DEF StateInv, FusedInv
  <2> QED  BY <2>4, <2>6
<1>6. CASE GenerateFails \/ AgentCallsTools \/ AgentFails \/ NodeBreaks
  <2>1. at' = at /\ (phase' = "walked" => failed')
    BY <1>6 DEF GenerateFails, AgentCallsTools, AgentFails, NodeBreaks, Runs
  <2>2. answer'.cites \in Seq(Nat)
    <3>1. CASE GenerateFails \/ AgentCallsTools \/ NodeBreaks
      BY <1>3, <3>1 DEF GenerateFails, AgentCallsTools, NodeBreaks, stateVars
    <3>2. CASE AgentFails
      <4>1. answer' = [by |-> Node, cites |-> <<>>, read |-> Len(context)]
        BY <3>2 DEF AgentFails
      <4> QED  BY <4>1, EmptySeq
    <3> QED  BY <1>6, <3>1, <3>2
  <2>3. ReadInv'
    BY <1>1, <1>3, <2>1, <2>2, WalkReads
  <2>4. FusedSince' => FusedSince
    BY <1>1, <2>1, SameFused
  <2>5. FusedInv'
    BY <1>1, <1>2, <2>1, <2>4, FusedGoesOn DEF StateInv, FusedInv
  <2> QED  BY <2>3, <2>5
<1> QED  BY <1>4, <1>5, <1>6

LEMMA StateInit == Init => StateInv
<1> SUFFICES ASSUME Init  PROVE StateInv
  OBVIOUS
<1>1. WalkInv
  <2>1. events = <<>> /\ failed = FALSE /\ phase = "new" /\ at = 1
    BY DEF Init
  <2>2. events \in Seq(Event) /\ Errors = {}
    BY <2>1 DEF Errors
  <2> QED  BY <2>1, <2>2, OrderInit DEF WalkInv, FailureInv, Before
<1>2. ReadInv
  <2>1. /\ candidates = <<>> /\ selected = <<>> /\ context = <<>> /\ answer.cites = <<>> /\ phase = "new"
    BY DEF Init, NoAnswer
  <2> QED  BY <2>1, EmptySeq DEF ReadInv, AnswerReadAll, Over
<1>3. FusedInv
  <2>1. context = <<>> /\ phase = "new"
    BY DEF Init
  <2> QED  BY <2>1 DEF FusedInv, FusedOnce
<1> QED  BY <1>1, <1>2, <1>3, SoundInit DEF StateInv

LEMMA StateStep == StateInv /\ [Next]_vars => StateInv'
<1> SUFFICES ASSUME StateInv, [Next]_vars  PROVE StateInv'
  OBVIOUS
<1>1. OrderInv' /\ FailureInv' /\ SoundInv'
  BY OrderStep, FailureStep, SoundStep DEF StateInv, WalkInv
<1>2. CASE UNCHANGED vars
  <2>1. UNCHANGED <<graph, phase, order, at, candidates, selected, context, answer, failed, stored>>
    BY <1>2 DEF vars, orderVars, turnVars, stateVars
  <2>2. \A i : TypeOf(order[i])' = TypeOf(order[i])
    BY <2>1 DEF TypeOf, NodeOf
  <2>3. FusedSince' <=> FusedSince
    BY <2>1, SameFused
  <2>4. \A b : FusedBefore(b)' <=> FusedBefore(b)
    BY <2>1, <2>2 DEF FusedBefore, Retrievers
  <2>5. FusedOnce'
    BY <2>1, <2>2, <2>4 DEF StateInv, FusedInv, FusedOnce
  <2>6. FusedInv'
    BY <2>1, <2>3, <2>5 DEF StateInv, FusedInv, Different
  <2>7. ReadInv'
    BY <2>1, <2>2 DEF StateInv, ReadInv, AnswerReadAll, MayRead
  <2> QED  BY <1>1, <2>6, <2>7 DEF StateInv, WalkInv
<1>3. CASE Next
  <2>1. (ReadInv' /\ FusedInv') \/ UNCHANGED vars
    BY <1>3, BeforeStep, StoreStep, SearchStep, FuseStep, RerankStep, BuildStep, AnswerStep
       DEF Next, Ended
  <2> QED  BY <1>1, <1>2, <2>1 DEF StateInv, WalkInv
<1> QED  BY <1>2, <1>3

(***************************************************************************)
(* Generate: an answer that is stored had every packed passage in its      *)
(* prompt, was written by the last node, and cites different passages of   *)
(* that prompt, all from documents the bot may read, whatever graph the    *)
(* editor accepted, whatever the searches found and whatever markers the   *)
(* model wrote.                                                            *)
(***************************************************************************)
THEOREM StoredAnswersReadAll == Spec => []AnswerReadAll
<1>1. StateInv => AnswerReadAll
  BY DEF StateInv, ReadInv
<1> QED  BY StateInit, StateStep, <1>1, PTL DEF Spec

(***************************************************************************)
(* Fusion: whatever the retrievers found and whatever the reranker made of *)
(* it, what a builder packs after a fusion holds no passage twice.         *)
(***************************************************************************)
THEOREM NothingIsPackedTwice == Spec => []FusedOnce
<1>1. StateInv => FusedOnce
  BY DEF StateInv, FusedInv
<1> QED  BY StateInit, StateStep, <1>1, PTL DEF Spec
-----------------------------------------------------------------------------
(***************************************************************************)
(* Passages: parsing and chunking, for any settings, widths, levels and    *)
(* bounds.                                                                 *)
(***************************************************************************)
\* What is made of these words, and the breaks between them.
TokensOf(words) == {t \in Nat \X Nat \X BOOLEAN \X After : t = Break \/ <<t[1], t[2]>> \in words}
Texts(words)  == Seq(TokensOf(words))

(* The largest of some numbers up to n. *)
LEMMA Greatest ==
  ASSUME NEW n \in Nat, NEW T \in SUBSET (0..n), T # {}
  PROVE  Max(T) \in T /\ \A m \in T : m <= Max(T)
<1> DEFINE Gaps == {n - m : m \in T}
<1>0. \A m \in T : m \in 0..n /\ n - m \in Nat
  OBVIOUS
<1>1. Gaps \in SUBSET Nat /\ Gaps # {}
  BY <1>0
<1>2. PICK g \in Gaps : \A h \in Gaps : g <= h
  BY <1>1, Least
<1>3. PICK m \in T : g = n - m
  BY <1>2
<1>4. \A k \in T : m >= k
  <2> TAKE k \in T
  <2>1. n - k \in Gaps /\ k \in Int /\ m \in Int
    OBVIOUS
  <2>2. n - m <= n - k
    BY <1>2, <1>3, <2>1
  <2> QED  BY <2>1, <2>2
<1>5. \A k \in T : k \in Int
  OBVIOUS
<1> QED  BY <1>4, <1>5 DEF Max

LEMMA Smallest ==
  ASSUME NEW n \in Nat, NEW T \in SUBSET (1..n), T # {}
  PROVE  Min(T) \in T
<1>1. T \in SUBSET Nat
  OBVIOUS
<1>2. PICK m \in T : \A k \in T : m <= k
  BY <1>1, Least
<1>3. \A k \in T : m =< k
  BY <1>2
<1> QED  BY <1>3 DEF Min

LEMMA Refollowed ==
  ASSUME NEW words, NEW token \in TokensOf(words), token # Break, NEW after \in After
  PROVE  <<token[1], token[2], token[3], after>> \in TokensOf(words)
<1>1. PICK i \in Nat, j \in Nat, b \in BOOLEAN, a \in After : token = <<i, j, b, a>>
  BY DEF TokensOf
<1>2. <<i, j>> \in words
  BY <1>1 DEF TokensOf
<1>3. <<i, j, b, after>> \in Nat \X Nat \X BOOLEAN \X After
  OBVIOUS
<1>4. <<token[1], token[2], token[3], after>> = <<i, j, b, after>>
  BY <1>1
<1>5. <<i, j, b, after>> \in TokensOf(words)
  BY <1>2, <1>3 DEF TokensOf
<1> QED  BY <1>4, <1>5

\* The second line break of an empty line is of no word.
LEMMA BreakIsToken == ASSUME NEW words  PROVE Break \in TokensOf(words)
<1>1. Break \in Nat \X Nat \X BOOLEAN \X After
  BY DEF Break, After
<1> QED  BY <1>1 DEF TokensOf

LEMMA FollowedText ==
  ASSUME NEW words, NEW text \in Texts(words), NEW after \in After
  PROVE  Followed(text, after) \in Texts(words) /\ Len(Followed(text, after)) = Len(text)
<1> DEFINE n == Len(text)
           new == IF text[n] = Break THEN Break ELSE <<text[n][1], text[n][2], text[n][3], after>>
<1>1. n \in Nat /\ text \in [1..n -> TokensOf(words)] /\ DOMAIN text = 1..n
  BY LenProperties DEF Texts
<1>2. Followed(text, after) = [text EXCEPT ![n] = new]
  BY DEF Followed
<1>3. CASE n = 0
  <2> HIDE DEF new
  <2>0. DOMAIN text = {}
    BY <1>1, <1>3
  <2>1. [text EXCEPT ![n] = new] = text
    BY <1>1, <2>0
  <2> QED  BY <1>2, <2>1
<1>4. CASE n # 0
  <2>1. n \in 1..n /\ text[n] \in TokensOf(words)
    BY <1>1, <1>4
  <2>2. Break \in TokensOf(words)
    BY BreakIsToken
  <2>3. new \in TokensOf(words)
    BY <2>1, <2>2, Refollowed
  <2> HIDE DEF new
  <2> QED  BY <1>2, <2>1, <2>3, ExceptSeq DEF Texts
<1> QED  BY <1>3, <1>4

LEMMA StripText ==
  ASSUME NEW words, NEW text \in Texts(words)
  PROVE  strip(text) \in Texts(words) /\ Len(strip(text)) <= Len(text)
<1> DEFINE n == Len(text)
           wordAt == {i \in DOMAIN text : text[i] # Break}
<1>1. n \in Nat /\ DOMAIN text = 1..n /\ \A i \in 1..n : text[i] \in TokensOf(words)
  BY LenProperties DEF Texts
<1>2. CASE wordAt = {}
  <2>1. strip(text) = <<>>
    BY <1>2 DEF strip
  <2>2. <<>> \in Texts(words) /\ Len(<<>>) = 0
    BY EmptySeq DEF Texts
  <2> QED  BY <1>1, <2>1, <2>2
<1>3. CASE wordAt # {}
  <2>1. wordAt \in SUBSET (1..n) /\ wordAt \in SUBSET (0..n)
    BY <1>1
  <2>2. PICK a, b : a = Min(wordAt) /\ b = Max(wordAt)
    OBVIOUS
  <2>3. strip(text) = Followed(SubSeq(text, a, b), "")
    BY <1>3, <2>2 DEF strip
  <2> HIDE DEF wordAt
  <2>4. a \in 1..n /\ b \in 1..n
    <3>1. Min(wordAt) \in wordAt
      BY <1>1, <1>3, <2>1, Smallest
    <3>2. Max(wordAt) \in wordAt
      BY <1>1, <1>3, <2>1, Greatest
    <3> QED  BY <2>1, <2>2, <3>1, <3>2
  <2>5. a \in Int /\ b \in Int /\ \A i \in a..b : text[i] \in TokensOf(words)
    BY <1>1, <2>4
  <2>6. SubSeq(text, a, b) \in Texts(words)
        /\ Len(SubSeq(text, a, b)) = IF a <= b THEN b - a + 1 ELSE 0
    BY <2>5, SubSeqProperties DEF Texts
  <2>7. Followed(SubSeq(text, a, b), "") \in Texts(words)
        /\ Len(Followed(SubSeq(text, a, b), "")) = Len(SubSeq(text, a, b))
    BY <2>6, FollowedText DEF After
  <2>8. Len(SubSeq(text, a, b)) <= n
    BY <1>1, <2>4, <2>6
  <2> QED  BY <2>3, <2>7, <2>8
<1> QED  BY <1>2, <1>3

(***************************************************************************)
(* What the library's fold over a list computes: its elements one by one,  *)
(* from the first to the last.                                             *)
(***************************************************************************)
Folded(n, base, step, f) ==
    \A T \in SUBSET (1..n) :
        f[T] = IF T = {} THEN base ELSE step[<<Max(T), f[T \ {Max(T)}]>>]

LEMMA FoldFound ==
  ASSUME NEW n \in Nat, NEW A, NEW base \in A, NEW step \in [(1..n) \X A -> A]
  PROVE  \E f \in [SUBSET (1..n) -> A] : Folded(n, base, step, f)
<1> DEFINE Has(k) == \E f \in [SUBSET (1..k) -> A] : Folded(k, base, step, f)
           Bad == {k \in 0..n : ~ Has(k)}
<1>1. SUFFICES ASSUME Bad # {}  PROVE FALSE
  <2>1. n \in 0..n
    OBVIOUS
  <2> QED  BY <2>1
<1>2. Bad \in SUBSET Nat
  OBVIOUS
<1>3. PICK k \in Bad : \A l \in Bad : k <= l
  BY <1>1, <1>2, Least
<1>4. k \in 0..n /\ ~ Has(k)
  OBVIOUS
<1>5. CASE k = 0
  <2> DEFINE f == [T \in SUBSET (1..0) |-> base]
  <2>1. \A T \in SUBSET (1..0) : T = {}
    OBVIOUS
  <2>2. Folded(0, base, step, f)
    BY <2>1 DEF Folded
  <2>3. f \in [SUBSET (1..0) -> A]
    OBVIOUS
  <2> QED  BY <1>4, <1>5, <2>2, <2>3
<1>6. CASE k # 0
  <2>1. k - 1 \in 0..n /\ ~ (k <= k - 1) /\ k \in 1..n
    BY <1>4, <1>6
  <2>2. Has(k - 1)
    BY <1>3, <2>1
  <2>3. PICK g \in [SUBSET (1..(k - 1)) -> A] : Folded(k - 1, base, step, g)
    BY <2>2
  <2> DEFINE f == [T \in SUBSET (1..k) |-> IF k \in T THEN step[<<k, g[T \ {k}]>>] ELSE g[T]]
  <2>4. \A T \in SUBSET (1..k) : T \ {k} \in SUBSET (1..(k - 1)) /\ (k \notin T => T \in SUBSET (1..(k - 1)))
    BY <2>1
  <2>5. f \in [SUBSET (1..k) -> A]
    <3>1. \A T \in SUBSET (1..k) : g[T \ {k}] \in A /\ (k \notin T => g[T] \in A)
      BY <2>4
    <3>2. \A T \in SUBSET (1..k) : step[<<k, g[T \ {k}]>>] \in A
      BY <2>1, <3>1
    <3> QED  BY <3>1, <3>2
  <2>6. \A T \in SUBSET (1..(k - 1)) : f[T] = g[T]
    <3>1. \A T \in SUBSET (1..(k - 1)) : T \in SUBSET (1..k) /\ k \notin T
      BY <2>1
    <3> QED  BY <3>1
  <2>7. ASSUME NEW T \in SUBSET (1..k)
        PROVE  f[T] = IF T = {} THEN base ELSE step[<<Max(T), f[T \ {Max(T)}]>>]
    <3>0. T \in SUBSET (0..k) /\ k \in Nat
      BY <2>1
    <3>1. CASE k \in T
      <4>1. Max(T) \in T /\ k <= Max(T)
        BY <3>0, <3>1, Greatest
      <4>2. Max(T) = k
        <5>1. Max(T) \in 1..k
          BY <4>1
        <5> QED  BY <2>1, <4>1, <5>1
      <4>3. f[T \ {k}] = g[T \ {k}]
        BY <2>4, <2>6
      <4>4. f[T] = step[<<k, g[T \ {k}]>>]
        BY <3>1
      <4> QED  BY <3>1, <4>2, <4>3, <4>4
    <3>2. CASE k \notin T
      <4>1. T \in SUBSET (1..(k - 1)) /\ T \ {Max(T)} \in SUBSET (1..(k - 1))
        BY <2>4, <3>2
      <4>2. f[T] = g[T] /\ f[T \ {Max(T)}] = g[T \ {Max(T)}]
        BY <2>6, <4>1
      <4>3. g[T] = IF T = {} THEN base ELSE step[<<Max(T), g[T \ {Max(T)}]>>]
        BY <2>3, <4>1 DEF Folded
      <4> QED  BY <4>2, <4>3
    <3> QED  BY <3>1, <3>2
  <2> HIDE DEF f
  <2>8. Folded(k, base, step, f)
    BY <2>7 DEF Folded
  <2> QED  BY <1>4, <2>5, <2>8
<1> QED  BY <1>5, <1>6

(* A fold stays among the values A if each of its steps does. *)
Advances(n, A, base, step, f) ==
    /\ f[{}] = base
    /\ \A T \in SUBSET (1..n) : (T # {} /\ f[T \ {Max(T)}] \in A)
          => f[T] = step[<<Max(T), f[T \ {Max(T)}]>>]

LEMMA FoldStays ==
  ASSUME NEW n \in Nat, NEW A, NEW base \in A, NEW step \in [(1..n) \X A -> A], NEW f,
         Advances(n, A, base, step, f)
  PROVE  f[1..n] \in A
<1> DEFINE Bad == {k \in 0..n : f[1..k] \notin A}
<1>1. SUFFICES ASSUME Bad # {}  PROVE FALSE
  <2>1. n \in 0..n
    OBVIOUS
  <2> QED  BY <2>1
<1>2. Bad \in SUBSET Nat
  OBVIOUS
<1>3. PICK k \in Bad : \A l \in Bad : k <= l
  BY <1>1, <1>2, Least
<1>4. k \in 0..n /\ f[1..k] \notin A
  OBVIOUS
<1>5. k # 0
  <2>1. 1..0 = {}
    OBVIOUS
  <2> QED  BY <1>4, <2>1 DEF Advances
<1>6. k - 1 \in 0..n /\ ~ (k <= k - 1) /\ k \in 1..n /\ k \in Nat
  BY <1>4, <1>5
<1>7. f[1..(k - 1)] \in A
  BY <1>3, <1>6
<1>8. 1..k \in SUBSET (1..n) /\ 1..k \in SUBSET (0..k) /\ k \in 1..k /\ (1..k) \ {k} = 1..(k - 1)
  BY <1>6
<1>9. Max(1..k) = k
  <2>1. Max(1..k) \in 1..k /\ k <= Max(1..k)
    BY <1>6, <1>8, Greatest
  <2> QED  BY <1>6, <2>1
<1>10. f[1..k] = step[<<k, f[1..(k - 1)]>>]
  BY <1>7, <1>8, <1>9 DEF Advances
<1>11. step[<<k, f[1..(k - 1)]>>] \in A
  BY <1>6, <1>7
<1> QED  BY <1>4, <1>10, <1>11

(* The lengths of some lists add up to a number. *)
LEMMA LengthIsNumber ==
  ASSUME NEW R, NEW pieces \in Seq(Seq(R))
  PROVE  Length(pieces) \in Nat
<1> DEFINE Adds(f) == f = [T \in SUBSET (DOMAIN pieces) |->
               IF T = {} THEN 0 ELSE f[T \ {Max(T)}] + Len(pieces[Max(T)])]
           sum == CHOOSE f : Adds(f)
<1>1. PICK n \in Nat : n = Len(pieces) /\ DOMAIN pieces = 1..n
  BY LenProperties
<1>2. Length(pieces) = sum[1..n]
  BY <1>1 DEF Length, FoldLeft, MapThenFoldSet
<1>3. \A i \in 1..n : Len(pieces[i]) \in Nat
  <2>1. \A i \in 1..n : pieces[i] \in Seq(R)
    BY <1>1, ElementOfSeq
  <2> QED  BY <2>1, LenProperties
<1> DEFINE step == [im \in (1..n) \X Nat |-> im[2] + Len(pieces[im[1]])]
<1>4. step \in [(1..n) \X Nat -> Nat]
      /\ \A i \in 1..n, m \in Nat : step[<<i, m>>] = m + Len(pieces[i])
  <2>1. \A im \in (1..n) \X Nat : im[2] + Len(pieces[im[1]]) \in Nat
    <3>1. \A im \in (1..n) \X Nat : im[1] \in 1..n /\ im[2] \in Nat
      OBVIOUS
    <3>2. \A a, b \in Nat : a + b \in Nat
      OBVIOUS
    <3> QED  BY <1>3, <3>1, <3>2
  <2>2. \A i \in 1..n, m \in Nat : step[<<i, m>>] = m + Len(pieces[i])
    OBVIOUS
  <2> QED  BY <2>1, <2>2
<1> HIDE DEF step
<1>5. Adds(sum)
  <2>1. PICK f \in [SUBSET (1..n) -> Nat] : Folded(n, 0, step, f)
    BY <1>4, FoldFound
  <2>2. ASSUME NEW T \in SUBSET (1..n), T # {}
        PROVE  f[T] = f[T \ {Max(T)}] + Len(pieces[Max(T)])
    <3>1. T \in SUBSET (0..n)
      OBVIOUS
    <3>2. Max(T) \in 1..n /\ f[T \ {Max(T)}] \in Nat
      BY <2>2, <3>1, Greatest
    <3>3. f[T] = step[<<Max(T), f[T \ {Max(T)}]>>]
      BY <2>1, <2>2 DEF Folded
    <3> QED  BY <1>4, <3>2, <3>3
  <2>3. f[{}] = 0
    BY <2>1 DEF Folded
  <2>4. Adds(f)
    BY <1>1, <2>2, <2>3
  <2> HIDE DEF Adds
  <2> QED  BY <2>4
<1> HIDE DEF sum
<1>6. sum[{}] = 0
  BY <1>5
<1>7. ASSUME NEW T \in SUBSET (1..n), T # {}, sum[T \ {Max(T)}] \in Nat
      PROVE  sum[T] = step[<<Max(T), sum[T \ {Max(T)}]>>]
  <2>1. T \in SUBSET (0..n)
    OBVIOUS
  <2>2. Max(T) \in 1..n
    BY <1>7, <2>1, Greatest
  <2>3. sum[T] = sum[T \ {Max(T)}] + Len(pieces[Max(T)])
    BY <1>1, <1>5, <1>7
  <2> QED  BY <1>4, <1>7, <2>2, <2>3
<1> HIDE DEF Adds
<1>8. Advances(n, Nat, 0, step, sum)
  BY <1>6, <1>7 DEF Advances
<1>9. sum[1..n] \in Nat
  BY <1>1, <1>4, <1>8, FoldStays
<1> QED  BY <1>2, <1>9

(***************************************************************************)
(* What is cut from a text is made of its words.                           *)
(***************************************************************************)
Fitting(words, size) == {text \in Texts(words) : Len(text) <= size}

LEMMA ListOf ==
  ASSUME NEW R, NEW n \in Nat, NEW list \in [1..n -> R]
  PROVE  list \in Seq(R)
BY SeqDef

LEMMA OneOf ==
  ASSUME NEW R, NEW x \in R
  PROVE  <<x>> \in Seq(R) /\ <<>> \in Seq(R)
<1>1. <<x>> = [i \in 1..1 |-> x]
  OBVIOUS
<1>2. [i \in 1..1 |-> x] \in [1..1 -> R] /\ 1 \in Nat
  OBVIOUS
<1> QED  BY <1>1, <1>2, SeqDef, EmptySeq

(* A list of lists, one for each place, becomes one list. *)
LEMMA FlattenAll ==
  ASSUME NEW R, NEW n \in Nat, NEW lists \in [1..n -> Seq(R)]
  PROVE  FlattenSeq(lists) \in Seq(R)
<1>1. lists \in Seq(Seq(R))
  BY SeqDef
<1> QED  BY <1>1, FlattenHolds

LEMMA KeptText ==
  ASSUME NEW words, NEW text \in Texts(words), NEW size \in Int, Len(text) <= size
  PROVE  Kept(text) \in Seq(Fitting(words, size))
<1>1. strip(text) \in Texts(words) /\ Len(strip(text)) <= Len(text)
  BY StripText
<1>2. Len(strip(text)) \in Nat /\ Len(text) \in Nat
  BY <1>1, LenProperties DEF Texts
<1>3. strip(text) \in Fitting(words, size)
  BY <1>1, <1>2 DEF Fitting
<1> QED  BY <1>3, OneOf DEF Kept

LEMMA FittingTexts ==
  ASSUME NEW words, NEW size, NEW pieces \in Seq(Fitting(words, size))
  PROVE  pieces \in Seq(Texts(words))
<1>1. Fitting(words, size) \subseteq Texts(words)
  BY DEF Fitting
<1> QED  BY <1>1, SeqMonotonic

LEMMA PushTexts ==
  ASSUME NEW words, NEW out \in Seq(Texts(words)), NEW buf \in Seq(Texts(words))
  PROVE  Push(out, buf) \in Seq(Texts(words))
<1>1. FlattenSeq(buf) \in Texts(words)
  BY FlattenHolds DEF Texts
<1>2. Len(FlattenSeq(buf)) \in Nat
  BY <1>1, LenProperties DEF Texts
<1>3. Kept(FlattenSeq(buf)) \in Seq(Fitting(words, Len(FlattenSeq(buf))))
  BY <1>1, <1>2, KeptText
<1>4. Kept(FlattenSeq(buf)) \in Seq(Texts(words))
  BY <1>3, FittingTexts
<1> QED  BY <1>4, ConcatProperties DEF Push

LEMMA OverlapTexts ==
  ASSUME NEW words, NEW buf \in Seq(Texts(words)), buf # <<>>, NEW overlap
  PROVE  tail_overlap(buf, overlap) \in Seq(Texts(words))
<1> DEFINE n == Len(buf)
           fits == {k \in 1..n : k = 1 \/ Length(SubSeq(buf, n - k + 1, n)) <= overlap}
<1>1. n \in Nat /\ n # 0 /\ \A i \in 1..n : buf[i] \in Texts(words)
  BY EmptySeq, ElementOfSeq, LenProperties
<1>2. CASE overlap <= 0
  <2>1. tail_overlap(buf, overlap) = <<>>
    BY <1>2 DEF tail_overlap
  <2> QED  BY <2>1, EmptySeq
<1>3. CASE ~ (overlap <= 0)
  <2>1. 1 \in fits /\ fits \in SUBSET (0..n) /\ fits \in SUBSET (1..n)
    BY <1>1
  <2>2. tail_overlap(buf, overlap) = SubSeq(buf, n - Max(fits) + 1, n)
    BY <1>3 DEF tail_overlap
  <2> HIDE DEF fits
  <2>3. Max(fits) \in 1..n
    BY <1>1, <2>1, Greatest
  <2>4. PICK k \in 1..n : k = Max(fits)
    BY <2>3
  <2>5. n - k + 1 \in Int /\ n \in Int /\ \A i \in (n - k + 1)..n : buf[i] \in Texts(words)
    BY <1>1
  <2>6. SubSeq(buf, n - k + 1, n) \in Seq(Texts(words))
    BY <2>5, SubSeqProperties
  <2> QED  BY <2>2, <2>4, <2>6
<1> QED  BY <1>2, <1>3

\* The state of merge_with_overlap.
Merging(words) == [out : Seq(Texts(words)), buf : Seq(Texts(words))]
Added(m, piece, budget, overlap) ==
    IF m.buf # <<>> /\ Length(m.buf) + Len(piece) > budget
    THEN [out |-> Push(m.out, m.buf), buf |-> Append(tail_overlap(m.buf, overlap), piece)]
    ELSE [m EXCEPT !.buf = Append(@, piece)]

LEMMA AddedMerges ==
  ASSUME NEW words, NEW m \in Merging(words), NEW piece \in Texts(words), NEW budget, NEW overlap
  PROVE  Added(m, piece, budget, overlap) \in Merging(words)
<1>1. m.out \in Seq(Texts(words)) /\ m.buf \in Seq(Texts(words))
  BY DEF Merging
<1>2. \A buf \in Seq(Texts(words)) : Append(buf, piece) \in Seq(Texts(words))
  OBVIOUS
<1>3. CASE m.buf # <<>> /\ Length(m.buf) + Len(piece) > budget
  <2>1. tail_overlap(m.buf, overlap) \in Seq(Texts(words)) /\ Push(m.out, m.buf) \in Seq(Texts(words))
    BY <1>1, <1>3, OverlapTexts, PushTexts
  <2>2. Append(tail_overlap(m.buf, overlap), piece) \in Seq(Texts(words))
    BY <1>2, <2>1
  <2> QED  BY <1>3, <2>1, <2>2 DEF Added, Merging
<1>4. CASE ~ (m.buf # <<>> /\ Length(m.buf) + Len(piece) > budget)
  <2>1. Append(m.buf, piece) \in Seq(Texts(words))
    BY <1>1, <1>2
  <2>2. Added(m, piece, budget, overlap) = [m EXCEPT !.buf = Append(m.buf, piece)]
    BY <1>4 DEF Added
  <2> QED  BY <2>1, <2>2 DEF Merging
<1> QED  BY <1>3, <1>4

LEMMA MergedTexts ==
  ASSUME NEW words, NEW splits \in Seq(Texts(words)), NEW budget, NEW overlap
  PROVE  merge_with_overlap(splits, budget, overlap) \in Seq(Texts(words))
<1> DEFINE base == [out |-> <<>>, buf |-> <<>>]
           Unfolds(f) == f = [T \in SUBSET (DOMAIN splits) |->
               IF T = {} THEN base ELSE Added(f[T \ {Max(T)}], splits[Max(T)], budget, overlap)]
           all == CHOOSE f : Unfolds(f)
<1>1. PICK n \in Nat : n = Len(splits) /\ DOMAIN splits = 1..n
  BY LenProperties
<1>2. merge_with_overlap(splits, budget, overlap) = Push(all[1..n].out, all[1..n].buf)
  BY <1>1 DEF merge_with_overlap, Added, FoldLeft, MapThenFoldSet
<1>3. \A i \in 1..n : splits[i] \in Texts(words)
  BY <1>1, ElementOfSeq
<1>4. base \in Merging(words)
  BY EmptySeq DEF Merging
<1> DEFINE step == [im \in (1..n) \X Merging(words) |-> Added(im[2], splits[im[1]], budget, overlap)]
<1>5. step \in [(1..n) \X Merging(words) -> Merging(words)]
      /\ \A i \in 1..n, m \in Merging(words) : step[<<i, m>>] = Added(m, splits[i], budget, overlap)
  BY <1>3, AddedMerges
<1> HIDE DEF step, base
<1>6. Unfolds(all)
  <2>1. PICK f \in [SUBSET (1..n) -> Merging(words)] : Folded(n, base, step, f)
    BY <1>1, <1>4, <1>5, FoldFound
  <2>2. ASSUME NEW T \in SUBSET (1..n), T # {}
        PROVE  f[T] = Added(f[T \ {Max(T)}], splits[Max(T)], budget, overlap)
    <3>1. T \in SUBSET (0..n)
      OBVIOUS
    <3>2. Max(T) \in 1..n /\ f[T \ {Max(T)}] \in Merging(words)
      BY <1>1, <2>2, <3>1, Greatest
    <3>3. f[T] = step[<<Max(T), f[T \ {Max(T)}]>>]
      BY <2>1, <2>2 DEF Folded
    <3> QED  BY <1>5, <3>2, <3>3
  <2>3. f[{}] = base
    BY <2>1 DEF Folded
  <2>4. Unfolds(f)
    BY <1>1, <2>2, <2>3
  <2> HIDE DEF Unfolds
  <2> QED  BY <2>4
<1> HIDE DEF all
<1>7. all[{}] = base
  BY <1>6
<1>8. ASSUME NEW T \in SUBSET (1..n), T # {}, all[T \ {Max(T)}] \in Merging(words)
      PROVE  all[T] = step[<<Max(T), all[T \ {Max(T)}]>>]
  <2>1. T \in SUBSET (0..n)
    OBVIOUS
  <2>2. Max(T) \in 1..n
    BY <1>1, <1>8, <2>1, Greatest
  <2>3. all[T] = Added(all[T \ {Max(T)}], splits[Max(T)], budget, overlap)
    BY <1>1, <1>6, <1>8
  <2> QED  BY <1>5, <1>8, <2>2, <2>3
<1> HIDE DEF Unfolds
<1>9. Advances(n, Merging(words), base, step, all)
  BY <1>7, <1>8 DEF Advances
<1>10. all[1..n] \in Merging(words)
  BY <1>1, <1>4, <1>5, <1>9, FoldStays
<1>11. all[1..n].out \in Seq(Texts(words)) /\ all[1..n].buf \in Seq(Texts(words))
  BY <1>10 DEF Merging
<1> QED  BY <1>2, <1>11, PushTexts

LEMMA CutTexts ==
  ASSUME NEW words, NEW text \in Texts(words), NEW cuts
  PROVE  CutAfter(text, cuts) \in Seq(Texts(words))
<1> DEFINE marks == [i \in DOMAIN text |-> IF i = Len(text) \/ i \in cuts THEN <<i>> ELSE <<>>]
           end == FlattenSeq(marks)
           from(k) == IF k = 1 THEN 1 ELSE end[k - 1] + 1
           pieces == [k \in DOMAIN end |-> SubSeq(text, from(k), end[k])]
<1>1. PICK n \in Nat : n = Len(text) /\ DOMAIN text = 1..n /\ \A i \in 1..n : text[i] \in TokensOf(words)
  BY LenProperties DEF Texts
<1>2. \A i \in 1..n : <<i>> \in Seq(1..n) /\ <<>> \in Seq(1..n)
  BY OneOf
<1>3. marks \in [1..n -> Seq(1..n)]
  BY <1>1, <1>2
<1>4. end \in Seq(1..n)
  BY <1>3, FlattenAll
<1>5. CutAfter(text, cuts) = pieces
  BY DEF CutAfter
<1> HIDE DEF end
<1>6. PICK m \in Nat : DOMAIN end = 1..m /\ \A k \in 1..m : end[k] \in 1..n
  BY <1>4, LenProperties
<1>7. ASSUME NEW k \in 1..m  PROVE SubSeq(text, from(k), end[k]) \in Texts(words)
  <2>1. from(k) \in Nat \ {0} /\ end[k] \in 1..n
    <3>1. k # 1 => k - 1 \in 1..m
      OBVIOUS
    <3> QED  BY <1>6, <3>1
  <2>2. from(k) \in Int /\ end[k] \in Int /\ \A i \in from(k)..end[k] : text[i] \in TokensOf(words)
    BY <1>1, <2>1
  <2> HIDE DEF from
  <2> QED  BY <2>2, SubSeqProperties DEF Texts
<1>8. pieces \in [1..m -> Texts(words)]
  BY <1>6, <1>7
<1> QED  BY <1>5, <1>8, SeqDef

LEMMA PartsTexts ==
  ASSUME NEW words, NEW text \in Texts(words), NEW sep, NEW budget
  PROVE  Parts(text, sep, budget) \in Seq(Texts(words))
BY CutTexts, OneOf DEF Parts, split_keeping_separator

LEMMA RejoinedTexts ==
  ASSUME NEW words, NEW good \in Seq(Texts(words)), NEW divided, NEW budget, NEW overlap
  PROVE  Rejoined(good, divided, budget, overlap) \in Seq(Texts(words))
BY MergedTexts DEF Rejoined

LEMMA TokenTexts ==
  ASSUME NEW words, NEW text \in Texts(words), NEW budget, NEW overlap
  PROVE  ByToken(text, budget, overlap) \in Seq(Texts(words))
BY CutTexts, OneOf, RejoinedTexts DEF ByToken, slice_fixed

LEMMA WordTexts ==
  ASSUME NEW words, NEW text \in Texts(words), NEW budget, NEW overlap
  PROVE  ByWord(text, budget, overlap) \in Seq(Texts(words))
<1> DEFINE parts == Parts(text, "word", budget)
           cut == [i \in DOMAIN parts |-> ByToken(parts[i], budget, overlap)]
<1>1. parts \in Seq(Texts(words))
  BY PartsTexts
<1> HIDE DEF parts
<1>2. PICK n \in Nat : DOMAIN parts = 1..n /\ \A i \in 1..n : parts[i] \in Texts(words)
  BY <1>1, LenProperties
<1>3. cut \in [1..n -> Seq(Texts(words))]
  BY <1>2, TokenTexts
<1>4. FlattenSeq(cut) \in Seq(Texts(words))
  BY <1>3, FlattenAll
<1> QED  BY <1>4, RejoinedTexts DEF ByWord, parts

LEMMA SentenceTexts ==
  ASSUME NEW words, NEW text \in Texts(words), NEW budget, NEW overlap
  PROVE  BySentence(text, budget, overlap) \in Seq(Texts(words))
<1> DEFINE parts == Parts(text, "sentence", budget)
           cut == [i \in DOMAIN parts |-> ByWord(parts[i], budget, overlap)]
<1>1. parts \in Seq(Texts(words))
  BY PartsTexts
<1> HIDE DEF parts
<1>2. PICK n \in Nat : DOMAIN parts = 1..n /\ \A i \in 1..n : parts[i] \in Texts(words)
  BY <1>1, LenProperties
<1>3. cut \in [1..n -> Seq(Texts(words))]
  BY <1>2, WordTexts
<1>4. FlattenSeq(cut) \in Seq(Texts(words))
  BY <1>3, FlattenAll
<1> QED  BY <1>4, RejoinedTexts DEF BySentence, parts

LEMMA LineTexts ==
  ASSUME NEW words, NEW text \in Texts(words), NEW budget, NEW overlap
  PROVE  ByLine(text, budget, overlap) \in Seq(Texts(words))
<1> DEFINE parts == Parts(text, "line", budget)
           cut == [i \in DOMAIN parts |-> BySentence(parts[i], budget, overlap)]
<1>1. parts \in Seq(Texts(words))
  BY PartsTexts
<1> HIDE DEF parts
<1>2. PICK n \in Nat : DOMAIN parts = 1..n /\ \A i \in 1..n : parts[i] \in Texts(words)
  BY <1>1, LenProperties
<1>3. cut \in [1..n -> Seq(Texts(words))]
  BY <1>2, SentenceTexts
<1>4. FlattenSeq(cut) \in Seq(Texts(words))
  BY <1>3, FlattenAll
<1> QED  BY <1>4, RejoinedTexts DEF ByLine, parts

LEMMA RecurseTexts ==
  ASSUME NEW words, NEW text \in Texts(words), NEW budget, NEW overlap
  PROVE  recurse(text, budget, overlap) \in Seq(Texts(words))
<1> DEFINE parts == Parts(text, "paragraph", budget)
           cut == [i \in DOMAIN parts |-> ByLine(parts[i], budget, overlap)]
<1>1. parts \in Seq(Texts(words))
  BY PartsTexts
<1> HIDE DEF parts
<1>2. PICK n \in Nat : DOMAIN parts = 1..n /\ \A i \in 1..n : parts[i] \in Texts(words)
  BY <1>1, LenProperties
<1>3. cut \in [1..n -> Seq(Texts(words))]
  BY <1>2, LineTexts
<1>4. FlattenSeq(cut) \in Seq(Texts(words))
  BY <1>3, FlattenAll
<1> QED  BY <1>4, RejoinedTexts DEF recurse, parts

(***************************************************************************)
(* What the last resort cuts is within the budget.                         *)
(***************************************************************************)
LEMMA SlicesFit ==
  ASSUME NEW words, NEW text \in Texts(words), NEW stride \in Nat, NEW size \in Nat
  PROVE  Slices(text, stride, size) \in Seq(Fitting(words, size))
<1> DEFINE n == Len(text)
           starts == {k \in 0..n : \A j \in 0..(k - 1) : j * stride + size < n}
           from(k) == (k - 1) * stride + 1
           to(k) == smaller(n, (k - 1) * stride + size)
           cut == [k \in 1..(Max(starts) + 1) |-> Kept(SubSeq(text, from(k), to(k)))]
<1>1. n \in Nat /\ \A i \in 1..n : text[i] \in TokensOf(words)
  BY LenProperties DEF Texts
<1>3. Slices(text, stride, size) = FlattenSeq(cut)
  BY DEF Slices
<1>4. Max(starts) \in Nat
  <2>1. 0 \in starts /\ starts \in SUBSET (0..n)
    BY <1>1
  <2> HIDE DEF starts
  <2>2. Max(starts) \in starts
    BY <1>1, <2>1, Greatest
  <2>3. PICK most : most = Max(starts)
    OBVIOUS
  <2>4. most \in 0..n
    BY <2>1, <2>2, <2>3
  <2> QED  BY <1>1, <2>3, <2>4
<1> HIDE DEF starts
<1>5. ASSUME NEW k \in 1..(Max(starts) + 1)
      PROVE  Kept(SubSeq(text, from(k), to(k))) \in Seq(Fitting(words, size))
  <2>1. PICK a \in Nat : a = (k - 1) * stride
    <3>1. k - 1 \in Nat
      BY <1>4
    <3> QED  BY <3>1
  <2>2. from(k) = a + 1 /\ to(k) \in Int /\ to(k) <= a + size /\ to(k) <= n
    BY <1>1, <2>1 DEF smaller
  <2> HIDE DEF from, to
  <2>3. from(k) \in Int /\ to(k) \in Int /\ \A i \in from(k)..to(k) : text[i] \in TokensOf(words)
    BY <1>1, <2>2
  <2>4. SubSeq(text, from(k), to(k)) \in Texts(words)
        /\ Len(SubSeq(text, from(k), to(k))) = IF from(k) <= to(k) THEN to(k) - from(k) + 1 ELSE 0
    BY <2>3, SubSeqProperties DEF Texts
  <2>5. Len(SubSeq(text, from(k), to(k))) <= size
    BY <2>2, <2>4
  <2>6. size \in Int
    OBVIOUS
  <2> HIDE DEF from, to
  <2> QED  BY <2>4, <2>5, <2>6, KeptText
<1>6. cut \in [1..(Max(starts) + 1) -> Seq(Fitting(words, size))] /\ Max(starts) + 1 \in Nat
  BY <1>4, <1>5
<1> HIDE DEF cut
<1>7. FlattenSeq(cut) \in Seq(Fitting(words, size))
  BY <1>6, FlattenAll
<1> QED  BY <1>3, <1>7

LEMMA SliceFits ==
  ASSUME NEW words, NEW text \in Texts(words), NEW size \in Nat, NEW overlap \in Nat
  PROVE  token_slice(text, size, overlap) \in Seq(Fitting(words, size))
<1> DEFINE pieces == larger(1, CeilDiv(Len(text), larger(1, size - overlap)))
           even == larger(1, CeilDiv(Len(text), pieces))
           least == smaller(size, even + overlap)
<1>1. Len(text) \in Nat
  BY LenProperties DEF Texts
<1>2. \A a \in Nat, b \in Nat \ {0} : CeilDiv(a, b) \in Nat
  BY DEF CeilDiv
<1>3. \A a \in Int : larger(1, a) \in Nat \ {0}
  BY DEF larger
<1>4. larger(1, size - overlap) \in Nat \ {0}
  BY <1>3
<1>5. pieces \in Nat \ {0}
  <2>1. CeilDiv(Len(text), larger(1, size - overlap)) \in Int
    BY <1>1, <1>2, <1>4
  <2> QED  BY <1>3, <2>1
<1> HIDE DEF pieces
<1>6. even \in Nat \ {0}
  <2>1. CeilDiv(Len(text), pieces) \in Int
    BY <1>1, <1>2, <1>5
  <2> QED  BY <1>3, <2>1
<1>7. token_slice(text, size, overlap) = Slices(text, even, least)
  BY DEF token_slice, pieces
<1> HIDE DEF even
<1>8. least \in Nat /\ least <= size
  BY <1>6 DEF smaller
<1> HIDE DEF least
<1>9. Slices(text, even, least) \in Seq(Fitting(words, least))
  BY <1>6, <1>8, SlicesFit
<1>10. Fitting(words, least) \subseteq Fitting(words, size)
  <2>1. ASSUME NEW t \in Texts(words), Len(t) <= least  PROVE Len(t) <= size
    <3>1. Len(t) \in Nat
      BY LenProperties DEF Texts
    <3> QED  BY <1>8, <2>1, <3>1
  <2> QED  BY <2>1 DEF Fitting
<1> QED  BY <1>7, <1>9, <1>10, SeqMonotonic

LEMMA FittedFit ==
  ASSUME NEW words, NEW cut \in Seq(Texts(words)), NEW size \in Nat, NEW overlap \in Nat
  PROVE  Fitted(cut, size, overlap) \in Seq(Fitting(words, size))
<1> DEFINE some == [i \in DOMAIN cut |-> IF Len(cut[i]) <= size THEN <<cut[i]>>
                                        ELSE token_slice(cut[i], size, overlap)]
<1>1. PICK n \in Nat : DOMAIN cut = 1..n /\ \A i \in 1..n : cut[i] \in Texts(words)
  BY LenProperties
<1>2. \A i \in 1..n : Len(cut[i]) <= size => <<cut[i]>> \in Seq(Fitting(words, size))
  BY <1>1, OneOf DEF Fitting
<1>3. \A i \in 1..n : token_slice(cut[i], size, overlap) \in Seq(Fitting(words, size))
  BY <1>1, SliceFits
<1>4. some \in [1..n -> Seq(Fitting(words, size))]
  BY <1>1, <1>2, <1>3
<1>5. Fitted(cut, size, overlap) = FlattenSeq(some)
  BY DEF Fitted
<1> HIDE DEF some
<1> QED  BY <1>1, <1>4, <1>5, FlattenAll

LEMMA RebalancedFit ==
  ASSUME NEW words, NEW size \in Nat, NEW overlap \in Nat, NEW pieces \in Seq(Fitting(words, size))
  PROVE  rebalance_tail(pieces, size, overlap) \in Seq(Fitting(words, size))
<1>1. PICK n \in Nat : n = Len(pieces) /\ \A i \in 1..n : pieces[i] \in Fitting(words, size)
  BY LenProperties
<1>2. CASE n < 2 \/ Len(Last(pieces)) >= size \div 4
  BY <1>1, <1>2 DEF rebalance_tail
<1>3. CASE ~ (n < 2 \/ Len(Last(pieces)) >= size \div 4)
  <2> DEFINE joined == Followed(pieces[n - 1], " ") \o Last(pieces)
  <2>1. n \in 1..n /\ n - 1 \in 1..n /\ n >= 2
    BY <1>1, <1>3
  <2>2. rebalance_tail(pieces, size, overlap)
            = SubSeq(pieces, 1, n - 2) \o token_slice(joined, size, overlap)
    BY <1>1, <1>3 DEF rebalance_tail
  <2>3. pieces[n] \in Texts(words) /\ pieces[n - 1] \in Texts(words)
    BY <1>1, <2>1 DEF Fitting
  <2>4. Followed(pieces[n - 1], " ") \in Texts(words)
    BY <2>3, FollowedText DEF After
  <2>5. joined \in Texts(words)
    BY <1>1, <2>3, <2>4, ConcatProperties DEF Texts, Last
  <2> HIDE DEF joined
  <2>6. token_slice(joined, size, overlap) \in Seq(Fitting(words, size))
    BY <2>5, SliceFits
  <2>7. 1 \in Int /\ n - 2 \in Int /\ \A i \in 1..(n - 2) : pieces[i] \in Fitting(words, size)
    BY <1>1
  <2>8. SubSeq(pieces, 1, n - 2) \in Seq(Fitting(words, size))
    BY <2>7, SubSeqProperties
  <2> QED  BY <2>2, <2>6, <2>8, ConcatProperties
<1> QED  BY <1>2, <1>3

(***************************************************************************)
(* split_text, whatever the text, the budget and the library's count: what *)
(* it cuts is made of words of the text and is within the budget.          *)
(***************************************************************************)
LEMMA SplitFits ==
  ASSUME NEW words, NEW text \in Texts(words), NEW size \in Nat, NEW overlap \in Nat, NEW skew
  PROVE  split_text(text, size, overlap, skew) \in Seq(Fitting(words, size))
<1>1. recurse(text, estimated(size, skew), overlap) \in Seq(Texts(words))
  BY RecurseTexts
<1> QED  BY <1>1, FittedFit, RebalancedFit, EmptySeq DEF split_text

-----------------------------------------------------------------------------
(***************************************************************************)
(* The chunker and the loader.                                             *)
(***************************************************************************)
\* The words a text may hold that claims this section and these pages.
Home(section, from, to) ==
    {w \in Nat \X Nat :
        /\ w[1] \in DOMAIN doc /\ doc[w[1]].kind # "heading"
        /\ IsPrefix(section, PathOf(w[1]))
        /\ from # 0 => doc[w[1]].page \in from..larger(from, to)}

\* A segment or a chunk holds only words that are under its section and on
\* its pages; and a chunk is over the budget by its breadcrumb at most.
GoodSegments ==
    {s \in Segment : s.text \in Texts(Home(s.section, s.page, s.page))}
GoodChunks ==
    {c \in Chunk : /\ c.text \in Texts(Home(c.section, c.page, c.pageEnd))
                   /\ c.tokens <= larger(set.chunk, Prefix(c.section) + set.chunk \div 2)}

\* Pages come in their order.
Paged(segs) == \A i, j \in DOMAIN segs : i < j => segs[i].page <= segs[j].page

PagesFollow(segs, more) == \A i \in DOMAIN segs, j \in DOMAIN more : segs[i].page <= more[j].page

LineKinds  == {"text", "heading", "item", "lost"}
Shape  == Seq(BOOLEAN \X After)
Lines  == [kind : LineKinds, level : Nat, contents : BOOLEAN, shape : Shape, page : Nat]

ShapeInv ==
    /\ set \in Settings /\ pc \in {"load", "chunk", "done"}
    /\ doc \in Seq(Lines) /\ Len(doc) <= MaxLines
    /\ page \in 0..MaxPages /\ (set.format # "pdf" => page = 0)
    /\ wrapped \in Levels \cup {0} /\ packTokens \in Nat

\* The stack holds the headings the next line is under.
Open(k) == [level |-> doc[k].level, title |-> TitleFrom(k)]
StackInv ==
    LET above == Ascending(Above(Len(doc) + 1))
    IN  stack = [i \in DOMAIN above |-> Open(above[i])]

\* A heading may continue just after a heading, and then there is no text under it yet.
WrapInv ==
    /\ (doc # <<>> /\ Last(doc).kind = "heading") => wrapped = Last(doc).level
    /\ wrapped # 0 => doc # <<>> /\ Last(doc).kind = "heading" /\ buffer = <<>>
    /\ set.format \in {"txt", "json", "xlsx"} => wrapped = 0

\* The words a section that is being collected may hold.
Here == {w \in Nat \X Nat :
            /\ w[1] \in DOMAIN doc /\ doc[w[1]].kind # "heading"
            /\ PathOf(w[1]) = Section(stack) /\ doc[w[1]].page = page}

\* While the loader reads: the stack is the path of the next line, and what
\* is collected or handed over is where it says.
LoadInv ==
    /\ StackInv /\ WrapInv
    /\ buffer \in Texts(Here)
    /\ segments \in Seq(GoodSegments) /\ Paged(segments)
    /\ \A i \in DOMAIN segments : segments[i].page <= page
    /\ todo = <<>> /\ pack = <<>> /\ chunks = <<>>

\* What the chunker has left to pack, packs and has emitted.
ChunkInv ==
    /\ todo \in Seq(GoodSegments) /\ pack \in Seq(GoodSegments)
    /\ Paged(pack) /\ Paged(todo) /\ PagesFollow(pack, todo)
    /\ pc = "chunk" /\ set.strategy # "semantic" => todo # <<>>
    /\ chunks \in Seq(GoodChunks)

PassagesInv ==
    /\ ShapeInv
    /\ pc = "load" => LoadInv
    /\ ChunkInv

(***************************************************************************)
(* Numbers in their order.                                                 *)
(***************************************************************************)
Enumerates(f, m, S) ==
    /\ f \in [1..m -> S] /\ \A x \in S : \E i \in 1..m : f[i] = x
    /\ \A i, j \in 1..m : i < j => f[i] < f[j]

First(f, i) == {f[j] : j \in 1..(i - 1)}

LEMMA FirstOnes ==
  ASSUME NEW m \in Nat, NEW S \in SUBSET Nat, NEW f, Enumerates(f, m, S), NEW i \in 1..(m + 1)
  PROVE  IsFiniteSet(First(f, i)) /\ Cardinality(First(f, i)) = i - 1
<1> DEFINE first == First(f, i)
           g == [j \in 1..(i - 1) |-> f[j]]
<1>1. i - 1 \in Nat /\ \A j \in 1..(i - 1) : j \in 1..m
  OBVIOUS
<1>2. IsFiniteSet(1..(i - 1)) /\ Cardinality(1..(i - 1)) = i - 1
  <2>1. 1 \in Int /\ i - 1 \in Int
    OBVIOUS
  <2> QED  BY <1>1, <2>1, FS_Interval
<1>3. \A j, k \in 1..(i - 1) : j # k => f[j] # f[k]
  <2> SUFFICES ASSUME NEW j \in 1..(i - 1), NEW k \in 1..(i - 1), j # k  PROVE f[j] # f[k]
    OBVIOUS
  <2>1. j \in 1..m /\ k \in 1..m /\ (j < k \/ k < j)
    BY <1>1
  <2>2. f[j] \in Nat /\ f[k] \in Nat /\ (f[j] < f[k] \/ f[k] < f[j])
    BY <2>1 DEF Enumerates
  <2> QED  BY <2>2
<1>4. g \in Bijection(1..(i - 1), first)
  BY <1>3 DEF First, Bijection, Injection, IsInjective, Surjection
<1> HIDE DEF g, first
<1>5. IsFiniteSet(first) /\ Cardinality(first) = i - 1
  BY <1>2, <1>4, FS_Bijection DEF ExistsBijection
<1> QED  BY <1>5 DEF first

LEMMA AscendingIs ==
  ASSUME NEW m \in Nat, NEW S \in SUBSET Nat, NEW f, Enumerates(f, m, S)
  PROVE  Ascending(S) = f /\ Cardinality(S) = m /\ IsFiniteSet(S)
<1> DEFINE below(x) == {y \in S : y < x}
<1>1. S = {f[j] : j \in 1..m}
  BY DEF Enumerates
<1>2. IsFiniteSet(S) /\ Cardinality(S) = m
  <2>1. m + 1 \in 1..(m + 1) /\ (m + 1) - 1 = m
    OBVIOUS
  <2>2. First(f, m + 1) = S
    BY <1>1, <2>1 DEF First
  <2> QED  BY <2>1, <2>2, FirstOnes
<1>3. ASSUME NEW i \in 1..m  PROVE Cardinality(below(f[i])) = i - 1
  <2>1. below(f[i]) = First(f, i)
    <3>1. ASSUME NEW y \in below(f[i])  PROVE y \in {f[j] : j \in 1..(i - 1)}
      <4>1. PICK j \in 1..m : y = f[j]
        BY DEF Enumerates
      <4>2. f[j] \in Nat /\ f[i] \in Nat /\ f[j] < f[i]
        BY <3>1, <4>1 DEF Enumerates
      <4>3. j < i
        <5>1. ~ (i < j) /\ i # j
          BY <4>2 DEF Enumerates
        <5> QED  BY <5>1
      <4> QED  BY <4>1, <4>3
    <3>2. ASSUME NEW j \in 1..(i - 1)  PROVE f[j] \in below(f[i])
      <4>1. j \in 1..m /\ j < i
        OBVIOUS
      <4> QED  BY <4>1 DEF Enumerates
    <3> QED  BY <3>1, <3>2 DEF First
  <2>2. i \in 1..(m + 1)
    OBVIOUS
  <2> QED  BY <2>1, <2>2, FirstOnes
<1>4. ASSUME NEW i \in 1..m  PROVE (CHOOSE x \in S : Cardinality(below(x)) = i - 1) = f[i]
  <2>1. f[i] \in S /\ Cardinality(below(f[i])) = i - 1
    BY <1>3 DEF Enumerates
  <2>2. ASSUME NEW x \in S, Cardinality(below(x)) = i - 1  PROVE x = f[i]
    <3>1. PICK j \in 1..m : x = f[j]
      BY DEF Enumerates
    <3>2. j - 1 = i - 1
      BY <1>3, <2>2, <3>1
    <3>3. j = i
      BY <3>2
    <3> QED  BY <3>1, <3>3
  <2> HIDE DEF below
  <2> QED  BY <2>1, <2>2
<1>5. Ascending(S) = [i \in 1..m |-> f[i]]
  BY <1>2, <1>4 DEF Ascending
<1>6. f = [i \in 1..m |-> f[i]]
  BY DEF Enumerates
<1> QED  BY <1>2, <1>5, <1>6

LEMMA Listed ==
  ASSUME NEW n \in Nat, NEW S \in SUBSET (1..n)
  PROVE  \E m \in Nat : Enumerates(Ascending(S), m, S)
<1> DEFINE Has(k) == \A T \in SUBSET (1..k) : \E m \in Nat : \E f : Enumerates(f, m, T)
           Bad == {k \in Nat : ~ Has(k)}
<1>1. SUFFICES ASSUME Bad # {}  PROVE FALSE
  <2>1. Has(n)
    BY <1>1
  <2>2. PICK m \in Nat : \E f : Enumerates(f, m, S)
    BY <2>1
  <2>3. PICK f : Enumerates(f, m, S)
    BY <2>2
  <2>4. S \in SUBSET Nat
    OBVIOUS
  <2>5. Ascending(S) = f
    BY <2>3, <2>4, AscendingIs
  <2> QED  BY <2>3, <2>5
<1>2. PICK k \in Bad : \A l \in Bad : k <= l
  BY <1>1, Least
<1>3. PICK T \in SUBSET (1..k) : ~ \E m \in Nat : \E f : Enumerates(f, m, T)
  BY <1>2
<1>4. CASE k \notin T
  <2>1. k # 0
    <3>1. ASSUME k = 0  PROVE FALSE
      <4>1. T = {}
        BY <3>1
      <4>2. Enumerates([i \in 1..0 |-> 0], 0, T)
        BY <4>1 DEF Enumerates
      <4> QED  BY <1>3, <4>2
    <3> QED  BY <3>1
  <2>2. k - 1 \in Nat /\ ~ (k <= k - 1)
    BY <2>1
  <2>3. Has(k - 1)
    BY <1>2, <2>2
  <2>4. T \in SUBSET (1..(k - 1))
    BY <1>4
  <2> QED  BY <1>3, <2>3, <2>4
<1>5. CASE k \in T
  <2>1. k \in 1..k /\ k - 1 \in Nat /\ ~ (k <= k - 1)
    BY <1>5
  <2>2. Has(k - 1)
    BY <1>2, <2>1
  <2>3. T \ {k} \in SUBSET (1..(k - 1))
    OBVIOUS
  <2>4. PICK m \in Nat : \E g : Enumerates(g, m, T \ {k})
    BY <2>2, <2>3
  <2>14. PICK g : Enumerates(g, m, T \ {k})
    BY <2>4
  <2> DEFINE f == [i \in 1..(m + 1) |-> IF i = m + 1 THEN k ELSE g[i]]
  <2>5. m + 1 \in 1..(m + 1) /\ \A i \in 1..(m + 1) : i # m + 1 => i \in 1..m
    OBVIOUS
  <2>6. \A i \in 1..m : g[i] \in T \ {k} /\ g[i] \in Nat /\ g[i] < k
    <3>1. \A i \in 1..m : g[i] \in T \ {k}
      BY <2>14 DEF Enumerates
    <3>2. \A x \in T \ {k} : x \in 1..(k - 1)
      BY <2>3
    <3>3. \A x \in 1..(k - 1) : x \in Nat /\ x < k
      BY <2>1
    <3> QED  BY <3>1, <3>2, <3>3
  <2>7. f \in [1..(m + 1) -> T]
    BY <1>5, <2>5, <2>6
  <2>8. \A x \in T : \E i \in 1..(m + 1) : f[i] = x
    <3>1. f[m + 1] = k
      BY <2>5
    <3>2. \A x \in T \ {k} : \E i \in 1..m : g[i] = x /\ f[i] = g[i] /\ i \in 1..(m + 1)
      BY <2>14 DEF Enumerates
    <3> QED  BY <2>5, <3>1, <3>2
  <2>9. \A i, j \in 1..(m + 1) : i < j => f[i] < f[j]
    <3> SUFFICES ASSUME NEW i \in 1..(m + 1), NEW j \in 1..(m + 1), i < j  PROVE f[i] < f[j]
      OBVIOUS
    <3>1. i \in 1..m /\ f[i] = g[i]
      OBVIOUS
    <3>2. CASE j = m + 1
      BY <2>6, <3>1, <3>2
    <3>3. CASE j # m + 1
      <4>1. j \in 1..m /\ f[j] = g[j]
        BY <3>3
      <4>2. g[i] < g[j]
        BY <2>14, <3>1, <4>1 DEF Enumerates
      <4> QED  BY <3>1, <4>1, <4>2
    <3> QED  BY <3>2, <3>3
  <2> HIDE DEF f
  <2>10. Enumerates(f, m + 1, T)
    BY <2>7, <2>8, <2>9 DEF Enumerates
  <2> QED  BY <1>3, <2>10
<1> QED  BY <1>4, <1>5

(***************************************************************************)
(* A line more: what it changes of the headings above the others.          *)
(***************************************************************************)
Grows(line) == doc \in Seq(Lines) /\ line \in Lines /\ doc' = Append(doc, line) /\ set' = set

LEMMA DocIs ==
  ASSUME doc \in Seq(Lines)
  PROVE  Len(doc) \in Nat /\ DOMAIN doc = 1..Len(doc) /\ \A k \in 1..Len(doc) : doc[k] \in Lines
BY LenProperties

LEMMA GrownDoc ==
  ASSUME NEW line, Grows(line), NEW n \in Nat, n = Len(doc)
  PROVE  /\ DOMAIN doc = 1..n /\ DOMAIN doc' = 1..(n + 1)
         /\ Len(doc') = n + 1 /\ doc' \in Seq(Lines)
         /\ \A k \in 1..n : doc'[k] = doc[k] /\ doc[k] \in Lines
         /\ doc'[n + 1] = line
BY DocIs DEF Grows

LEMMA SameHeadings ==
  ASSUME NEW line, Grows(line), NEW n \in Nat, n = Len(doc)
  PROVE  /\ \A k \in 1..n : (k \in Headings' <=> k \in Headings) /\ (Continues(k)' <=> Continues(k))
         /\ n + 1 \in Headings' <=> line.kind = "heading"
         /\ Headings' \subseteq 1..(n + 1) /\ Headings \subseteq 1..n
<1>1. \A k \in 1..n : k \in Headings' <=> k \in Headings
  BY GrownDoc DEF Headings
<1>2. n + 1 \in Headings' <=> line.kind = "heading"
  BY GrownDoc DEF Headings
<1>3. Headings' \subseteq 1..(n + 1) /\ Headings \subseteq 1..n
  BY GrownDoc DEF Headings
<1>4. ASSUME NEW k \in 1..n  PROVE Continues(k)' <=> Continues(k)
  <2>1. k > 1 => k - 1 \in 1..n
    OBVIOUS
  <2>2. k > 1 => (doc'[k] = doc[k] /\ doc'[k - 1] = doc[k - 1])
    BY <2>1, GrownDoc
  <2>3. k > 1 => ({k - 1, k} \subseteq Headings' <=> {k - 1, k} \subseteq Headings)
    BY <1>1, <2>1
  <2>4. set' = set
    BY DEF Grows
  <2> QED  BY <2>2, <2>3, <2>4 DEF Continues
<1> QED  BY <1>1, <1>2, <1>3, <1>4

LEMMA SameAbove ==
  ASSUME NEW line, Grows(line), NEW n \in Nat, n = Len(doc), NEW k \in 1..(n + 1)
  PROVE  Above(k)' = Above(k)
<1>1. \A h \in Headings' : h < k => h \in 1..n
  BY SameHeadings
<1>2. \A h \in Headings : h \in 1..n
  BY SameHeadings
<1>3. \A h \in 1..n : /\ h \in Headings' <=> h \in Headings
                      /\ Continues(h)' <=> Continues(h)
                      /\ doc'[h] = doc[h]
  BY GrownDoc, SameHeadings
<1>4. ASSUME NEW h \in 1..n, h < k
      PROVE  (\A j \in Headings' : h < j /\ j < k /\ ~ Continues(j)' => doc'[j].level > doc'[h].level)
             <=> (\A j \in Headings : h < j /\ j < k /\ ~ Continues(j) => doc[j].level > doc[h].level)
  BY <1>1, <1>2, <1>3, <1>4
<1>5. \A h : h \in Above(k)' <=> h \in Above(k)
  BY <1>1, <1>2, <1>3, <1>4 DEF Above
<1> QED  BY <1>5

\* The lines from a heading on that continue it.
Run(h) == {j \in h..Len(doc) : \A i \in (h + 1)..j : Continues(i)}

LEMMA RunEnds ==
  ASSUME doc \in Seq(Lines), NEW n \in Nat, n = Len(doc), NEW h \in 1..n
  PROVE  /\ Max(Run(h)) \in h..n /\ Max(Run(h)) \in Run(h)
         /\ \A j \in Run(h) : j <= Max(Run(h))
         /\ TitleFrom(h) = [i \in 1..(Max(Run(h)) - h + 1) |-> h + i - 1]
<1>1. h \in Run(h) /\ Run(h) \in SUBSET (0..n) /\ Run(h) \subseteq h..n
  BY DEF Run
<1>2. Max(Run(h)) \in Run(h) /\ \A j \in Run(h) : j <= Max(Run(h))
  BY <1>1, Greatest
<1>3. TitleFrom(h) = [i \in 1..(Max(Run(h)) - h + 1) |-> h + i - 1]
  BY DEF TitleFrom, Run
<1> QED  BY <1>1, <1>2, <1>3

LEMMA TitleIs ==
  ASSUME doc \in Seq(Lines), NEW h \in 1..Len(doc)
  PROVE  TitleFrom(h) \in Seq(Nat)
<1>1. PICK n \in Nat : n = Len(doc)
  BY DocIs
<1>2. PICK last \in h..n : TitleFrom(h) = [i \in 1..(last - h + 1) |-> h + i - 1]
  BY <1>1, RunEnds
<1>3. last - h + 1 \in Nat /\ \A i \in 1..(last - h + 1) : h + i - 1 \in Nat
  BY <1>1
<1>4. [i \in 1..(last - h + 1) |-> h + i - 1] \in [1..(last - h + 1) -> Nat]
  BY <1>3
<1> QED  BY <1>2, <1>3, <1>4, SeqDef

LEMMA SameTitle ==
  ASSUME NEW line, Grows(line), NEW n \in Nat, n = Len(doc), NEW h \in 1..n,
         NEW k \in (h + 1)..(n + 1), ~ Continues(k)'
  PROVE  TitleFrom(h)' = TitleFrom(h)
<1>1. \A i \in 1..n : Continues(i)' <=> Continues(i)
  BY SameHeadings
<1>2. Len(doc') = n + 1
  BY GrownDoc
<1>3. ASSUME NEW j \in Run(h)'  PROVE j \in Run(h)
  <2>1. j \in h..(n + 1) /\ \A i \in (h + 1)..j : Continues(i)'
    BY <1>2 DEF Run
  <2>2. j < k
    <3>1. ~ (k \in (h + 1)..j)
      BY <2>1
    <3> QED  BY <2>1, <3>1
  <2>3. j \in h..n /\ \A i \in (h + 1)..j : i \in 1..n
    BY <2>1, <2>2
  <2> QED  BY <1>1, <2>1, <2>3 DEF Run
<1>4. ASSUME NEW j \in Run(h)  PROVE j \in Run(h)'
  <2>1. j \in h..n /\ \A i \in (h + 1)..j : Continues(i)
    BY DEF Run
  <2>2. j \in h..(n + 1) /\ \A i \in (h + 1)..j : i \in 1..n
    BY <2>1
  <2> QED  BY <1>1, <1>2, <2>1, <2>2 DEF Run
<1>5. Run(h)' = Run(h)
  BY <1>3, <1>4
<1>6. Max(Run(h)') = Max(Run(h))
  BY <1>5
<1> QED  BY <1>6 DEF TitleFrom, Run

LEMMA AboveLists ==
  ASSUME doc \in Seq(Lines), NEW n \in Nat, n = Len(doc), NEW k \in 1..(n + 1)
  PROVE  /\ Above(k) \in SUBSET (1..n) /\ \A h \in Above(k) : h < k
         /\ \E m \in Nat : Enumerates(Ascending(Above(k)), m, Above(k))
<1>1. DOMAIN doc = 1..n
  BY DocIs
<1>2. Above(k) \in SUBSET (1..n) /\ \A h \in Above(k) : h < k
  BY <1>1 DEF Above, Headings
<1> QED  BY <1>2, Listed

LEMMA SamePath ==
  ASSUME NEW line, Grows(line), NEW n \in Nat, n = Len(doc), NEW k \in 1..n, doc[k].kind # "heading"
  PROVE  PathOf(k)' = PathOf(k)
<1>1. doc \in Seq(Lines) /\ doc'[k] = doc[k] /\ k \in 1..(n + 1)
  BY GrownDoc DEF Grows
<1>2. PICK above : above = Ascending(Above(k))
  OBVIOUS
<1>3. Ascending(Above(k)') = above
  BY <1>1, <1>2, SameAbove
<1>4. PICK m \in Nat : Enumerates(above, m, Above(k))
  BY <1>1, <1>2, AboveLists
<1>5. ~ Continues(k)'
  BY <1>1 DEF Continues, Headings
<1>6. ASSUME NEW i \in DOMAIN above  PROVE TitleFrom(above[i])' = TitleFrom(above[i])
  <2>1. above[i] \in Above(k)
    BY <1>4 DEF Enumerates
  <2>2. PICK h \in 1..n : h = above[i] /\ h < k
    BY <1>1, <2>1, AboveLists
  <2>3. k \in (h + 1)..(n + 1)
    BY <2>2
  <2>4. TitleFrom(h)' = TitleFrom(h)
    BY <1>5, <2>3, SameTitle
  <2> QED  BY <2>2, <2>4
<1>7. [i \in DOMAIN above |-> TitleFrom(above[i])'] = [i \in DOMAIN above |-> TitleFrom(above[i])]
  BY <1>6
<1> QED  BY <1>1, <1>2, <1>3, <1>7 DEF PathOf

(***************************************************************************)
(* The stack is the path of the line that comes next.                      *)
(***************************************************************************)
Stands(m, f, n) ==
    /\ f = Ascending(Above(n + 1)) /\ Enumerates(f, m, Above(n + 1))
    /\ \A j \in 1..m : f[j] \in 1..n /\ f[j] \in Above(n + 1)
    /\ stack = [i \in 1..m |-> Open(f[i])]

LEMMA StackLists ==
  ASSUME doc \in Seq(Lines), StackInv, NEW n \in Nat, n = Len(doc)
  PROVE  \E m \in Nat : \E f : Stands(m, f, n)
<1>1. n + 1 \in 1..(n + 1)
  OBVIOUS
<1>2. PICK m \in Nat : Enumerates(Ascending(Above(n + 1)), m, Above(n + 1))
  BY <1>1, AboveLists
<1>3. PICK f : f = Ascending(Above(n + 1))
  OBVIOUS
<1>4. DOMAIN f = 1..m /\ \A i \in 1..m : f[i] \in Above(n + 1)
  BY <1>2, <1>3 DEF Enumerates
<1>5. \A i \in 1..m : f[i] \in 1..n
  BY <1>1, <1>4, AboveLists
<1>6. stack = [i \in 1..m |-> Open(f[i])]
  BY <1>3, <1>4 DEF StackInv
<1> QED  BY <1>2, <1>3, <1>4, <1>5, <1>6 DEF Stands

LEMMA NextPath ==
  ASSUME StackInv, NEW line, Grows(line), line.kind = "text", NEW n \in Nat, n = Len(doc)
  PROVE  PathOf(n + 1)' = Section(stack)
<1>1. doc \in Seq(Lines) /\ doc'[n + 1] = line /\ n + 1 \in 1..(n + 1)
  BY GrownDoc DEF Grows
<1>2. PICK m \in Nat : \E f : Stands(m, f, n)
  BY <1>1, StackLists
<1>3. PICK f : Stands(m, f, n)
  BY <1>2
<1>10. f = Ascending(Above(n + 1)) /\ Enumerates(f, m, Above(n + 1))
  BY <1>3 DEF Stands
<1>11. \A j \in 1..m : f[j] \in 1..n
  BY <1>3 DEF Stands
<1>12. stack = [i \in 1..m |-> Open(f[i])]
  BY <1>3 DEF Stands
<1>4. Ascending(Above(n + 1)') = f
  BY <1>1, <1>10, SameAbove
<1>5. ~ Continues(n + 1)'
  BY <1>1 DEF Continues, Headings
<1>6. \A i \in 1..m : TitleFrom(f[i])' = TitleFrom(f[i])
  <2> SUFFICES ASSUME NEW i \in 1..m  PROVE TitleFrom(f[i])' = TitleFrom(f[i])
    OBVIOUS
  <2>1. PICK h \in 1..n : h = f[i]
    BY <1>11
  <2>2. n + 1 \in (h + 1)..(n + 1)
    OBVIOUS
  <2>3. TitleFrom(h)' = TitleFrom(h)
    BY <1>5, <2>2, SameTitle
  <2> QED  BY <2>1, <2>3
<1>7. DOMAIN f = 1..m
  BY <1>10 DEF Enumerates
<1>8. PathOf(n + 1)' = [i \in 1..m |-> TitleFrom(f[i])]
  BY <1>1, <1>4, <1>6, <1>7 DEF PathOf
<1>9. Section(stack) = [i \in 1..m |-> TitleFrom(f[i])]
  BY <1>12 DEF Section, Open
<1> QED  BY <1>8, <1>9

LEMMA OpenStays ==
  ASSUME NEW line, Grows(line), NEW n \in Nat, n = Len(doc), NEW h \in 1..n,
         NEW k \in (h + 1)..(n + 1), ~ Continues(k)'
  PROVE  Open(h)' = Open(h)
<1>1. TitleFrom(h)' = TitleFrom(h)
  BY SameTitle
<1>2. doc'[h] = doc[h]
  BY GrownDoc
<1> QED  BY <1>1, <1>2 DEF Open

LEMMA NextStack ==
  ASSUME NEW k, k = Len(doc') + 1, NEW f, Ascending(Above(k)') = f,
         stack' = [i \in DOMAIN f |-> Open(f[i])']
  PROVE  StackInv'
BY DEF StackInv

(* A line of text or an item leaves the headings open. *)
LEMMA StackStays ==
  ASSUME StackInv, NEW line, Grows(line), line.kind # "heading", stack' = stack
  PROVE  StackInv'
<1>1. PICK n \in Nat : n = Len(doc)
  BY DocIs DEF Grows
<1>2. doc \in Seq(Lines) /\ Len(doc') = n + 1 /\ doc'[n + 1] = line /\ n + 1 \in 1..(n + 1)
  BY <1>1, GrownDoc DEF Grows
<1>3. PICK m \in Nat : \E f : Stands(m, f, n)
  BY <1>1, <1>2, StackLists
<1>4. PICK f : Stands(m, f, n)
  BY <1>3
<1>13. f = Ascending(Above(n + 1)) /\ Enumerates(f, m, Above(n + 1))
  BY <1>4 DEF Stands
<1>14. \A j \in 1..m : f[j] \in 1..n
  BY <1>4 DEF Stands
<1>15. stack = [i \in 1..m |-> Open(f[i])]
  BY <1>4 DEF Stands
<1>5. ~ Continues(n + 1)' /\ n + 1 \notin Headings'
  BY <1>2 DEF Continues, Headings
<1>6. \A h \in Headings' : h \in 1..n
  BY <1>1, <1>5, SameHeadings
<1>7. Above(n + 2)' = Above(n + 1)'
  BY <1>6 DEF Above
<1>8. Ascending(Above(n + 2)') = f
  BY <1>1, <1>2, <1>7, <1>13, SameAbove
<1>9. \A i \in 1..m : Open(f[i])' = Open(f[i])
  <2> SUFFICES ASSUME NEW i \in 1..m  PROVE Open(f[i])' = Open(f[i])
    OBVIOUS
  <2>1. PICK h \in 1..n : h = f[i]
    BY <1>14
  <2>2. n + 1 \in (h + 1)..(n + 1)
    OBVIOUS
  <2>3. Open(h)' = Open(h)
    BY <1>1, <1>5, <2>2, OpenStays
  <2> QED  BY <2>1, <2>3
<1>10. DOMAIN f = 1..m
  BY <1>13 DEF Enumerates
<1>11. stack' = [i \in DOMAIN f |-> Open(f[i])']
  BY <1>9, <1>10, <1>15
<1>12. n + 2 = Len(doc') + 1
  BY <1>2
<1>16. PICK k : k = n + 2
  OBVIOUS
<1>17. k = Len(doc') + 1 /\ Ascending(Above(k)') = f
  BY <1>8, <1>12, <1>16
<1> QED  BY <1>11, <1>17, NextStack, ZenonT(30)

(* The last of the open headings goes on to the last line, if that is one. *)
LEMMA LastRuns ==
  ASSUME doc \in Seq(Lines), NEW n \in Nat, n = Len(doc), n # 0, doc[n].kind = "heading",
         NEW m \in Nat, NEW f, Enumerates(f, m, Above(n + 1))
  PROVE  m \in 1..m /\ f[m] \in 1..n /\ n \in Run(f[m]) /\ ~ Continues(f[m])
<1> DEFINE first == {i \in 1..n : ~ Continues(i)}
<1>1. DOMAIN doc = 1..n /\ n \in 1..n
  BY DocIs
<1>2. 1 \in first /\ first \in SUBSET (0..n) /\ first \subseteq 1..n
  BY <1>1 DEF Continues
<1>3. PICK h \in first : \A i \in first : i <= h
  BY <1>2, Greatest
<1>4. h \in 1..n /\ ~ Continues(h)
  OBVIOUS
<1>5. \A j \in (h + 1)..n : Continues(j)
  <2> SUFFICES ASSUME NEW j \in (h + 1)..n  PROVE Continues(j)
    OBVIOUS
  <2>1. j \in 1..n /\ ~ (j <= h)
    BY <1>4
  <2> QED  BY <1>3, <2>1
<1> HIDE DEF first
<1>6. h \in Headings
  <2>1. CASE h = n
    BY <1>1, <2>1 DEF Headings
  <2>2. CASE h # n
    <3>1. h + 1 \in (h + 1)..n /\ (h + 1) - 1 = h
      BY <1>4, <2>2
    <3>2. Continues(h + 1)
      BY <1>5, <3>1
    <3> QED  BY <3>1, <3>2 DEF Continues
  <2> QED  BY <2>1, <2>2
<1>7. h \in Above(n + 1)
  <2>1. h < n + 1
    BY <1>4
  <2>2. \A j \in Headings : h < j /\ j < n + 1 => Continues(j)
    <3> SUFFICES ASSUME NEW j \in Headings, h < j, j < n + 1  PROVE Continues(j)
      OBVIOUS
    <3>1. j \in 1..n
      BY <1>1 DEF Headings
    <3>2. j \in (h + 1)..n
      BY <1>4, <3>1
    <3> QED  BY <1>5, <3>2
  <2> QED  BY <1>4, <1>6, <2>1, <2>2 DEF Above
<1>8. PICK i \in 1..m : f[i] = h
  BY <1>7 DEF Enumerates
<1>9. m \in 1..m /\ f[m] \in Above(n + 1)
  <2>1. m \in 1..m
    BY <1>8
  <2> QED  BY <2>1 DEF Enumerates
<1>10. f[m] \in 1..n /\ ~ Continues(f[m])
  BY <1>1, <1>9 DEF Above, Headings
<1>11. f[m] = h
  <2>1. ~ (f[m] \in (h + 1)..n)
    BY <1>5, <1>10
  <2>2. i < m => f[i] < f[m]
    BY <1>8, <1>9 DEF Enumerates
  <2> QED  BY <1>4, <1>8, <1>9, <1>10, <2>1, <2>2
<1>12. n \in Run(h)
  BY <1>4, <1>5 DEF Run
<1> QED  BY <1>9, <1>10, <1>11, <1>12

LEMMA AboveOf ==
  ASSUME doc \in Seq(Lines), NEW n \in Nat, n = Len(doc), NEW h
  PROVE  h \in Above(n + 1) <=>
            /\ h \in Headings /\ ~ Continues(h)
            /\ \A j \in Headings : h < j /\ ~ Continues(j) => doc[j].level > doc[h].level
<1>1. \A j \in Headings : j \in 1..n
  BY DocIs DEF Headings
<1>2. \A j \in 1..n : j < n + 1
  OBVIOUS
<1> QED  BY <1>1, <1>2 DEF Above

LEMMA NextAbove ==
  ASSUME NEW line, Grows(line), NEW n \in Nat, n = Len(doc), NEW h \in 1..n
  PROVE  h \in Above(n + 2)' <=>
            h \in Above(n + 1) /\ (n + 1 \in Headings' /\ ~ Continues(n + 1)' => line.level > doc[h].level)
<1>1. doc \in Seq(Lines) /\ doc'[h] = doc[h] /\ doc'[n + 1] = line
  BY GrownDoc DEF Grows
<1>2. /\ h \in Headings' <=> h \in Headings
      /\ Continues(h)' <=> Continues(h)
  BY SameHeadings
<1>3. \A j \in 1..n : /\ j \in Headings' <=> j \in Headings
                      /\ Continues(j)' <=> Continues(j)
                      /\ doc'[j] = doc[j]
  BY SameHeadings, GrownDoc
<1>4. Headings \subseteq 1..n /\ Headings' \subseteq 1..(n + 1)
  BY SameHeadings
<1>5. \A j \in 1..(n + 1) : j < n + 2 /\ (j \in 1..n \/ j = n + 1)
  OBVIOUS
<1>6. h < n + 1 /\ h < n + 2
  OBVIOUS
<1>7. h \in Above(n + 2)' <=>
        /\ h \in Headings /\ ~ Continues(h)
        /\ \A j \in Headings' : h < j /\ ~ Continues(j)' => doc'[j].level > doc[h].level
  BY <1>1, <1>2, <1>4, <1>5, <1>6 DEF Above
<1>8. (\A j \in Headings' : h < j /\ ~ Continues(j)' => doc'[j].level > doc[h].level)
      <=> /\ \A j \in Headings : h < j /\ ~ Continues(j) => doc[j].level > doc[h].level
          /\ n + 1 \in Headings' /\ ~ Continues(n + 1)' => line.level > doc[h].level
  BY <1>1, <1>3, <1>4, <1>5, <1>6
<1> QED  BY <1>1, <1>7, <1>8, AboveOf

LEMMA LastAbove ==
  ASSUME NEW line, Grows(line), NEW n \in Nat, n = Len(doc)
  PROVE  /\ n + 1 \in Above(n + 2)' <=> n + 1 \in Headings' /\ ~ Continues(n + 1)'
         /\ Above(n + 2)' \subseteq 1..(n + 1)
<1>1. Headings' \subseteq 1..(n + 1)
  BY SameHeadings
<1>2. \A j \in 1..(n + 1) : ~ (n + 1 < j)
  OBVIOUS
<1>3. n + 1 < n + 2
  OBVIOUS
<1> QED  BY <1>1, <1>2, <1>3 DEF Above

(* A heading that does not continue one starts a title. *)
LEMMA NewTitle ==
  ASSUME NEW line, Grows(line), NEW n \in Nat, n = Len(doc)
  PROVE  TitleFrom(n + 1)' = <<n + 1>>
<1>1. Len(doc') = n + 1
  BY GrownDoc
<1>2. Run(n + 1)' = {n + 1}
  BY <1>1 DEF Run
<1>3. Max({n + 1}) = n + 1
  <2>1. {n + 1} \in SUBSET (0..(n + 1)) /\ n + 1 \in Nat
    OBVIOUS
  <2> QED  BY <2>1, Greatest
<1>4. TitleFrom(n + 1)' = [i \in 1..((n + 1) - (n + 1) + 1) |-> (n + 1) + i - 1]
  BY <1>2, <1>3 DEF TitleFrom, Run
<1>5. (n + 1) - (n + 1) + 1 = 1 /\ \A i \in 1..1 : (n + 1) + i - 1 = n + 1
  OBVIOUS
<1> QED  BY <1>4, <1>5

LEMMA LevelsRise ==
  ASSUME doc \in Seq(Lines), NEW n \in Nat, n = Len(doc), NEW m \in Nat, NEW f, Stands(m, f, n),
         NEW i \in 1..m, NEW j \in 1..m, i < j
  PROVE  doc[f[i]].level < doc[f[j]].level
<1>1. f[i] \in Above(n + 1) /\ f[j] \in Above(n + 1) /\ f[i] \in 1..n /\ f[j] \in 1..n
  BY DEF Stands
<1>2. f[i] < f[j]
  BY DEF Stands, Enumerates
<1>3. f[j] \in Headings /\ ~ Continues(f[j])
  BY <1>1, AboveOf
<1>4. doc[f[j]].level > doc[f[i]].level
  BY <1>1, <1>2, <1>3, AboveOf
<1>5. doc[f[i]].level \in Nat /\ doc[f[j]].level \in Nat
  BY <1>1, DocIs DEF Lines
<1> QED  BY <1>4, <1>5

LEMMA SeqIs ==
  ASSUME NEW S, NEW s \in Seq(S), NEW n \in Nat, Len(s) = n
  PROVE  s = [i \in 1..n |-> s[i]]
BY LenProperties

(* The headings a new one is under are the first so many of the open ones. *)
UnderFirst(q, m, f, level) ==
    /\ Under(level) = [i \in 1..q |-> Open(f[i])]
    /\ \A j \in 1..m : doc[f[j]].level < level <=> j <= q

LEMMA UnderIs ==
  ASSUME doc \in Seq(Lines), NEW n \in Nat, n = Len(doc), NEW m \in Nat, NEW f, Stands(m, f, n),
         NEW level \in Nat
  PROVE  \E q \in 0..m : UnderFirst(q, m, f, level)
<1> DEFINE low == {i \in 1..m : doc[f[i]].level < level}
<1>1. stack = [i \in 1..m |-> Open(f[i])]
  BY DEF Stands
<1>2. \A i \in 1..m : doc[f[i]].level \in Nat
  <2>1. \A i \in 1..m : f[i] \in 1..n
    BY DEF Stands
  <2> QED  BY <2>1, DocIs DEF Lines
<1>3. {i \in DOMAIN stack : stack[i].level < level} = low
  BY <1>1 DEF Open
<1>4. {0} \cup low \in SUBSET (0..m) /\ {0} \cup low # {}
  OBVIOUS
<1>5. PICK q : q = Max({0} \cup low)
  OBVIOUS
<1>6. q \in {0} \cup low /\ \A i \in {0} \cup low : i <= q
  BY <1>4, <1>5, Greatest
<1>7. q \in 0..m
  BY <1>4, <1>6
<1>8. \A i \in 1..m : doc[f[i]].level < level <=> i <= q
  <2> SUFFICES ASSUME NEW i \in 1..m  PROVE doc[f[i]].level < level <=> i <= q
    OBVIOUS
  <2>1. doc[f[i]].level < level => i <= q
    BY <1>6
  <2>2. ASSUME i <= q  PROVE doc[f[i]].level < level
    <3>1. q \in 1..m /\ doc[f[q]].level < level
      BY <1>6, <1>7, <2>2
    <3>2. i < q => doc[f[i]].level < doc[f[q]].level
      BY <3>1, LevelsRise
    <3>3. CASE i = q
      BY <3>1, <3>3
    <3>4. CASE i < q
      <4>1. doc[f[i]].level \in Nat /\ doc[f[q]].level \in Nat
        BY <1>2, <3>1
      <4> QED  BY <3>1, <3>2, <3>4, <4>1
    <3>5. i = q \/ i < q
      BY <1>7, <2>2
    <3> QED  BY <3>3, <3>4, <3>5
  <2> QED  BY <2>1, <2>2
<1>9. Under(level) = [i \in 1..q |-> Open(f[i])]
  <2>1. Under(level) = SubSeq(stack, 1, q)
    BY <1>3, <1>5 DEF Under
  <2>2. SubSeq(stack, 1, q) = [i \in 1..q |-> stack[i]]
    <3> DEFINE R == {stack[i] : i \in 1..m}
    <3>1. \A i \in 1..q : stack[i] \in R
      BY <1>7
    <3>2. q \in Nat /\ q \in Int /\ 1 \in Int /\ q - 1 + 1 = q /\ (1 <= q \/ q = 0)
      BY <1>7
    <3> HIDE DEF R
    <3>3. /\ SubSeq(stack, 1, q) \in Seq(R) /\ Len(SubSeq(stack, 1, q)) = q
          /\ \A i \in 1..q : SubSeq(stack, 1, q)[i] = stack[1 + i - 1]
      BY <3>1, <3>2, SubSeqProperties
    <3>4. \A i \in 1..q : 1 + i - 1 = i
      BY <3>2
    <3> QED  BY <3>2, <3>3, <3>4, SeqIs
  <2>3. \A i \in 1..q : i \in 1..m
    BY <1>7
  <2> QED  BY <1>1, <2>1, <2>2, <2>3
<1> QED  BY <1>7, <1>8, <1>9 DEF UnderFirst

LEMMA StackPushes ==
  ASSUME StackInv, NEW line, Grows(line), line.kind = "heading", NEW n \in Nat, n = Len(doc),
         ~ Continues(n + 1)',
         stack' = Append(Under(line.level), [level |-> line.level, title |-> <<n + 1>>])
  PROVE  StackInv'
<1>1. doc \in Seq(Lines) /\ Len(doc') = n + 1 /\ doc'[n + 1] = line /\ line.level \in Nat
  BY GrownDoc DEF Grows, Lines
<1>2. PICK m \in Nat : \E f : Stands(m, f, n)
  BY <1>1, StackLists
<1>3. PICK f : Stands(m, f, n)
  BY <1>2
<1>20. PICK q \in 0..m : UnderFirst(q, m, f, line.level)
  BY <1>1, <1>3, UnderIs
<1>4. /\ q \in 0..m /\ Under(line.level) = [i \in 1..q |-> Open(f[i])]
      /\ \A i \in 1..m : doc[f[i]].level < line.level <=> i <= q
  BY <1>20 DEF UnderFirst
<1>5. Enumerates(f, m, Above(n + 1)) /\ \A j \in 1..m : f[j] \in 1..n /\ f[j] \in Above(n + 1)
  BY <1>3 DEF Stands
<1> DEFINE g == [i \in 1..(q + 1) |-> IF i = q + 1 THEN n + 1 ELSE f[i]]
<1>6. PICK S : S = Above(n + 2)'
  OBVIOUS
<1>7. n + 1 \in S /\ S \subseteq 1..(n + 1)
  BY <1>1, <1>6, LastAbove, SameHeadings
<1>8. \A h \in 1..n : h \in S <=> h \in Above(n + 1) /\ doc[h].level < line.level
  <2>1. \A h \in 1..n : doc[h].level \in Nat
    BY <1>1, DocIs DEF Lines
  <2>2. n + 1 \in Headings'
    BY <1>1, SameHeadings
  <2> QED  BY <1>1, <1>6, <2>1, <2>2, NextAbove
<1>9. q + 1 \in 1..(q + 1) /\ \A i \in 1..(q + 1) : i # q + 1 => i \in 1..q /\ i \in 1..m
  BY <1>4
<1>10. \A i \in 1..q : f[i] \in S /\ f[i] \in 1..n /\ i \in 1..(q + 1) /\ g[i] = f[i]
  <2> SUFFICES ASSUME NEW i \in 1..q
               PROVE  f[i] \in S /\ f[i] \in 1..n /\ i \in 1..(q + 1) /\ g[i] = f[i]
    OBVIOUS
  <2>1. i \in 1..m /\ i <= q /\ i \in 1..(q + 1) /\ i # q + 1
    BY <1>4
  <2> QED  BY <1>4, <1>5, <1>8, <2>1
<1>11. g[q + 1] = n + 1
  BY <1>9
<1>12. Enumerates(g, q + 1, S)
  <2>1. g \in [1..(q + 1) -> S]
    BY <1>7, <1>9, <1>10
  <2>2. \A x \in S : \E i \in 1..(q + 1) : g[i] = x
    <3> SUFFICES ASSUME NEW x \in S  PROVE \E i \in 1..(q + 1) : g[i] = x
      OBVIOUS
    <3>1. CASE x = n + 1
      BY <1>9, <1>11, <3>1
    <3>2. CASE x # n + 1
      <4>1. x \in 1..n
        BY <1>7, <3>2
      <4>2. x \in Above(n + 1) /\ doc[x].level < line.level
        BY <1>8, <4>1
      <4>3. PICK i \in 1..m : f[i] = x
        BY <1>5, <4>2 DEF Enumerates
      <4>4. i <= q
        BY <1>4, <4>2, <4>3
      <4>5. i \in 1..q
        BY <4>4
      <4> QED  BY <1>10, <4>3, <4>5
    <3> QED  BY <3>1, <3>2
  <2>3. \A i, j \in 1..(q + 1) : i < j => g[i] < g[j]
    <3> SUFFICES ASSUME NEW i \in 1..(q + 1), NEW j \in 1..(q + 1), i < j  PROVE g[i] < g[j]
      OBVIOUS
    <3>1. i \in 1..q
      BY <1>4
    <3>2. CASE j = q + 1
      <4>1. g[i] = f[i] /\ f[i] \in 1..n /\ g[j] = n + 1
        BY <1>10, <1>11, <3>1, <3>2
      <4>2. f[i] < n + 1
        BY <4>1
      <4> QED  BY <4>1, <4>2
    <3>3. CASE j # q + 1
      <4>1. j \in 1..q /\ i \in 1..m /\ j \in 1..m
        BY <1>4, <3>1, <3>3
      <4>2. f[i] < f[j]
        BY <1>5, <4>1 DEF Enumerates
      <4> QED  BY <1>10, <3>1, <4>1, <4>2
    <3> QED  BY <3>2, <3>3
  <2> HIDE DEF g
  <2> QED  BY <2>1, <2>2, <2>3 DEF Enumerates
<1> HIDE DEF g
<1>13. Ascending(S) = g
  <2>1. S \in SUBSET Nat /\ q + 1 \in Nat
    BY <1>4, <1>7
  <2> QED  BY <1>12, <2>1, AscendingIs
<1>14. DOMAIN g = 1..(q + 1)
  BY <1>12 DEF Enumerates
<1>15. \A i \in 1..q : Open(g[i])' = Open(f[i])
  <2> SUFFICES ASSUME NEW i \in 1..q  PROVE Open(g[i])' = Open(f[i])
    OBVIOUS
  <2>1. PICK h \in 1..n : h = f[i] /\ g[i] = h
    BY <1>10
  <2>2. n + 1 \in (h + 1)..(n + 1)
    OBVIOUS
  <2>3. Open(h)' = Open(h)
    BY <2>2, OpenStays
  <2> QED  BY <2>1, <2>3
<1>16. Open(n + 1)' = [level |-> line.level, title |-> <<n + 1>>]
  <2>1. TitleFrom(n + 1)' = <<n + 1>>
    BY NewTitle
  <2> QED  BY <1>1, <2>1 DEF Open
<1>17. stack' = [i \in 1..(q + 1) |-> IF i = q + 1 THEN Open(n + 1)' ELSE Open(f[i])]
  <2>1. PICK top : top = [level |-> line.level, title |-> <<n + 1>>]
    OBVIOUS
  <2>2. PICK under : under = [i \in 1..q |-> Open(f[i])]
    OBVIOUS
  <2>3. stack' = Append(under, top)
    BY <1>4, <2>1, <2>2
  <2>4. Len(under) = q
    <3>1. q \in Nat
      BY <1>4
    <3> QED  BY <2>2, <3>1
  <2>5. Append(under, top) = [i \in 1..(q + 1) |-> IF i = q + 1 THEN top ELSE under[i]]
    <3> DEFINE R == {under[i] : i \in 1..q} \cup {top}
    <3>1. q \in Nat /\ under \in [1..q -> R] /\ top \in R
      BY <1>4, <2>2
    <3> HIDE DEF R
    <3>2. under \in Seq(R)
      BY <3>1, SeqDef
    <3>3. /\ Append(under, top) \in Seq(R) /\ Len(Append(under, top)) = q + 1
          /\ Append(under, top)[q + 1] = top
          /\ \A i \in 1..q : Append(under, top)[i] = under[i]
      BY <2>4, <3>1, <3>2, AppendProperties
    <3>4. Append(under, top) = [i \in 1..(q + 1) |-> Append(under, top)[i]]
      <4>1. PICK all : all = Append(under, top)
        OBVIOUS
      <4>2. all \in Seq(R) /\ Len(all) = q + 1 /\ q + 1 \in Nat
        BY <3>1, <3>3, <4>1
      <4>3. all = [i \in 1..(q + 1) |-> all[i]]
        BY <4>2, SeqIs
      <4> QED  BY <4>1, <4>3
    <3> QED  BY <1>9, <3>3, <3>4
  <2>6. \A i \in 1..(q + 1) : i # q + 1 => under[i] = Open(f[i])
    BY <1>9, <2>2
  <2> QED  BY <1>16, <2>1, <2>3, <2>5, <2>6
<1>18. stack' = [i \in DOMAIN g |-> Open(g[i])']
  <2>1. \A i \in 1..(q + 1) : Open(g[i])' = IF i = q + 1 THEN Open(n + 1)' ELSE Open(f[i])
    BY <1>9, <1>11, <1>15
  <2> QED  BY <1>14, <1>17, <2>1
<1>19. n + 2 = Len(doc') + 1
  BY <1>1
<1> QED  BY <1>6, <1>13, <1>18, <1>19, NextStack

(* A heading that continues one makes its title longer. *)
LEMMA LongerTitle ==
  ASSUME NEW line, Grows(line), NEW n \in Nat, n = Len(doc), NEW h \in 1..n, n \in Run(h),
         Continues(n + 1)'
  PROVE  TitleFrom(h)' = Append(TitleFrom(h), n + 1)
<1>1. doc \in Seq(Lines) /\ Len(doc') = n + 1
  BY GrownDoc DEF Grows
<1>2. Max(Run(h)) = n /\ TitleFrom(h) = [i \in 1..(n - h + 1) |-> h + i - 1]
  <2>1. PICK last : last = Max(Run(h))
    OBVIOUS
  <2>2. last \in h..n /\ n <= last /\ TitleFrom(h) = [i \in 1..(last - h + 1) |-> h + i - 1]
    BY <1>1, <2>1, RunEnds
  <2>3. last = n
    BY <2>2
  <2> QED  BY <2>1, <2>2, <2>3
<1>3. n + 1 \in Run(h)'
  <2>1. \A i \in (h + 1)..n : Continues(i)
    BY DEF Run
  <2>2. \A i \in 1..n : Continues(i)' <=> Continues(i)
    BY SameHeadings
  <2>3. \A i \in (h + 1)..(n + 1) : i = n + 1 \/ (i \in (h + 1)..n /\ i \in 1..n)
    OBVIOUS
  <2>4. n + 1 \in h..(n + 1)
    OBVIOUS
  <2> QED  BY <1>1, <2>1, <2>2, <2>3, <2>4 DEF Run
<1>4. Run(h)' \subseteq h..(n + 1)
  BY <1>1 DEF Run
<1>5. Max(Run(h)') = n + 1
  <2>1. PICK R : R = Run(h)'
    OBVIOUS
  <2>2. R \in SUBSET (0..(n + 1)) /\ n + 1 \in R /\ n + 1 \in Nat
    BY <1>3, <1>4, <2>1
  <2>3. Max(R) \in R /\ \A j \in R : j <= Max(R)
    BY <2>2, Greatest
  <2>4. Max(R) = n + 1
    <3>1. PICK max : max = Max(R)
      OBVIOUS
    <3>2. max \in 0..(n + 1) /\ n + 1 <= max
      BY <2>2, <2>3, <3>1
    <3>3. max = n + 1
      BY <3>2
    <3> QED  BY <3>1, <3>3
  <2> QED  BY <2>1, <2>4
<1>6. TitleFrom(h)' = [i \in 1..((n + 1) - h + 1) |-> h + i - 1]
  BY <1>5 DEF TitleFrom, Run
<1>7. PICK old : old = TitleFrom(h)
  OBVIOUS
<1>8. old \in Seq(Nat) /\ Len(old) = n - h + 1
  <2>1. n - h + 1 \in Nat /\ \A i \in 1..(n - h + 1) : h + i - 1 \in Nat
    OBVIOUS
  <2>2. old \in [1..(n - h + 1) -> Nat]
    BY <1>2, <1>7, <2>1
  <2>3. old \in Seq(Nat)
    BY <2>1, <2>2, SeqDef
  <2> QED  BY <2>1, <2>2, <2>3, LenProperties
<1>9. PICK all : all = Append(old, n + 1)
  OBVIOUS
<1>10. /\ all \in Seq(Nat) /\ Len(all) = (n + 1) - h + 1 /\ (n + 1) - h + 1 \in Nat
       /\ \A i \in 1..(n - h + 1) : all[i] = old[i]
       /\ all[n - h + 2] = n + 1
  BY <1>8, <1>9, AppendProperties
<1>11. all = [i \in 1..((n + 1) - h + 1) |-> all[i]]
  BY <1>10, SeqIs
<1>12. \A i \in 1..((n + 1) - h + 1) : all[i] = h + i - 1
  <2> SUFFICES ASSUME NEW i \in 1..((n + 1) - h + 1)  PROVE all[i] = h + i - 1
    OBVIOUS
  <2>1. CASE i = n - h + 2
    BY <1>10, <2>1
  <2>2. CASE i # n - h + 2
    <3>1. i \in 1..(n - h + 1)
      BY <2>2
    <3> QED  BY <1>2, <1>7, <1>10, <3>1
  <2> QED  BY <2>1, <2>2
<1> QED  BY <1>6, <1>7, <1>9, <1>11, <1>12

LEMMA StackExtends ==
  ASSUME StackInv, NEW line, Grows(line), NEW n \in Nat, n = Len(doc), Continues(n + 1)',
         stack' = [stack EXCEPT ![Len(stack)].title = Append(@, n + 1)]
  PROVE  StackInv'
<1>1. doc \in Seq(Lines) /\ Len(doc') = n + 1 /\ doc'[n + 1] = line
  BY GrownDoc DEF Grows
<1>2. n # 0 /\ doc[n].kind = "heading" /\ n \in 1..n
  <2>1. n + 1 > 1 /\ n \in Headings'
    BY DEF Continues
  <2>2. n \in 1..n
    BY <2>1
  <2>3. n \in Headings
    BY <2>1, <2>2, SameHeadings
  <2> QED  BY <2>2, <2>3 DEF Headings
<1>3. PICK m \in Nat : \E f : Stands(m, f, n)
  BY <1>1, StackLists
<1>4. PICK f : Stands(m, f, n)
  BY <1>3
<1>5. /\ f = Ascending(Above(n + 1)) /\ Enumerates(f, m, Above(n + 1))
      /\ \A j \in 1..m : f[j] \in 1..n /\ f[j] \in Above(n + 1)
      /\ stack = [i \in 1..m |-> Open(f[i])]
  BY <1>4 DEF Stands
<1>6. m \in 1..m /\ f[m] \in 1..n /\ n \in Run(f[m]) /\ ~ Continues(f[m])
  BY <1>1, <1>2, <1>5, LastRuns
<1>7. Above(n + 2)' = Above(n + 1)
  <2>1. PICK S : S = Above(n + 2)'
    OBVIOUS
  <2>2. n + 1 \notin S /\ S \subseteq 1..(n + 1)
    BY <2>1, LastAbove
  <2>3. \A h \in 1..n : h \in S <=> h \in Above(n + 1)
    BY <2>1, NextAbove
  <2>4. \A h \in S : h \in 1..n
    BY <2>2
  <2>5. Above(n + 1) \subseteq 1..n
    <3>1. n + 1 \in 1..(n + 1)
      OBVIOUS
    <3> QED  BY <1>1, <3>1, AboveLists
  <2> QED  BY <2>1, <2>3, <2>4, <2>5
<1>8. Ascending(Above(n + 2)') = f
  BY <1>5, <1>7
<1>9. \A i \in 1..m : i # m => Open(f[i])' = Open(f[i])
  <2> SUFFICES ASSUME NEW i \in 1..m, i # m  PROVE Open(f[i])' = Open(f[i])
    OBVIOUS
  <2>1. PICK h \in 1..n : h = f[i]
    BY <1>5
  <2>2. PICK k \in 1..n : k = f[m]
    BY <1>6
  <2>3. h < k
    <3>1. i \in 1..m /\ m \in 1..m /\ i < m
      BY <1>6
    <3>2. f[i] < f[m]
      BY <1>5, <3>1 DEF Enumerates
    <3> QED  BY <2>1, <2>2, <3>2
  <2>4. k \in (h + 1)..(n + 1)
    BY <2>3
  <2>5. ~ Continues(k)'
    BY <1>6, <2>2, SameHeadings
  <2>6. Open(h)' = Open(h)
    BY <2>4, <2>5, OpenStays
  <2> QED  BY <2>1, <2>6
<1>10. PICK h \in 1..n : h = f[m]
  BY <1>6
<1>11. Open(h)' = [level |-> doc[h].level, title |-> Append(TitleFrom(h), n + 1)]
  <2>1. TitleFrom(h)' = Append(TitleFrom(h), n + 1)
    BY <1>6, <1>10, LongerTitle
  <2>2. doc'[h] = doc[h]
    BY GrownDoc
  <2> QED  BY <2>1, <2>2 DEF Open
<1>12. Len(stack) = m
  BY <1>5
<1>13. stack' = [stack EXCEPT ![m] = [level |-> doc[h].level, title |-> Append(TitleFrom(h), n + 1)]]
  <2>1. stack[m] = Open(h)
    BY <1>5, <1>6, <1>10
  <2>2. [stack[m] EXCEPT !.title = Append(@, n + 1)]
        = [level |-> doc[h].level, title |-> Append(TitleFrom(h), n + 1)]
    <3>1. PICK title : title = TitleFrom(h)
      OBVIOUS
    <3>2. PICK longer : longer = Append(title, n + 1)
      OBVIOUS
    <3>3. stack[m] = [level |-> doc[h].level, title |-> title]
      BY <2>1, <3>1 DEF Open
    <3>4. stack[m].title = title
      BY <3>3
    <3>5. [stack[m] EXCEPT !.title = longer] = [level |-> doc[h].level, title |-> longer]
      BY <3>3
    <3> QED  BY <3>1, <3>2, <3>4, <3>5
  <2> QED  BY <1>12, <2>2
<1>14. stack' = [i \in 1..m |-> IF i = m THEN Open(h)' ELSE Open(f[i])]
  BY <1>5, <1>11, <1>13
<1>15. [i \in 1..m |-> Open(f[i])'] = stack'
  BY <1>9, <1>10, <1>14
<1>16. DOMAIN f = 1..m
  BY <1>5 DEF Enumerates
<1>17. Len(doc') + 1 = n + 2
  BY <1>1
<1> QED  BY <1>8, <1>15, <1>16, <1>17, ZenonT(40) DEF StackInv

(***************************************************************************)
(* Prefixes.                                                               *)
(***************************************************************************)
LEMMA PrefixIs ==
  ASSUME NEW S, NEW s \in Seq(S), NEW t \in Seq(S)
  PROVE  IsPrefix(s, t) <=> Len(s) <= Len(t) /\ \A i \in 1..Len(s) : s[i] = t[i]
<1>1. PICK m \in Nat : m = Len(s)
  BY LenProperties
<1>2. PICK n \in Nat : n = Len(t)
  BY LenProperties
<1>3. SUFFICES ASSUME m <= n  PROVE SubSeq(s, 1, m) = SubSeq(t, 1, m) <=> \A i \in 1..m : s[i] = t[i]
  BY <1>1, <1>2 DEF IsPrefix
<1>4. (\A i \in 1..m : s[i] \in S) /\ (\A i \in 1..m : t[i] \in S)
  BY <1>1, <1>2, <1>3, ElementOfSeq
<1>5. m \in Int /\ 1 \in Int /\ m - 1 + 1 = m /\ (1 <= m \/ m = 0)
  OBVIOUS
<1>6. /\ SubSeq(s, 1, m) \in Seq(S) /\ Len(SubSeq(s, 1, m)) = m
      /\ \A i \in 1..m : SubSeq(s, 1, m)[i] = s[1 + i - 1]
  BY <1>4, <1>5, SubSeqProperties
<1>7. /\ SubSeq(t, 1, m) \in Seq(S) /\ Len(SubSeq(t, 1, m)) = m
      /\ \A i \in 1..m : SubSeq(t, 1, m)[i] = t[1 + i - 1]
  BY <1>4, <1>5, SubSeqProperties
<1>8. \A i \in 1..m : 1 + i - 1 = i
  OBVIOUS
<1>9. PICK a, b : a = SubSeq(s, 1, m) /\ b = SubSeq(t, 1, m)
  OBVIOUS
<1>10. a \in Seq(S) /\ b \in Seq(S) /\ Len(a) = m /\ Len(b) = m
  BY <1>6, <1>7, <1>9
<1>11. (\A i \in 1..m : a[i] = s[i]) /\ (\A i \in 1..m : b[i] = t[i])
  BY <1>6, <1>7, <1>8, <1>9
<1>12. a = b <=> \A i \in 1..m : a[i] = b[i]
  BY <1>10, SeqEqual
<1> QED  BY <1>9, <1>11, <1>12

LEMMA PrefixSelf ==
  ASSUME NEW S, NEW s \in Seq(S)
  PROVE  IsPrefix(s, s)
BY PrefixIs, LenProperties

LEMMA PrefixTrans ==
  ASSUME NEW S, NEW s \in Seq(S), NEW t \in Seq(S), NEW u \in Seq(S), IsPrefix(s, t), IsPrefix(t, u)
  PROVE  IsPrefix(s, u)
<1>1. PICK l \in Nat : l = Len(s)
  BY LenProperties
<1>2. PICK m \in Nat : m = Len(t)
  BY LenProperties
<1>3. PICK n \in Nat : n = Len(u)
  BY LenProperties
<1>4. l <= m /\ m <= n /\ (\A i \in 1..l : s[i] = t[i]) /\ (\A i \in 1..m : t[i] = u[i])
  <2>1. l <= m /\ \A i \in 1..l : s[i] = t[i]
    BY <1>1, <1>2, PrefixIs
  <2>2. m <= n /\ \A i \in 1..m : t[i] = u[i]
    BY <1>2, <1>3, PrefixIs
  <2> QED  BY <2>1, <2>2
<1>5. \A i \in 1..l : i \in 1..m
  BY <1>4
<1>6. l <= n /\ \A i \in 1..l : s[i] = u[i]
  BY <1>4, <1>5
<1> QED  BY <1>1, <1>3, <1>6, PrefixIs

(***************************************************************************)
(* Texts and the words they may hold.                                      *)
(***************************************************************************)
LEMMA TextsGrow ==
  ASSUME NEW words, NEW more, words \subseteq more, NEW text \in Texts(words)
  PROVE  text \in Texts(more)
<1>1. TokensOf(words) \subseteq TokensOf(more)
  BY DEF TokensOf
<1> QED  BY <1>1, SeqMonotonic DEF Texts

LEMMA TextIsText ==
  ASSUME NEW words, NEW text \in Texts(words)
  PROVE  text \in Text
<1>1. TokensOf(words) \subseteq Nat \X Nat \X BOOLEAN \X After
  BY DEF TokensOf
<1> QED  BY <1>1, SeqMonotonic DEF Texts, Text

LEMMA PathTyped ==
  ASSUME doc \in Seq(Lines), NEW k \in 1..Len(doc)
  PROVE  PathOf(k) \in Path
<1>1. PICK n \in Nat : n = Len(doc)
  BY DocIs
<1>2. k \in 1..(n + 1) /\ k \in Nat
  BY <1>1
<1>3. CASE doc[k].kind = "item"
  <2>1. <<k>> \in Seq(Nat)
    BY <1>2
  <2>2. <<<<k>>>> \in Seq(Seq(Nat))
    BY <2>1, OneOf
  <2> QED  BY <1>3, <2>2 DEF PathOf, Path
<1>4. CASE doc[k].kind # "item"
  <2>1. PICK f : f = Ascending(Above(k))
    OBVIOUS
  <2>2. PICK m \in Nat : Enumerates(f, m, Above(k))
    BY <1>1, <1>2, <2>1, AboveLists
  <2>3. DOMAIN f = 1..m /\ \A i \in 1..m : f[i] \in 1..n
    <3>1. Above(k) \in SUBSET (1..n)
      BY <1>1, <1>2, AboveLists
    <3> QED  BY <2>2, <3>1 DEF Enumerates
  <2>4. \A i \in 1..m : TitleFrom(f[i]) \in Seq(Nat)
    BY <1>1, <2>3, TitleIs
  <2>5. PathOf(k) = [i \in 1..m |-> TitleFrom(f[i])]
    BY <1>4, <2>1, <2>3 DEF PathOf
  <2>6. [i \in 1..m |-> TitleFrom(f[i])] \in [1..m -> Seq(Nat)]
    BY <2>4
  <2> QED  BY <2>5, <2>6, SeqDef DEF Path
<1> QED  BY <1>3, <1>4

LEMMA SectionTyped ==
  ASSUME doc \in Seq(Lines), StackInv
  PROVE  Section(stack) \in Path
<1>1. PICK n \in Nat : n = Len(doc)
  BY DocIs
<1>2. PICK m \in Nat : \E f : Stands(m, f, n)
  BY <1>1, StackLists
<1>3. PICK f : Stands(m, f, n)
  BY <1>2
<1>4. (\A j \in 1..m : f[j] \in 1..n) /\ stack = [i \in 1..m |-> Open(f[i])]
  BY <1>3 DEF Stands
<1>5. Section(stack) = [i \in 1..m |-> TitleFrom(f[i])]
  BY <1>4 DEF Section, Open
<1>6. [i \in 1..m |-> TitleFrom(f[i])] \in [1..m -> Seq(Nat)]
  BY <1>1, <1>4, TitleIs
<1>7. Section(stack) \in Seq(Seq(Nat))
  BY <1>5, <1>6, ListOf
<1> QED  BY <1>7, ZenonT(30) DEF Path

(***************************************************************************)
(* A line more leaves the words that were read where they were.            *)
(***************************************************************************)
LEMMA HomeGrows ==
  ASSUME NEW line, Grows(line), NEW section, NEW from, NEW to
  PROVE  Home(section, from, to) \subseteq Home(section, from, to)'
<1>1. PICK n \in Nat : n = Len(doc)
  BY DocIs DEF Grows
<1>2. SUFFICES ASSUME NEW w \in Home(section, from, to)  PROVE w \in Home(section, from, to)'
  OBVIOUS
<1>3. /\ w \in Nat \X Nat /\ w[1] \in DOMAIN doc /\ doc[w[1]].kind # "heading"
      /\ IsPrefix(section, PathOf(w[1]))
      /\ from # 0 => doc[w[1]].page \in from..larger(from, to)
  BY <1>2 DEF Home
<1>4. PICK k \in 1..n : k = w[1]
  BY <1>1, <1>3, GrownDoc
<1>5. doc'[k] = doc[k] /\ k \in DOMAIN doc'
  BY <1>1, GrownDoc
<1>6. PathOf(k)' = PathOf(k)
  BY <1>1, <1>3, <1>4, SamePath
<1>7. IsPrefix(section, PathOf(k)')
  BY <1>3, <1>4, <1>6
<1>8. w[1] \in DOMAIN doc' /\ doc'[w[1]] = doc[w[1]] /\ PathOf(w[1])' = PathOf(k)'
  BY <1>4, <1>5
<1> QED  BY <1>3, <1>4, <1>7, <1>8, ZenonT(30) DEF Home

LEMMA GoodStays ==
  ASSUME NEW line, Grows(line)
  PROVE  GoodSegments \subseteq GoodSegments'
<1>1. SUFFICES ASSUME NEW s \in GoodSegments  PROVE s \in GoodSegments'
  OBVIOUS
<1>2. s \in Segment /\ s.text \in Texts(Home(s.section, s.page, s.page))
  BY DEF GoodSegments
<1>3. Home(s.section, s.page, s.page) \subseteq Home(s.section, s.page, s.page)'
  BY HomeGrows
<1>4. s.text \in Texts(Home(s.section, s.page, s.page)')
  BY <1>2, <1>3, TextsGrow
<1>5. Texts(Home(s.section, s.page, s.page)') = Texts(Home(s.section, s.page, s.page))'
  BY DEF Texts, TokensOf, Break, After
<1> QED  BY <1>2, <1>4, <1>5 DEF GoodSegments

(* A step that reads no line leaves every word where it is. *)
LEMMA SamePaths ==
  ASSUME doc' = doc, set' = set
  PROVE  /\ \A k : Above(k)' = Above(k) /\ TitleFrom(k)' = TitleFrom(k) /\ PathOf(k)' = PathOf(k)
         /\ \A section, from, to : Home(section, from, to)' = Home(section, from, to)
<1>1. (\A k : Continues(k)' <=> Continues(k)) /\ Headings' = Headings
  BY DEF Continues, Headings
<1>2. \A k : Above(k)' = Above(k)
  BY <1>1 DEF Above
<1>3. \A k : TitleFrom(k)' = TitleFrom(k)
  BY <1>1 DEF TitleFrom
<1>4. \A k : PathOf(k)' = PathOf(k)
  <2> SUFFICES ASSUME NEW k  PROVE PathOf(k)' = PathOf(k)
    OBVIOUS
  <2>1. PICK f : f = Ascending(Above(k))
    OBVIOUS
  <2>2. Ascending(Above(k)') = f
    BY <1>2, <2>1
  <2>3. [i \in DOMAIN f |-> TitleFrom(f[i])'] = [i \in DOMAIN f |-> TitleFrom(f[i])]
    BY <1>3
  <2> QED  BY <2>1, <2>2, <2>3 DEF PathOf
<1>5. \A section, from, to : Home(section, from, to)' = Home(section, from, to)
  BY <1>4 DEF Home
<1> QED  BY <1>2, <1>3, <1>4, <1>5

LEMMA SameHomes ==
  ASSUME doc' = doc, set' = set
  PROVE  /\ GoodSegments' = GoodSegments /\ GoodChunks' = GoodChunks
         /\ StackInv => (stack' = stack => StackInv')
<1>1. GoodSegments' = GoodSegments
  BY SamePaths DEF GoodSegments
<1>2. GoodChunks' = GoodChunks
  BY SamePaths DEF GoodChunks, Prefix, breadcrumb
<1>3. ASSUME StackInv, stack' = stack  PROVE StackInv'
  <2>1. PICK k : k = Len(doc) + 1
    OBVIOUS
  <2>2. PICK f : f = Ascending(Above(k))
    OBVIOUS
  <2>3. Ascending(Above(k)') = f
    BY <2>2, SamePaths
  <2>4. \A h : Open(h)' = Open(h)
    BY SamePaths DEF Open
  <2>5. [i \in DOMAIN f |-> Open(f[i])'] = [i \in DOMAIN f |-> Open(f[i])]
    BY <2>4
  <2> QED  BY <1>3, <2>1, <2>2, <2>3, <2>5 DEF StackInv
<1> QED  BY <1>1, <1>2, <1>3

(***************************************************************************)
(* The steps of the loaders.                                               *)
(***************************************************************************)
LEMMA AppendPaged ==
  ASSUME NEW segs \in Seq(GoodSegments), Paged(segs), NEW s \in GoodSegments,
         \A i \in DOMAIN segs : segs[i].page <= s.page
  PROVE  Paged(Append(segs, s))
<1>1. PICK n \in Nat : n = Len(segs)
  BY LenProperties
<1>2. PICK all : all = Append(segs, s)
  OBVIOUS
<1>3. /\ all \in Seq(GoodSegments) /\ Len(all) = n + 1 /\ all[n + 1] = s
      /\ \A i \in 1..n : all[i] = segs[i]
  BY <1>1, <1>2, AppendProperties
<1>4. DOMAIN all = 1..(n + 1) /\ DOMAIN segs = 1..n
  BY <1>1, <1>3, LenProperties
<1>5. SUFFICES ASSUME NEW i \in 1..(n + 1), NEW j \in 1..(n + 1), i < j
               PROVE  all[i].page <= all[j].page
  BY <1>2, <1>4 DEF Paged
<1>6. i \in 1..n
  BY <1>5
<1>7. CASE j = n + 1
  BY <1>3, <1>4, <1>6, <1>7
<1>8. CASE j # n + 1
  <2>1. j \in 1..n
    BY <1>8
  <2>2. segs[i].page <= segs[j].page
    BY <1>4, <1>5, <1>6, <2>1 DEF Paged
  <2> QED  BY <1>3, <1>6, <2>1, <2>2
<1> QED  BY <1>7, <1>8

LEMMA FlushGood ==
  ASSUME ShapeInv, LoadInv, flush
  PROVE  /\ buffer' = <<>> /\ segments' \in Seq(GoodSegments) /\ Paged(segments')
         /\ \A i \in DOMAIN segments' : segments'[i].page <= page
<1>1. /\ doc \in Seq(Lines) /\ StackInv /\ buffer \in Texts(Here) /\ page \in Nat
      /\ segments \in Seq(GoodSegments) /\ Paged(segments)
      /\ \A i \in DOMAIN segments : segments[i].page <= page
  BY PassagesAssumption DEF ShapeInv, LoadInv
<1>2. buffer' = <<>>
  BY DEF flush
<1>3. CASE segments' = segments
  BY <1>1, <1>2, <1>3
<1>4. CASE segments' # segments
  <2>1. PICK s : s = [text |-> Followed(buffer, ""), page |-> page, section |-> Section(stack)]
    OBVIOUS
  <2>2. segments' = Append(segments, s)
    BY <1>4, <2>1 DEF flush
  <2>3. s \in GoodSegments
    <3>1. Section(stack) \in Path
      BY <1>1, SectionTyped
    <3>2. Here \subseteq Home(Section(stack), page, page)
      <4>1. SUFFICES ASSUME NEW w \in Here  PROVE w \in Home(Section(stack), page, page)
        OBVIOUS
      <4>2. /\ w \in Nat \X Nat /\ w[1] \in DOMAIN doc /\ doc[w[1]].kind # "heading"
            /\ PathOf(w[1]) = Section(stack) /\ doc[w[1]].page = page
        BY DEF Here
      <4>3. IsPrefix(Section(stack), PathOf(w[1]))
        BY <3>1, <4>2, PrefixSelf DEF Path
      <4>4. page \in page..larger(page, page)
        BY <1>1 DEF larger
      <4> QED  BY <4>2, <4>3, <4>4 DEF Home
    <3>3. Followed(buffer, "") \in Texts(Here)
      BY <1>1, FollowedText DEF After
    <3>4. Followed(buffer, "") \in Texts(Home(Section(stack), page, page))
      BY <3>2, <3>3, TextsGrow
    <3>5. Followed(buffer, "") \in Text
      BY <3>3, TextIsText
    <3> QED  BY <1>1, <2>1, <3>1, <3>4, <3>5 DEF GoodSegments, Segment
  <2>4. PICK n \in Nat : n = Len(segments)
    BY <1>1, LenProperties
  <2>5. /\ segments' \in Seq(GoodSegments) /\ Len(segments') = n + 1 /\ segments'[n + 1] = s
        /\ \A i \in 1..n : segments'[i] = segments[i]
    BY <1>1, <2>2, <2>3, <2>4, AppendProperties
  <2>6. DOMAIN segments' = 1..(n + 1) /\ DOMAIN segments = 1..n
    BY <1>1, <2>4, <2>5, LenProperties
  <2>7. s.page = page
    BY <2>1
  <2>8. \A i \in 1..(n + 1) : i \in 1..n \/ i = n + 1
    OBVIOUS
  <2>9. \A i \in DOMAIN segments' : segments'[i].page <= page
    BY <1>1, <2>5, <2>6, <2>7, <2>8
  <2>10. Paged(segments')
    BY <1>1, <2>2, <2>3, <2>7, AppendPaged, SMTT(30)
  <2> QED  BY <1>2, <2>5, <2>9, <2>10, ZenonT(30)
<1> QED  BY <1>3, <1>4

LEMMA HereGrows ==
  ASSUME NEW line, Grows(line), stack' = stack, page' = page, NEW text \in Texts(Here)
  PROVE  text \in Texts(Here')
<1>1. PICK n \in Nat : n = Len(doc)
  BY DocIs DEF Grows
<1>2. ASSUME NEW w \in Here  PROVE w \in Here'
  <2>1. /\ w \in Nat \X Nat /\ w[1] \in DOMAIN doc /\ doc[w[1]].kind # "heading"
        /\ PathOf(w[1]) = Section(stack) /\ doc[w[1]].page = page
    BY DEF Here
  <2>2. PICK k \in 1..n : k = w[1]
    BY <1>1, <2>1, GrownDoc
  <2>3. doc'[k] = doc[k] /\ k \in DOMAIN doc'
    BY <1>1, GrownDoc
  <2>4. PathOf(k)' = PathOf(k)
    BY <1>1, <2>1, <2>2, SamePath
  <2>5. Section(stack') = Section(stack)
    OBVIOUS
  <2> QED  BY <2>1, <2>2, <2>3, <2>4, <2>5 DEF Here
<1>3. Here \subseteq Here'
  BY <1>2
<1>4. PICK here : here = Here'
  OBVIOUS
<1>5. text \in Texts(here)
  BY <1>3, <1>4, TextsGrow
<1> QED  BY <1>4, <1>5

(* The tokens of a line that is read are of its words. *)
LEMMA NewTokens ==
  ASSUME NEW words, NEW shape \in Shape, NEW len \in Nat, len = Len(doc),
         \A k \in 1..Len(shape) : <<len + 1, k>> \in words
  PROVE  NewWords(shape) \in Texts(words)
<1> DEFINE token(k) == <<len + 1, k, shape[k][1], IF k = Len(shape) THEN "\n" ELSE shape[k][2]>>
<1>1. PICK n \in Nat : n = Len(shape) /\ DOMAIN shape = 1..n /\ \A k \in 1..n : shape[k] \in BOOLEAN \X After
  BY LenProperties, ElementOfSeq DEF Shape
<1>2. ASSUME NEW k \in 1..n  PROVE token(k) \in TokensOf(words)
  <2>1. PICK stop \in BOOLEAN, after \in After : shape[k] = <<stop, after>>
    BY <1>1
  <2>2. PICK last \in After : last = IF k = Len(shape) THEN "\n" ELSE after
    BY DEF After
  <2>3. token(k) = <<len + 1, k, stop, last>>
    BY <2>1, <2>2
  <2>4. <<len + 1, k, stop, last>> \in Nat \X Nat \X BOOLEAN \X After
    OBVIOUS
  <2>5. <<len + 1, k>> \in words
    BY <1>1
  <2>6. <<len + 1, k, stop, last>> \in TokensOf(words)
    BY <2>4, <2>5 DEF TokensOf
  <2> QED  BY <2>3, <2>6
<1>3. NewWords(shape) = [k \in 1..n |-> token(k)]
  BY <1>1 DEF NewWords
<1> HIDE DEF token
<1>4. NewWords(shape) \in [1..n -> TokensOf(words)]
  BY <1>2, <1>3
<1>5. NewWords(shape) \in Seq(TokensOf(words))
  BY <1>4, ListOf
<1> QED  BY <1>5, ZenonT(30) DEF Texts

(* The words of a line of text are where the stack and the page say. *)
LEMMA NewHere ==
  ASSUME StackInv, NEW line, Grows(line), line.kind = "text", line.page = page,
         stack' = stack, page' = page, NEW shape \in Shape
  PROVE  NewWords(shape) \in Texts(Here')
<1>1. PICK len \in Nat : len = Len(doc)
  BY DocIs DEF Grows
<1>2. PathOf(len + 1)' = Section(stack)
  BY <1>1, NextPath
<1>3. doc'[len + 1] = line /\ len + 1 \in DOMAIN doc'
  BY <1>1, GrownDoc
<1>4. PICK n \in Nat : n = Len(shape)
  BY LenProperties DEF Shape
<1>5. \A k \in 1..n : <<len + 1, k>> \in Here'
  <2> SUFFICES ASSUME NEW k \in 1..n  PROVE <<len + 1, k>> \in Here'
    OBVIOUS
  <2>1. <<len + 1, k>> \in Nat \X Nat /\ <<len + 1, k>>[1] = len + 1
    OBVIOUS
  <2>2. Section(stack') = Section(stack)
    OBVIOUS
  <2> QED  BY <1>2, <1>3, <2>1, <2>2 DEF Here
<1>6. PICK here : here = Here'
  OBVIOUS
<1>7. \A k \in 1..Len(shape) : <<len + 1, k>> \in here
  BY <1>4, <1>5, <1>6
<1>8. NewWords(shape) \in Texts(here)
  BY <1>1, <1>7, NewTokens
<1> QED  BY <1>6, <1>8, ZenonT(30)

(* Once a step has kept what a loading state keeps, nothing is left to show. *)
LEMMA Loading ==
  ASSUME ShapeInv', LoadInv', pc' = "load"
  PROVE  PassagesInv'
<1>1. /\ todo' = <<>> /\ pack' = <<>> /\ chunks' = <<>>
  BY DEF LoadInv
<1>2. todo' \in Seq(GoodSegments') /\ pack' \in Seq(GoodSegments') /\ chunks' \in Seq(GoodChunks')
  BY <1>1, EmptySeq
<1>3. Paged(pack') /\ Paged(todo') /\ PagesFollow(pack', todo')
  <2>1. DOMAIN <<>> = {}
    OBVIOUS
  <2> QED  BY <1>1, <2>1 DEF Paged, PagesFollow
<1>4. ChunkInv'
  BY <1>2, <1>3 DEF ChunkInv
<1> QED  BY <1>4 DEF PassagesInv

LEMMA GrowsBy ==
  ASSUME ShapeInv, NEW line \in Lines, Reads(line), set' = set
  PROVE  /\ Grows(line) /\ doc' \in Seq(Lines) /\ Len(doc') <= MaxLines
         /\ doc' # <<>> /\ Last(doc') = line /\ pc = "load"
<1>0. doc \in Seq(Lines)
  BY DEF ShapeInv
<1>1. Grows(line) /\ pc = "load" /\ Len(doc) < MaxLines
  BY <1>0, ZenonT(30) DEF Reads, Grows
<1>2. PICK n \in Nat : n = Len(doc)
  BY DocIs DEF ShapeInv
<1>3. Len(doc') = n + 1 /\ doc' \in Seq(Lines) /\ doc'[n + 1] = line
  BY <1>1, <1>2, GrownDoc
<1>4. n + 1 <= MaxLines
  BY <1>1, <1>2, PassagesAssumption
<1>5. doc' # <<>> /\ Last(doc') = line
  BY <1>3 DEF Last
<1> QED  BY <1>1, <1>3, <1>4, <1>5

LEMMA LineIs ==
  ASSUME ShapeInv, NEW kind \in LineKinds, NEW level \in Nat, NEW shape \in Shape
  PROVE  /\ Line(kind, level, shape) \in Lines /\ Line(kind, level, shape).kind = kind
         /\ Line(kind, level, shape).page = page /\ Line(kind, level, shape).level = level
<1>1. page \in Nat
  BY PassagesAssumption DEF ShapeInv
<1> QED  BY <1>1 DEF Line, Lines

(* A line that is no heading leaves the stack, and is of the section or is lost. *)
LEMMA LineRead ==
  ASSUME ShapeInv, pc = "load", LoadInv, NEW line \in Lines, line.kind \in {"text", "lost"},
         line.page = page, Reads(line), buffer' \in Texts(Here'), wrapped' = 0,
         UNCHANGED <<set, page, stack, segments, Chunker>>
  PROVE  PassagesInv'
<1>4. set' = set /\ page' = page /\ stack' = stack /\ segments' = segments
  OBVIOUS
<1>5. /\ Grows(line) /\ doc' \in Seq(Lines) /\ Len(doc') <= MaxLines
      /\ doc' # <<>> /\ Last(doc') = line
  <2>1. Reads(line) /\ set' = set
    BY <1>4
  <2> QED  BY <2>1, GrowsBy
<1>8. StackInv'
  <2>1. StackInv /\ line.kind # "heading"
    BY DEF LoadInv
  <2> QED  BY <1>4, <1>5, <2>1, StackStays
<1>9. WrapInv'
  <2>1. Last(doc').kind # "heading"
    BY <1>5
  <2> QED  BY <2>1 DEF WrapInv
<1>10. segments' \in Seq(GoodSegments') /\ Paged(segments')
       /\ \A i \in DOMAIN segments' : segments'[i].page <= page'
  <2>1. segments \in Seq(GoodSegments)
    BY DEF LoadInv
  <2>2. GoodSegments \subseteq GoodSegments'
    BY <1>5, GoodStays
  <2>3. segments \in Seq(GoodSegments')
    BY <2>1, <2>2, SeqMonotonic
  <2> QED  BY <1>4, <2>3 DEF LoadInv
<1>11. ShapeInv'
  BY <1>4, <1>5 DEF ShapeInv, Chunker
<1>12. LoadInv'
  <2>1. todo' = <<>> /\ pack' = <<>> /\ chunks' = <<>>
    BY DEF LoadInv, Chunker
  <2>2. Texts(Here') = Texts(Here)'
    BY DEF Texts, TokensOf, Break, After
  <2> QED  BY <1>8, <1>9, <1>10, <2>1, <2>2 DEF LoadInv
<1> QED  BY <1>11, <1>12, Loading DEF Chunker

LEMMA TextLine ==
  ASSUME ShapeInv, pc = "load", LoadInv, NEW shape \in Shapes, Reads(Line("text", 0, shape)),
         NEW gap \in {<<>>, <<Break>>}, buffer' = buffer \o gap \o NewWords(shape), wrapped' = 0,
         UNCHANGED <<set, page, stack, segments, Chunker>>
  PROVE  PassagesInv'
<1>1. shape \in Shape /\ 0 \in Nat /\ "text" \in LineKinds
  BY PassagesAssumption DEF Shape, LineKinds
<1>2. PICK line : line = Line("text", 0, shape)
  OBVIOUS
<1>3. line \in Lines /\ line.kind = "text" /\ line.page = page
  BY <1>1, <1>2, LineIs
<1>4. Reads(line) /\ set' = set /\ page' = page /\ stack' = stack /\ segments' = segments
  BY <1>2
<1>5. Grows(line)
  <2>1. Reads(line) /\ set' = set
    BY <1>4
  <2> QED  BY <1>3, <2>1, GrowsBy
<1>6. StackInv /\ buffer \in Texts(Here)
  BY DEF LoadInv
<1>7. buffer' \in Texts(Here')
  <2>1. buffer \in Texts(Here')
    BY <1>4, <1>5, <1>6, HereGrows
  <2>2. NewWords(shape) \in Texts(Here')
    BY <1>1, <1>3, <1>4, <1>5, <1>6, NewHere
  <2>3. gap \in Texts(Here')
    BY BreakIsToken, OneOf DEF Texts
  <2> QED  BY <2>1, <2>2, <2>3, ConcatProperties DEF Texts
<1> QED  BY <1>3, <1>4, <1>7, LineRead

LEMMA TextStep ==
  ASSUME ShapeInv, LoadInv, AnyText
  PROVE  PassagesInv'
<1>1. PICK shape \in Shapes : add_text(shape)
  BY DEF AnyText
<1>2. /\ Reads(Line("text", 0, shape)) /\ pc = "load" /\ wrapped' = 0
      /\ UNCHANGED <<set, page, stack, segments, Chunker>>
      /\ buffer' = buffer \o NewWords(shape)
  BY <1>1 DEF add_text, Reads
<1>3. buffer \o <<>> = buffer
  BY ConcatEmptySeq DEF LoadInv, Texts
<1> QED  BY <1>2, <1>3, TextLine

LEMMA LostStep ==
  ASSUME ShapeInv, LoadInv, PassOver
  PROVE  PassagesInv'
<1>1. PICK shape \in Shapes :
        /\ Reads(Line("lost", 0, shape)) /\ wrapped' = 0
        /\ UNCHANGED <<set, page, stack, buffer, segments, Chunker>>
  BY DEF PassOver
<1>2. shape \in Shape /\ 0 \in Nat /\ "lost" \in LineKinds
  BY PassagesAssumption DEF Shape, LineKinds
<1>3. PICK line : line = Line("lost", 0, shape)
  OBVIOUS
<1>4. line \in Lines /\ line.kind = "lost" /\ line.page = page
  BY <1>2, <1>3, LineIs
<1>5. /\ Reads(line) /\ set' = set /\ page' = page /\ stack' = stack /\ segments' = segments
      /\ buffer' = buffer /\ pc = "load"
  BY <1>1, <1>3 DEF Reads
<1>6. Grows(line)
  <2>1. Reads(line) /\ set' = set
    BY <1>5
  <2> QED  BY <1>4, <2>1, GrowsBy
<1>7. buffer' \in Texts(Here')
  BY <1>5, <1>6, HereGrows DEF LoadInv
<1> QED  BY <1>1, <1>4, <1>5, <1>7, LineRead

LEMMA TxtStep ==
  ASSUME ShapeInv, LoadInv, load_txt
  PROVE  PassagesInv'
<1>1. PICK shape \in Shapes : \E breaks \in BOOLEAN :
        /\ Reads(Line("text", 0, shape))
        /\ buffer' = buffer \o (IF breaks /\ buffer # <<>> THEN <<Break>> ELSE <<>>) \o NewWords(shape)
  BY DEF load_txt
<1>2. PICK breaks \in BOOLEAN :
        /\ Reads(Line("text", 0, shape))
        /\ buffer' = buffer \o (IF breaks /\ buffer # <<>> THEN <<Break>> ELSE <<>>) \o NewWords(shape)
  BY <1>1
<1>3. PICK gap : gap = IF breaks /\ buffer # <<>> THEN <<Break>> ELSE <<>>
  OBVIOUS
<1>4. gap \in {<<>>, <<Break>>} /\ buffer' = buffer \o gap \o NewWords(shape)
  BY <1>2, <1>3
<1>5. pc = "load" /\ UNCHANGED <<set, page, stack, segments, Chunker>> /\ wrapped' = wrapped
  BY <1>2 DEF load_txt, Reads
<1>6. wrapped' = 0
  BY <1>5 DEF load_txt, LoadInv, WrapInv
<1> QED  BY <1>2, <1>4, <1>5, <1>6, TextLine

(* What both ways to read a heading leave to be shown of a state. *)
LEMMA HeadingRead ==
  ASSUME ShapeInv, LoadInv, NEW line \in Lines, Reads(line), line.kind = "heading",
         line.level \in Levels, set.format \notin {"txt", "json", "xlsx"},
         set' = set, page' = page, pc' = pc, packTokens' = packTokens,
         todo' = todo, pack' = pack, chunks' = chunks,
         StackInv', buffer' = <<>>, wrapped' = line.level,
         segments' \in Seq(GoodSegments), Paged(segments'),
         \A i \in DOMAIN segments' : segments'[i].page <= page
  PROVE  PassagesInv'
<1>1. /\ Grows(line) /\ doc' \in Seq(Lines) /\ Len(doc') <= MaxLines
      /\ doc' # <<>> /\ Last(doc') = line /\ pc' = "load"
  BY GrowsBy
<1>2. WrapInv'
  BY <1>1 DEF WrapInv
<1>3. segments' \in Seq(GoodSegments')
  <2>1. GoodSegments \subseteq GoodSegments'
    BY <1>1, GoodStays
  <2> QED  BY <2>1, SeqMonotonic
<1>4. buffer' \in Texts(Here)'
  BY EmptySeq DEF Texts
<1>5. ShapeInv'
  BY <1>1 DEF ShapeInv
<1>6. LoadInv'
  BY <1>2, <1>3, <1>4 DEF LoadInv
<1> QED  BY <1>1, <1>5, <1>6, Loading

LEMMA HeadingLineIs ==
  ASSUME ShapeInv, NEW level \in Nat, NEW contents \in BOOLEAN
  PROVE  /\ HeadingLine(level, contents) \in Lines /\ HeadingLine(level, contents).kind = "heading"
         /\ HeadingLine(level, contents).level = level
<1>1. HeadingLine(level, contents) =
        [kind |-> "heading", level |-> level, contents |-> contents, shape |-> <<>>, page |-> page]
  BY DEF HeadingLine, Line
<1>2. page \in Nat /\ <<>> \in Shape
  BY PassagesAssumption, EmptySeq DEF ShapeInv, Shape
<1> QED  BY <1>1, <1>2 DEF Lines, LineKinds

LEMMA HeadingStep ==
  ASSUME ShapeInv, LoadInv, NEW level \in Levels, NEW contents \in BOOLEAN, heading(level, contents),
         set.format \notin {"txt", "json", "xlsx"}, set.format = "pdf" => wrapped # level
  PROVE  PassagesInv'
<1>1. level \in Nat
  BY PassagesAssumption
<1>2. PICK line : line = HeadingLine(level, contents)
  OBVIOUS
<1>3. line \in Lines /\ line.kind = "heading" /\ line.level = level
  BY <1>1, <1>2, HeadingLineIs
<1>4. /\ Reads(line) /\ flush /\ wrapped' = level
      /\ set' = set /\ page' = page /\ pc' = pc /\ packTokens' = packTokens
      /\ todo' = todo /\ pack' = pack /\ chunks' = chunks
      /\ stack' = Append(Under(level), [level |-> level, title |-> <<Len(doc) + 1>>])
  BY <1>2 DEF heading, Chunker
<1>20. Reads(line) /\ set' = set /\ line \in Lines
  BY <1>3, <1>4
<1>5. Grows(line) /\ StackInv /\ doc \in Seq(Lines)
  <2>1. Grows(line)
    BY <1>20, GrowsBy, ZenonT(30)
  <2> QED  BY <2>1 DEF LoadInv, ShapeInv
<1>6. PICK n \in Nat : n = Len(doc)
  BY <1>5, DocIs
<1>7. ~ Continues(n + 1)'
  <2> SUFFICES ASSUME Continues(n + 1)'  PROVE FALSE
    OBVIOUS
  <2>1. /\ set'.format = "pdf" /\ n + 1 > 1 /\ (n + 1) - 1 \in Headings'
        /\ doc'[n + 1].level = doc'[(n + 1) - 1].level
    BY DEF Continues
  <2>2. n \in 1..n /\ (n + 1) - 1 = n
    BY <2>1
  <2>3. n \in Headings /\ doc'[n] = doc[n] /\ doc'[n + 1] = line
    BY <1>5, <1>6, <2>1, <2>2, SameHeadings, GrownDoc
  <2>4. doc # <<>> /\ Last(doc).kind = "heading" /\ Last(doc).level = level
    <3>1. n # 0
      BY <2>2
    <3> QED  BY <1>3, <1>6, <2>1, <2>2, <2>3, <3>1 DEF Headings, Last
  <2>5. wrapped = level
    BY <2>4 DEF LoadInv, WrapInv
  <2> QED  BY <1>4, <2>1, <2>5
<1>8. StackInv'
  BY <1>3, <1>4, <1>5, <1>6, <1>7, StackPushes
<1>9. /\ buffer' = <<>> /\ segments' \in Seq(GoodSegments) /\ Paged(segments')
      /\ \A i \in DOMAIN segments' : segments'[i].page <= page
  BY <1>4, FlushGood
<1> QED  BY <1>3, <1>4, <1>8, <1>9, HeadingRead

LEMMA ExtendStep ==
  ASSUME ShapeInv, LoadInv, NEW level \in Levels, NEW contents \in BOOLEAN, extend_heading(level, contents),
         set.format = "pdf", wrapped = level
  PROVE  PassagesInv'
<1>1. level \in Nat /\ level # 0
  BY PassagesAssumption
<1>2. PICK line : line = HeadingLine(level, contents)
  OBVIOUS
<1>3. line \in Lines /\ line.kind = "heading" /\ line.level = level
  BY <1>1, <1>2, HeadingLineIs
<1>4. /\ Reads(line) /\ wrapped' = wrapped /\ buffer' = buffer /\ segments' = segments
      /\ set' = set /\ page' = page /\ pc' = pc /\ packTokens' = packTokens
      /\ todo' = todo /\ pack' = pack /\ chunks' = chunks
      /\ stack' = [stack EXCEPT ![Len(stack)].title = Append(@, Len(doc) + 1)]
  BY <1>2 DEF extend_heading, Chunker
<1>20. Reads(line) /\ set' = set /\ line \in Lines
  BY <1>3, <1>4
<1>5. Grows(line) /\ StackInv /\ doc \in Seq(Lines)
  <2>1. Grows(line)
    BY <1>20, GrowsBy, ZenonT(30)
  <2> QED  BY <2>1 DEF LoadInv, ShapeInv
<1>6. PICK n \in Nat : n = Len(doc)
  BY <1>5, DocIs
<1>7. doc # <<>> /\ Last(doc).kind = "heading" /\ buffer = <<>> /\ Last(doc).level = level
  BY <1>1 DEF LoadInv, WrapInv
<1>8. n # 0 /\ n \in 1..n
  BY <1>5, <1>6, <1>7
<1>9. Continues(n + 1)'
  <2>1. doc'[n] = doc[n] /\ doc'[n + 1] = line
    BY <1>5, <1>6, <1>8, GrownDoc
  <2>2. n \in Headings' /\ n + 1 \in Headings'
    <3>1. n \in Headings
      BY <1>5, <1>6, <1>7, <1>8, DocIs DEF Headings, Last
    <3> QED  BY <1>3, <1>5, <1>6, <1>8, <3>1, SameHeadings
  <2>3. doc'[n + 1].level = doc'[n].level
    BY <1>3, <1>6, <1>7, <2>1 DEF Last
  <2>4. (n + 1) - 1 = n /\ n + 1 > 1
    BY <1>8
  <2> QED  BY <1>4, <2>2, <2>3, <2>4 DEF Continues
<1>10. StackInv'
  BY <1>4, <1>5, <1>6, <1>9, StackExtends
<1>11. /\ segments \in Seq(GoodSegments) /\ Paged(segments)
       /\ \A i \in DOMAIN segments : segments[i].page <= page
  BY DEF LoadInv
<1>12. buffer' = <<>> /\ wrapped' = line.level /\ line.level \in Levels
  BY <1>3, <1>4, <1>7
<1>13. set.format \notin {"txt", "json", "xlsx"}
  OBVIOUS
<1> QED  BY <1>3, <1>4, <1>10, <1>11, <1>12, <1>13, HeadingRead

LEMMA PageStep ==
  ASSUME ShapeInv, LoadInv, set.format = "pdf", TurnPage
  PROVE  PassagesInv'
<1>1. /\ flush /\ page < MaxPages /\ page' = page + 1
      /\ doc' = doc /\ set' = set /\ stack' = stack /\ wrapped' = wrapped /\ pc' = pc
      /\ packTokens' = packTokens /\ todo' = todo /\ pack' = pack /\ chunks' = chunks
  BY DEF TurnPage, Chunker
<1>2. page \in Nat /\ page' \in 0..MaxPages
  BY <1>1, PassagesAssumption DEF ShapeInv
<1>3. /\ buffer' = <<>> /\ segments' \in Seq(GoodSegments) /\ Paged(segments')
      /\ \A i \in DOMAIN segments' : segments'[i].page <= page
  BY <1>1, FlushGood
<1>4. /\ segments' \in Seq(GoodSegments') /\ StackInv'
      /\ \A i \in DOMAIN segments' : segments'[i].page <= page'
  <2>1. GoodSegments' = GoodSegments /\ StackInv'
    BY <1>1, SameHomes DEF LoadInv
  <2>2. PICK n \in Nat : n = Len(segments')
    BY <1>3, LenProperties
  <2>3. DOMAIN segments' = 1..n /\ \A i \in 1..n : segments'[i] \in GoodSegments
    BY <1>3, <2>2, LenProperties
  <2>4. \A i \in 1..n : segments'[i].page \in Nat
    BY <2>3 DEF GoodSegments, Segment
  <2>5. \A i \in 1..n : segments'[i].page <= page'
    BY <1>1, <1>2, <1>3, <2>3, <2>4
  <2> QED  BY <1>3, <2>1, <2>3, <2>5
<1>5. WrapInv'
  BY <1>1, <1>3 DEF WrapInv, LoadInv
<1>6. buffer' \in Texts(Here)'
  BY <1>3, EmptySeq DEF Texts
<1>7. ShapeInv'
  BY <1>1, <1>2 DEF ShapeInv
<1>8. LoadInv'
  BY <1>1, <1>3, <1>4, <1>5, <1>6 DEF LoadInv
<1>9. pc' = "load"
  BY <1>1 DEF TurnPage
<1> QED  BY <1>7, <1>8, <1>9, Loading

LEMMA ItemStep ==
  ASSUME ShapeInv, LoadInv, set.format \in {"json", "xlsx"}, LoadItem
  PROVE  PassagesInv'
<1>1. PICK shape \in Shapes :
        /\ Reads(Line("item", 0, shape))
        /\ segments' = Append(segments, [text |-> Followed(NewWords(shape), ""), page |-> 0,
                                         section |-> <<<<Len(doc) + 1>>>>])
        /\ UNCHANGED <<set, page, stack, buffer, wrapped, Chunker>>
  BY DEF LoadItem
<1>2. shape \in Shape /\ 0 \in Nat /\ "item" \in LineKinds
  BY PassagesAssumption DEF Shape, LineKinds
<1>28. PICK n \in Nat : n = Len(shape)
  BY <1>2, LenProperties DEF Shape
<1>3. PICK line : line = Line("item", 0, shape)
  OBVIOUS
<1>4. line \in Lines /\ line.kind = "item" /\ line.page = page
  BY <1>2, <1>3, LineIs
<1>5. /\ Reads(line) /\ wrapped' = wrapped /\ buffer' = buffer
      /\ set' = set /\ page' = page /\ pc' = pc /\ packTokens' = packTokens
      /\ todo' = todo /\ pack' = pack /\ chunks' = chunks /\ stack' = stack
  BY <1>1, <1>3 DEF Chunker
<1>27. Reads(line) /\ set' = set /\ line \in Lines
  BY <1>4, <1>5
<1>6. /\ Grows(line) /\ doc' \in Seq(Lines) /\ Len(doc') <= MaxLines
      /\ doc' # <<>> /\ Last(doc') = line
  BY <1>27, GrowsBy, ZenonT(30)
<1>7. PICK len \in Nat : len = Len(doc)
  BY DocIs DEF ShapeInv
<1>8. PICK s : s = [text |-> Followed(NewWords(shape), ""), page |-> 0, section |-> <<<<len + 1>>>>]
  OBVIOUS
<1>9. segments' = Append(segments, s)
  BY <1>1, <1>7, <1>8
<1>10. PICK words : words = Home(<<<<len + 1>>>>, 0, 0)'
  OBVIOUS
<1>11. <<<<len + 1>>>> \in Path
  <2>1. <<len + 1>> \in Seq(Nat)
    BY OneOf
  <2> QED  BY <2>1, OneOf DEF Path
<1>12. \A k \in 1..n : <<len + 1, k>> \in words
  <2> SUFFICES ASSUME NEW k \in 1..n  PROVE <<len + 1, k>> \in words
    OBVIOUS
  <2>1. len + 1 \in DOMAIN doc' /\ doc'[len + 1] = line
    BY <1>6, <1>7, GrownDoc
  <2>2. PathOf(len + 1)' = <<<<len + 1>>>>
    BY <1>4, <2>1 DEF PathOf
  <2>3. IsPrefix(<<<<len + 1>>>>, PathOf(len + 1)')
    BY <1>11, <2>2, PrefixSelf DEF Path
  <2>4. <<len + 1, k>> \in Nat \X Nat /\ <<len + 1, k>>[1] = len + 1
    OBVIOUS
  <2>5. PICK w : w = <<len + 1, k>>
    OBVIOUS
  <2>6. w \in Nat \X Nat /\ w[1] = len + 1
    BY <2>4, <2>5
  <2>7. w \in Home(<<<<len + 1>>>>, 0, 0)'
    BY <1>4, <2>1, <2>3, <2>6 DEF Home
  <2> QED  BY <1>10, <2>5, <2>7
<1>13. NewWords(shape) \in Texts(words)
  BY <1>2, <1>7, <1>12, <1>28, NewTokens
<1>14. s \in GoodSegments'
  <2>1. Followed(NewWords(shape), "") \in Texts(words)
    BY <1>13, FollowedText DEF After
  <2>2. Followed(NewWords(shape), "") \in Text
    BY <2>1, TextIsText
  <2>3. s \in Segment
    BY <1>8, <1>11, <2>2 DEF Segment
  <2>4. words = Home(s.section, s.page, s.page)'
    BY <1>8, <1>10
  <2>5. s.text \in Texts(Home(s.section, s.page, s.page)')
    BY <1>8, <2>1, <2>4
  <2> QED  BY <2>3, <2>5 DEF GoodSegments, Texts, TokensOf, Break, After
<1>15. segments \in Seq(GoodSegments')
  <2>1. GoodSegments \subseteq GoodSegments'
    BY <1>6, GoodStays
  <2> QED  BY <2>1, SeqMonotonic DEF LoadInv
<1>16. PICK m \in Nat : m = Len(segments)
  BY <1>15, LenProperties
<1>17. /\ segments' \in Seq(GoodSegments') /\ Len(segments') = m + 1 /\ segments'[m + 1] = s
       /\ \A i \in 1..m : segments'[i] = segments[i]
  BY <1>9, <1>14, <1>15, <1>16, AppendProperties
<1>18. DOMAIN segments' = 1..(m + 1) /\ DOMAIN segments = 1..m
  BY <1>15, <1>16, <1>17, LenProperties
<1>19. \A i \in 1..(m + 1) : segments'[i].page = 0
  <2>1. page = 0
    BY DEF ShapeInv
  <2>2. \A i \in 1..m : segments[i].page \in Nat /\ segments[i].page <= 0
    <3>1. \A i \in 1..m : segments[i] \in GoodSegments'
      BY <1>15, <1>16, ElementOfSeq
    <3>2. \A i \in 1..m : segments[i].page \in Nat
      BY <3>1 DEF GoodSegments, Segment
    <3> QED  BY <1>18, <2>1, <3>2 DEF LoadInv
  <2>3. \A i \in 1..m : segments[i].page = 0
    BY <2>2
  <2>4. s.page = 0
    BY <1>8
  <2>5. \A i \in 1..(m + 1) : i \in 1..m \/ i = m + 1
    OBVIOUS
  <2> QED  BY <1>17, <2>3, <2>4, <2>5
<1>20. Paged(segments') /\ \A i \in DOMAIN segments' : segments'[i].page <= page'
  BY <1>5, <1>18, <1>19 DEF Paged, ShapeInv
<1>21. StackInv'
  BY <1>4, <1>5, <1>6, StackStays DEF LoadInv
<1>22. WrapInv'
  BY <1>4, <1>5, <1>6 DEF LoadInv, WrapInv
<1>23. buffer' \in Texts(Here')
  BY <1>5, <1>6, HereGrows DEF LoadInv
<1>24. ShapeInv'
  BY <1>5, <1>6 DEF ShapeInv
<1>25. LoadInv'
  <2>1. Texts(Here') = Texts(Here)'
    BY DEF Texts, TokensOf, Break, After
  <2> QED  BY <1>5, <1>17, <1>20, <1>21, <1>22, <1>23, <2>1 DEF LoadInv
<1>26. pc' = "load"
  BY <1>5 DEF Reads
<1> QED  BY <1>24, <1>25, <1>26, Loading

LEMMA LoadStep ==
  ASSUME ShapeInv, LoadInv,
         load_md \/ load_docx \/ html_walk \/ load_pdf \/ load_txt \/ load_json \/ load_xlsx
  PROVE  PassagesInv'
<1>1. CASE load_txt
  BY <1>1, TxtStep
<1>2. CASE load_json \/ load_xlsx
  BY <1>2, ItemStep DEF load_json, load_xlsx
<1>3. CASE load_pdf
  <2>1. set.format = "pdf"
    BY <1>3 DEF load_pdf
  <2>2. CASE TurnPage
    BY <2>1, <2>2, PageStep
  <2>3. CASE AnyText
    BY <2>3, TextStep
  <2>4. CASE \E level \in Levels, contents \in BOOLEAN : wrapped = level /\ extend_heading(level, contents)
    BY <2>1, <2>4, ExtendStep
  <2>5. CASE \E level \in Levels, contents \in BOOLEAN : wrapped # level /\ heading(level, contents)
    BY <2>1, <2>5, HeadingStep
  <2> QED  BY <1>3, <2>2, <2>3, <2>4, <2>5 DEF load_pdf
<1>4. CASE load_md \/ load_docx \/ html_walk
  <2>1. set.format \in {"md", "docx", "html"}
    BY <1>4 DEF load_md, load_docx, html_walk
  <2>2. CASE AnyText
    BY <2>2, TextStep
  <2>3. CASE AnyHeading
    BY <2>1, <2>3, HeadingStep DEF AnyHeading
  <2>4. CASE PassOver
    BY <2>4, LostStep
  <2> QED  BY <1>4, <2>2, <2>3, <2>4 DEF load_md, load_docx, html_walk
<1> QED  BY <1>1, <1>2, <1>3, <1>4

(***************************************************************************)
(* The chunker.                                                            *)
(***************************************************************************)
LEMMA SettingsAre ==
  ASSUME ShapeInv
  PROVE  /\ set.chunk \in Nat /\ set.overlap \in Nat /\ set.name \in Nat
         /\ set.chunk \div 2 \in Nat
<1>1. /\ set.chunk \in Nat /\ set.overlap \in Nat /\ set.name \in Nat
  BY PassagesAssumption DEF ShapeInv
<1>2. \A c \in Nat : c \div 2 \in Nat
  OBVIOUS
<1> QED  BY <1>1, <1>2

(* A breadcrumb and what there is room for beside it. *)
LEMMA Room ==
  ASSUME ShapeInv, NEW section \in Path
  PROVE  /\ Prefix(section) \in Nat /\ budget_for(section) \in Nat
         /\ Prefix(section) + budget_for(section) = larger(set.chunk, Prefix(section) + set.chunk \div 2)
<1>1. Length(section) \in Nat
  BY LengthIsNumber DEF Path
<1>2. PICK name \in Nat : name = set.name
  BY SettingsAre
<1>3. PICK chunk \in Nat : chunk = set.chunk
  BY SettingsAre
<1>4. PICK half \in Nat : half = set.chunk \div 2
  BY SettingsAre
<1>5. Prefix(section) \in Nat
  BY <1>1, <1>2 DEF Prefix, breadcrumb
<1>6. PICK p \in Nat : p = Prefix(section)
  BY <1>5
<1>7. budget_for(section) = larger(chunk - p, half)
  BY <1>3, <1>4, <1>6 DEF budget_for
<1>8. larger(chunk - p, half) \in Nat /\ p + larger(chunk - p, half) = larger(chunk, p + half)
  BY DEF larger
<1> QED  BY <1>3, <1>4, <1>6, <1>7, <1>8

LEMMA BodiesFit ==
  ASSUME ShapeInv, NEW words, NEW body \in Texts(words), NEW section \in Path
  PROVE  Bodies(body, section) \in Seq(Fitting(words, budget_for(section)))
<1>1. PICK room \in Nat : room = budget_for(section)
  BY Room
<1>2. CASE body = <<>>
  BY <1>2, EmptySeq DEF Bodies
<1>3. CASE body # <<>> /\ Prefix(section) + Len(body) <= set.chunk
  <2>1. PICK n \in Nat : n = Len(body)
    BY LenProperties DEF Texts
  <2>2. PICK p \in Nat : p = Prefix(section)
    BY Room
  <2>3. PICK chunk \in Nat : chunk = set.chunk
    BY SettingsAre
  <2>4. PICK half \in Nat : half = set.chunk \div 2
    BY SettingsAre
  <2>5. n <= larger(chunk - p, half)
    BY <1>3, <2>1, <2>2, <2>3 DEF larger
  <2>6. n <= budget_for(section)
    BY <2>2, <2>3, <2>4, <2>5 DEF budget_for
  <2>7. body \in Fitting(words, budget_for(section))
    BY <2>1, <2>6 DEF Fitting
  <2>8. Bodies(body, section) = <<body>>
    BY <1>3 DEF Bodies
  <2> QED  BY <2>7, <2>8, OneOf
<1>4. CASE body # <<>> /\ ~ (Prefix(section) + Len(body) <= set.chunk)
  <2>1. Bodies(body, section) = split_text(body, room, set.overlap, set.skew)
    BY <1>1, <1>4 DEF Bodies
  <2>2. set.overlap \in Nat
    BY SettingsAre
  <2>3. split_text(body, room, set.overlap, set.skew) \in Seq(Fitting(words, room))
    BY <1>1, <2>2, SplitFits
  <2> QED  BY <1>1, <2>1, <2>3
<1> QED  BY <1>2, <1>3, <1>4

\* The end page a chunk of these pages is given.
Ends(from, to) == IF to = from THEN 0 ELSE to

LEMMA EmitGood ==
  ASSUME ShapeInv, NEW section \in Path, NEW from \in Nat, NEW to \in Nat,
         NEW text \in Texts(Home(section, from, Ends(from, to)))
  PROVE  emit(text, section, from, to) \in Seq(GoodChunks)
<1>1. PICK words : words = Home(section, from, Ends(from, to))
  OBVIOUS
<1>2. PICK room \in Nat : room = budget_for(section)
  BY Room
<1>3. PICK bodies : bodies = Bodies(strip(text), section)
  OBVIOUS
<1>4. bodies \in Seq(Fitting(words, room))
  <2>1. strip(text) \in Texts(words)
    BY <1>1, StripText
  <2> QED  BY <1>2, <1>3, <2>1, BodiesFit
<1>5. PICK n \in Nat : n = Len(bodies)
  BY <1>4, LenProperties
<1>6. DOMAIN bodies = 1..n /\ \A i \in 1..n : bodies[i] \in Fitting(words, room)
  BY <1>4, <1>5, LenProperties
<1>7. ASSUME NEW body \in Fitting(words, room)  PROVE appended(body, section, from, to) \in GoodChunks
  <2>1. body \in Texts(words) /\ Len(body) <= room
    BY DEF Fitting
  <2>2. PICK len \in Nat : len = Len(body)
    BY <2>1, LenProperties DEF Texts
  <2>3. PICK p \in Nat : p = Prefix(section)
    BY Room
  <2>4. PICK most : most = larger(set.chunk, p + set.chunk \div 2)
    OBVIOUS
  <2>5. p + room = most
    BY <1>2, <2>3, <2>4, Room
  <2>6. p + len \in Nat /\ p + len <= most
    BY <2>1, <2>2, <2>5
  <2>7. Ends(from, to) \in Nat
    BY DEF Ends
  <2>8. PICK c : c = appended(body, section, from, to)
    OBVIOUS
  <2>9. c = [text |-> body, tokens |-> p + len, section |-> section, page |-> from, pageEnd |-> Ends(from, to)]
    BY <2>2, <2>3, <2>8 DEF appended, Ends
  <2>10. body \in Text
    BY <2>1, TextIsText
  <2>11. c \in Chunk
    BY <2>6, <2>7, <2>9, <2>10 DEF Chunk
  <2>12. c.text = body /\ c.section = section /\ c.page = from /\ c.pageEnd = Ends(from, to) /\ c.tokens = p + len
    BY <2>9
  <2>13. c.text \in Texts(Home(c.section, c.page, c.pageEnd))
    BY <1>1, <2>1, <2>12
  <2>14. c.tokens <= larger(set.chunk, Prefix(c.section) + set.chunk \div 2)
    BY <2>3, <2>4, <2>6, <2>12
  <2> QED  BY <2>8, <2>11, <2>13, <2>14 DEF GoodChunks
<1>8. emit(text, section, from, to) = [i \in 1..n |-> appended(bodies[i], section, from, to)]
  BY <1>3, <1>6 DEF emit
<1>9. [i \in 1..n |-> appended(bodies[i], section, from, to)] \in [1..n -> GoodChunks]
  BY <1>6, <1>7
<1> QED  BY <1>8, <1>9, SeqDef

LEMMA PiecesGood ==
  ASSUME ShapeInv, NEW s \in GoodSegments
  PROVE  Sized(s) \in Seq({t \in GoodSegments : t.page = s.page})
<1>1. /\ s \in Segment /\ s.text \in Texts(Home(s.section, s.page, s.page))
  BY DEF GoodSegments
<1>2. s.section \in Path /\ s.page \in Nat
  BY <1>1 DEF Segment
<1>3. PICK words : words = Home(s.section, s.page, s.page)
  OBVIOUS
<1>4. PICK pieces : pieces = PiecesOf(s)
  OBVIOUS
<1>5. pieces \in Seq(Texts(words))
  <2>1. CASE Len(s.text) <= budget_for(s.section)
    BY <1>1, <1>3, <1>4, <2>1, OneOf DEF PiecesOf
  <2>2. CASE ~ (Len(s.text) <= budget_for(s.section))
    <3>1. PICK room \in Nat : room = budget_for(s.section)
      BY <1>2, Room
    <3>2. set.overlap \in Nat
      BY SettingsAre
    <3>3. pieces = split_text(s.text, room, set.overlap, set.skew)
      BY <1>4, <2>2, <3>1 DEF PiecesOf
    <3>4. pieces \in Seq(Fitting(words, room))
      BY <1>1, <1>3, <3>1, <3>2, <3>3, SplitFits
    <3> QED  BY <3>4, FittingTexts
  <2> QED  BY <2>1, <2>2
<1>6. PICK n \in Nat : n = Len(pieces)
  BY <1>5, LenProperties
<1>7. DOMAIN pieces = 1..n /\ \A i \in 1..n : pieces[i] \in Texts(words)
  BY <1>5, <1>6, LenProperties
<1>8. ASSUME NEW text \in Texts(words)
      PROVE  [s EXCEPT !.text = text] \in {t \in GoodSegments : t.page = s.page}
  <2>1. PICK t : t = [s EXCEPT !.text = text]
    OBVIOUS
  <2>2. text \in Text
    BY TextIsText
  <2>3. t \in Segment /\ t.text = text /\ t.page = s.page /\ t.section = s.section
    BY <1>1, <2>1, <2>2 DEF Segment
  <2>4. t.text \in Texts(Home(t.section, t.page, t.page))
    BY <1>3, <2>3
  <2> QED  BY <2>1, <2>3, <2>4 DEF GoodSegments
<1>9. Sized(s) = [i \in 1..n |-> [s EXCEPT !.text = pieces[i]]]
  BY <1>4, <1>7 DEF Sized
<1>10. [i \in 1..n |-> [s EXCEPT !.text = pieces[i]]] \in [1..n -> {t \in GoodSegments : t.page = s.page}]
  BY <1>7, <1>8
<1> QED  BY <1>9, <1>10, SeqDef

LEMMA GoodPages ==
  ASSUME NEW segs \in Seq(GoodSegments), NEW i \in DOMAIN segs
  PROVE  segs[i] \in GoodSegments /\ segs[i].page \in Nat /\ segs[i].section \in Path
<1>1. segs[i] \in GoodSegments
  BY LenProperties
<1> QED  BY <1>1 DEF GoodSegments, Segment

LEMMA ConcatPaged ==
  ASSUME NEW segs \in Seq(GoodSegments), NEW more \in Seq(GoodSegments),
         Paged(segs), Paged(more), PagesFollow(segs, more)
  PROVE  Paged(segs \o more)
<1>1. PICK m \in Nat : m = Len(segs)
  BY LenProperties
<1>2. PICK n \in Nat : n = Len(more)
  BY LenProperties
<1>3. PICK all : all = segs \o more
  OBVIOUS
<1>4. /\ all \in Seq(GoodSegments) /\ Len(all) = m + n
      /\ \A i \in 1..(m + n) : all[i] = IF i <= m THEN segs[i] ELSE more[i - m]
  BY <1>1, <1>2, <1>3, ConcatProperties
<1>5. DOMAIN all = 1..(m + n) /\ DOMAIN segs = 1..m /\ DOMAIN more = 1..n
  BY <1>1, <1>2, <1>4, LenProperties
<1> SUFFICES ASSUME NEW i \in 1..(m + n), NEW j \in 1..(m + n), i < j
             PROVE  all[i].page <= all[j].page
  BY <1>3, <1>5 DEF Paged
<1>6. CASE j <= m
  <2>1. i \in 1..m /\ j \in 1..m /\ i <= m
    BY <1>6
  <2>2. segs[i].page <= segs[j].page
    BY <1>5, <2>1 DEF Paged
  <2> QED  BY <1>4, <1>6, <2>1, <2>2
<1>7. CASE i <= m /\ ~ (j <= m)
  <2>1. i \in 1..m /\ j - m \in 1..n
    BY <1>7
  <2>2. segs[i].page <= more[j - m].page
    BY <1>5, <2>1 DEF PagesFollow
  <2> QED  BY <1>4, <1>7, <2>2
<1>8. CASE ~ (i <= m) /\ ~ (j <= m)
  <2>1. i - m \in 1..n /\ j - m \in 1..n /\ i - m < j - m
    BY <1>8
  <2>2. more[i - m].page <= more[j - m].page
    BY <1>5, <2>1 DEF Paged
  <2> QED  BY <1>4, <1>8, <2>2
<1>9. i <= m \/ ~ (j <= m)
  OBVIOUS
<1> QED  BY <1>6, <1>7, <1>8, <1>9

(* Segments that are of a page of their own stay in the order of the pages. *)
LEMMA SizedPaged ==
  ASSUME ShapeInv, NEW segs \in Seq(GoodSegments), Paged(segs)
  PROVE  sized_segments(segs) \in Seq(GoodSegments) /\ Paged(sized_segments(segs))
<1>1. PICK n \in Nat : n = Len(segs)
  BY LenProperties
<1>2. DOMAIN segs = 1..n
  BY <1>1, LenProperties
<1>3. \A i \in 1..n : segs[i] \in GoodSegments /\ segs[i].page \in Nat
  BY <1>2, GoodPages
<1> DEFINE seqs == [i \in 1..n |-> Sized(segs[i])]
           f == CHOOSE g : Joins(seqs, n, g)
           Of(i) == {t \in GoodSegments : t.page = segs[i].page}
<1>4. sized_segments(segs) = FlattenSeq(seqs)
  BY <1>2 DEF sized_segments
<1>5. \A i \in 1..n : seqs[i] \in Seq(Of(i))
  BY <1>3, PiecesGood
<1>6. Len(seqs) = n
  OBVIOUS
<1>7. \A i \in 1..n : /\ seqs[i] \in Seq(GoodSegments) /\ Paged(seqs[i])
                      /\ \A k \in DOMAIN seqs[i] : seqs[i][k].page = segs[i].page
  <2> SUFFICES ASSUME NEW i \in 1..n
               PROVE  /\ seqs[i] \in Seq(GoodSegments) /\ Paged(seqs[i])
                      /\ \A k \in DOMAIN seqs[i] : seqs[i][k].page = segs[i].page
    OBVIOUS
  <2>1. PICK of : of = seqs[i]
    OBVIOUS
  <2>2. of \in Seq(Of(i))
    BY <1>5, <2>1
  <2>3. Of(i) \subseteq GoodSegments
    OBVIOUS
  <2>4. of \in Seq(GoodSegments)
    BY <2>2, <2>3, SeqMonotonic
  <2>5. \A k \in DOMAIN of : of[k].page = segs[i].page
    BY <2>2, LenProperties
  <2>6. segs[i].page <= segs[i].page
    BY <1>3
  <2>7. Paged(of)
    BY <2>5, <2>6 DEF Paged
  <2> QED  BY <2>1, <2>4, <2>5, <2>7
<1> HIDE DEF seqs
<1>8. CASE n = 0
  <2>1. FlattenSeq(seqs) = <<>>
    BY <1>6, <1>8 DEF FlattenSeq, seqs
  <2>2. DOMAIN <<>> = {}
    OBVIOUS
  <2> QED  BY <1>4, <2>1, <2>2, EmptySeq DEF Paged
<1>9. CASE n # 0
  <2>1. FlattenSeq(seqs) = f[n]
    BY <1>6, <1>9 DEF FlattenSeq, Joins, seqs
  <2>2. Joins(seqs, n, f)
    BY JoinExists
  <2> HIDE DEF f
  <2> DEFINE Good(i) == /\ f[i] \in Seq(GoodSegments) /\ Paged(f[i])
                        /\ \A k \in DOMAIN f[i] : f[i][k].page <= segs[i].page
             Bad == {i \in 1..n : ~ Good(i)}
  <2>3. ASSUME Bad # {}  PROVE FALSE
    <3>1. Bad \in SUBSET Nat
      OBVIOUS
    <3>2. PICK i \in Bad : \A j \in Bad : i <= j
      BY <2>3, <3>1, Least
    <3>3. i \in 1..n /\ ~ Good(i)
      OBVIOUS
    <3>4. f[i] = IF i = 1 THEN seqs[i] ELSE f[i - 1] \o seqs[i]
      BY <2>2, <3>3 DEF Joins
    <3>5. PICK of : of = seqs[i]
      OBVIOUS
    <3>6. /\ of \in Seq(GoodSegments) /\ Paged(of)
          /\ \A k \in DOMAIN of : of[k].page = segs[i].page
      BY <1>7, <3>3, <3>5
    <3>7. segs[i].page \in Nat
      BY <1>3, <3>3
    <3>8. CASE i = 1
      <4>1. f[i] = of /\ \A k \in DOMAIN of : of[k].page <= segs[i].page
        BY <3>4, <3>5, <3>6, <3>7, <3>8
      <4> QED  BY <3>3, <3>6, <4>1
    <3>9. CASE i # 1
      <4>1. i - 1 \in 1..n /\ ~ (i <= i - 1) /\ i - 1 < i
        BY <3>3, <3>9
      <4>2. Good(i - 1)
        BY <3>2, <4>1
      <4>3. PICK before : before = f[i - 1]
        OBVIOUS
      <4>4. /\ before \in Seq(GoodSegments) /\ Paged(before)
            /\ \A k \in DOMAIN before : before[k].page <= segs[i - 1].page
        BY <4>2, <4>3
      <4>5. segs[i - 1].page <= segs[i].page /\ segs[i - 1].page \in Nat
        BY <1>2, <1>3, <3>3, <4>1 DEF Paged
      <4>6. \A k \in DOMAIN before : before[k].page \in Nat /\ before[k].page <= segs[i].page
        <5>1. \A k \in DOMAIN before : before[k].page \in Nat
          BY <4>4, GoodPages
        <5> QED  BY <3>7, <4>4, <4>5, <5>1
      <4>7. PagesFollow(before, of)
        BY <3>6, <4>6 DEF PagesFollow
      <4>8. PICK all : all = before \o of
        OBVIOUS
      <4>9. f[i] = all
        BY <3>4, <3>5, <3>9, <4>3, <4>8
      <4>10. all \in Seq(GoodSegments) /\ Paged(all)
        BY <3>6, <4>4, <4>7, <4>8, ConcatPaged, ConcatProperties
      <4>11. \A k \in DOMAIN all : all[k].page <= segs[i].page
        <5>1. PICK l \in Nat : l = Len(before)
          BY <4>4, LenProperties
        <5>2. PICK m \in Nat : m = Len(of)
          BY <3>6, LenProperties
        <5>3. /\ Len(all) = l + m
              /\ \A k \in 1..(l + m) : all[k] = IF k <= l THEN before[k] ELSE of[k - l]
          BY <3>6, <4>4, <4>8, <5>1, <5>2, ConcatProperties
        <5>4. DOMAIN all = 1..(l + m) /\ DOMAIN before = 1..l /\ DOMAIN of = 1..m
          BY <3>6, <4>4, <4>10, <5>1, <5>2, <5>3, LenProperties
        <5> SUFFICES ASSUME NEW k \in 1..(l + m)  PROVE all[k].page <= segs[i].page
          BY <5>4
        <5>5. CASE k <= l
          <6>1. k \in 1..l
            BY <5>5
          <6> QED  BY <4>6, <5>3, <5>4, <5>5, <6>1
        <5>6. CASE ~ (k <= l)
          <6>1. l \in Int /\ m \in Int /\ k \in Int /\ k >= l + 1 /\ k <= l + m
            BY <5>6
          <6>2. k - l \in 1..m
            BY <6>1, SMTT(30)
          <6>3. all[k] = of[k - l]
            BY <5>3, <5>6
          <6>4. of[k - l].page = segs[i].page
            BY <3>6, <5>4, <6>2
          <6> QED  BY <3>7, <6>3, <6>4
        <5> QED  BY <5>5, <5>6
      <4> QED  BY <3>3, <4>9, <4>10, <4>11
    <3> QED  BY <3>8, <3>9
  <2>4. n \in 1..n
    BY <1>9
  <2>5. Good(n)
    BY <2>3, <2>4
  <2> QED  BY <1>4, <2>1, <2>5
<1> QED  BY <1>8, <1>9

(* What segments have in common is the beginning of each one's section. *)
LEMMA CommonIs ==
  ASSUME NEW sections \in Seq(Path), sections # <<>>
  PROVE  /\ common_section(sections) \in Path
         /\ \A i \in DOMAIN sections : IsPrefix(common_section(sections), sections[i])
<1>1. PICK n \in Nat : n = Len(sections)
  BY LenProperties
<1>2. DOMAIN sections = 1..n /\ 1 \in 1..n /\ \A i \in 1..n : sections[i] \in Seq(Seq(Nat))
  BY <1>1, LenProperties, EmptySeq DEF Path
<1>3. PICK first : first = sections[1]
  OBVIOUS
<1>4. first \in Seq(Seq(Nat))
  BY <1>2, <1>3
<1>5. PICK l \in Nat : l = Len(first)
  BY <1>4, LenProperties
<1> DEFINE shared == {k \in 0..l : \A i \in 1..n :
                         k <= Len(sections[i]) /\ SubSeq(sections[i], 1, k) = SubSeq(first, 1, k)}
<1>6. common_section(sections) = SubSeq(first, 1, Max(shared))
  BY <1>2, <1>3, <1>5 DEF common_section
<1>7. 0 \in shared
  <2>1. \A i \in 1..n : SubSeq(sections[i], 1, 0) = <<>>
    BY SubSeqEmpty
  <2>2. SubSeq(first, 1, 0) = <<>>
    BY SubSeqEmpty
  <2>3. \A i \in 1..n : 0 <= Len(sections[i])
    BY <1>2, LenProperties
  <2> QED  BY <2>1, <2>2, <2>3
<1>8. shared \in SUBSET (0..l) /\ shared # {}
  BY <1>7
<1>9. PICK k : k = Max(shared)
  OBVIOUS
<1>10. k \in shared
  BY <1>8, <1>9, Greatest
<1>11. /\ k \in 0..l
       /\ \A i \in 1..n : k <= Len(sections[i]) /\ SubSeq(sections[i], 1, k) = SubSeq(first, 1, k)
  BY <1>10
<1> HIDE DEF shared
<1>12. PICK common : common = SubSeq(first, 1, k)
  OBVIOUS
<1>13. 1 \in Int /\ k \in Int /\ k \in Nat /\ k - 1 + 1 = k /\ (1 <= k \/ k = 0)
  BY <1>11
<1>14. common \in Seq(Seq(Nat)) /\ Len(common) = k
  <2>1. \A i \in 1..k : first[i] \in Seq(Nat)
    <3>1. \A i \in 1..k : i \in 1..l
      BY <1>11
    <3> QED  BY <1>4, <1>5, <3>1, ElementOfSeq
  <2> QED  BY <1>12, <1>13, <2>1, SubSeqProperties
<1>15. ASSUME NEW i \in 1..n  PROVE IsPrefix(common, sections[i])
  <2>1. PICK s : s = sections[i]
    OBVIOUS
  <2>2. s \in Seq(Seq(Nat)) /\ k <= Len(s) /\ SubSeq(s, 1, k) = common
    BY <1>2, <1>11, <1>12, <2>1
  <2>3. PICK m \in Nat : m = Len(s)
    BY <2>2, LenProperties
  <2>4. \A j \in 1..k : j \in 1..m
    BY <1>13, <2>2, <2>3
  <2>5. \A j \in 1..k : s[j] \in Seq(Nat)
    BY <2>2, <2>3, <2>4, ElementOfSeq
  <2>6. \A j \in 1..k : SubSeq(s, 1, k)[j] = s[1 + j - 1]
    BY <1>13, <2>5, SubSeqProperties
  <2>7. \A j \in 1..k : 1 + j - 1 = j
    OBVIOUS
  <2>8. \A j \in 1..k : common[j] = s[j]
    BY <2>2, <2>6, <2>7
  <2> QED  BY <1>14, <2>1, <2>2, <2>8, PrefixIs
<1> QED  BY <1>2, <1>6, <1>9, <1>12, <1>14, <1>15 DEF Path

LEMMA PathsTyped ==
  ASSUME doc \in Seq(Lines), NEW k \in DOMAIN doc
  PROVE  PathOf(k) \in Path
<1>1. k \in 1..Len(doc)
  BY DocIs
<1> QED  BY <1>1, PathTyped

(* What claims less holds more. *)
LEMMA HomeWidens ==
  ASSUME doc \in Seq(Lines), NEW section \in Path, NEW less \in Path, IsPrefix(less, section),
         NEW from \in Nat, NEW to \in Nat, NEW start \in Nat, NEW end \in Nat,
         start # 0 => /\ from # 0 /\ start <= from
                      /\ larger(from, to) <= larger(start, end)
  PROVE  Home(section, from, to) \subseteq Home(less, start, end)
<1> SUFFICES ASSUME NEW w \in Home(section, from, to)  PROVE w \in Home(less, start, end)
  OBVIOUS
<1>1. /\ w \in Nat \X Nat /\ w[1] \in DOMAIN doc /\ doc[w[1]].kind # "heading"
      /\ IsPrefix(section, PathOf(w[1]))
      /\ from # 0 => doc[w[1]].page \in from..larger(from, to)
  BY DEF Home
<1>2. PathOf(w[1]) \in Path
  BY <1>1, PathsTyped
<1>3. IsPrefix(less, PathOf(w[1]))
  BY <1>1, <1>2, PrefixTrans DEF Path
<1>4. start # 0 => doc[w[1]].page \in start..larger(start, end)
  <2> SUFFICES ASSUME start # 0  PROVE doc[w[1]].page \in start..larger(start, end)
    OBVIOUS
  <2>1. doc[w[1]].page \in from..larger(from, to)
    BY <1>1
  <2>2. larger(from, to) \in Nat /\ larger(start, end) \in Nat
    BY DEF larger
  <2> QED  BY <2>1, <2>2
<1> QED  BY <1>1, <1>3, <1>4 DEF Home

LEMMA JoinedText ==
  ASSUME NEW words, NEW segs, NEW n \in Nat, DOMAIN segs = 1..n,
         \A i \in 1..n : segs[i].text \in Texts(words)
  PROVE  Joined(segs) \in Texts(words)
<1> DEFINE lists == [i \in 1..n |->
               IF i = Len(segs) THEN segs[i].text ELSE Append(Followed(segs[i].text, "\n"), Break)]
<1>1. Break \in TokensOf(words) /\ "\n" \in After
  BY BreakIsToken DEF After
<1>2. \A i \in 1..n : Followed(segs[i].text, "\n") \in Seq(TokensOf(words))
  BY <1>1, FollowedText DEF Texts
<1>3. \A i \in 1..n : Append(Followed(segs[i].text, "\n"), Break) \in Seq(TokensOf(words))
  BY <1>1, <1>2, AppendProperties
<1>4. lists \in [1..n -> Seq(TokensOf(words))]
  BY <1>3 DEF Texts
<1> HIDE DEF lists
<1>5. FlattenSeq(lists) \in Seq(TokensOf(words))
  BY <1>4, FlattenAll
<1>6. Joined(segs) = FlattenSeq(lists)
  BY DEF Joined, lists
<1> QED  BY <1>5, <1>6 DEF Texts

(* A pack is flushed as chunks that claim no more than all of it is under. *)
LEMMA FlushedGood ==
  ASSUME ShapeInv, pack \in Seq(GoodSegments), Paged(pack), pack # <<>>
  PROVE  Flushed \in Seq(GoodChunks)
<1>1. PICK n \in Nat : n = Len(pack)
  BY LenProperties
<1>2. DOMAIN pack = 1..n /\ 1 \in 1..n /\ n \in 1..n
  BY <1>1, LenProperties, EmptySeq
<1>3. \A i \in 1..n : pack[i] \in GoodSegments /\ pack[i].page \in Nat /\ pack[i].section \in Path
  BY <1>2, GoodPages
<1>4. PICK sections : sections = Sections(pack)
  OBVIOUS
<1>5. sections = [i \in 1..n |-> pack[i].section]
  BY <1>2, <1>4 DEF Sections
<1>6. sections \in Seq(Path) /\ sections # <<>> /\ DOMAIN sections = 1..n
  <2>1. sections \in [1..n -> Path]
    BY <1>3, <1>5
  <2>2. sections \in Seq(Path) /\ DOMAIN sections = 1..n
    BY <2>1, SeqDef
  <2>3. DOMAIN <<>> = {}
    OBVIOUS
  <2> QED  BY <1>2, <2>2, <2>3
<1>7. PICK common : common = common_section(sections)
  OBVIOUS
<1>8. common \in Path /\ \A i \in 1..n : IsPrefix(common, pack[i].section)
  BY <1>5, <1>6, <1>7, CommonIs
<1>9. PICK from \in Nat : from = pack[1].page
  BY <1>2, <1>3
<1>10. PICK to \in Nat : to = pack[n].page
  BY <1>2, <1>3
<1>11. \A i \in 1..n : from <= pack[i].page /\ pack[i].page <= to
  <2> SUFFICES ASSUME NEW i \in 1..n  PROVE from <= pack[i].page /\ pack[i].page <= to
    OBVIOUS
  <2>1. (1 < i \/ i = 1) /\ (i < n \/ i = n)
    OBVIOUS
  <2>2. 1 < i => pack[1].page <= pack[i].page
    BY <1>2 DEF Paged
  <2>3. i < n => pack[i].page <= pack[n].page
    BY <1>2 DEF Paged
  <2> QED  BY <1>3, <1>9, <1>10, <2>1, <2>2, <2>3
<1>12. PICK end \in Nat : end = Ends(from, to)
  BY DEF Ends
<1>13. PICK words : words = Home(common, from, end)
  OBVIOUS
<1>14. \A i \in 1..n : pack[i].text \in Texts(words)
  <2> SUFFICES ASSUME NEW i \in 1..n  PROVE pack[i].text \in Texts(words)
    OBVIOUS
  <2>1. PICK p \in Nat : p = pack[i].page
    BY <1>3
  <2>2. PICK section \in Path : section = pack[i].section
    BY <1>3
  <2>3. pack[i].text \in Texts(Home(section, p, p))
    BY <1>3, <2>1, <2>2 DEF GoodSegments
  <2>4. IsPrefix(common, section)
    BY <1>8, <2>2
  <2>5. from # 0 => p # 0 /\ from <= p /\ larger(p, p) <= larger(from, end)
    BY <1>11, <1>12, <2>1 DEF larger, Ends
  <2>6. Home(section, p, p) \subseteq words
    BY <1>8, <1>13, <2>4, <2>5, HomeWidens DEF ShapeInv
  <2> QED  BY <2>3, <2>6, TextsGrow
<1>15. PICK text : text = Joined(pack)
  OBVIOUS
<1>16. text \in Texts(words)
  BY <1>2, <1>14, <1>15, JoinedText
<1>17. text \in Texts(Home(common, from, Ends(from, to)))
  BY <1>12, <1>13, <1>16
<1>18. emit(text, common, from, to) \in Seq(GoodChunks)
  BY <1>8, <1>17, EmitGood
<1>19. Flushed = emit(text, common, from, to)
  BY <1>1, <1>4, <1>7, <1>9, <1>10, <1>15 DEF Flushed, Last
<1> QED  BY <1>18, <1>19

LEMMA EmptyPack ==
  ASSUME pack = <<>>
  PROVE  Flushed = <<>>
<1>1. Joined(pack) = <<>>
  <2>1. DOMAIN pack = 1..0 /\ \A i \in 1..0 : pack[i].text \in Texts({})
    OBVIOUS
  <2>2. PICK lists : lists = [i \in 1..0 |->
               IF i = Len(pack) THEN pack[i].text ELSE Append(Followed(pack[i].text, "\n"), Break)]
    OBVIOUS
  <2>3. lists \in [1..0 -> Seq({})]
    BY <2>2
  <2>4. FlattenSeq(lists) \in Seq({})
    BY <2>3, FlattenAll
  <2>5. Joined(pack) \in Seq({})
    BY <2>1, <2>2, <2>4 DEF Joined
  <2>6. PICK text : text = Joined(pack)
    OBVIOUS
  <2>7. text = <<>>
    <3>1. text \in [1..Len(text) -> {}] /\ Len(text) \in Nat
      BY <2>5, <2>6, LenProperties
    <3>2. Len(text) = 0
      <4>1. 1 \notin 1..Len(text)
        BY <3>1
      <4> QED  BY <3>1, <4>1
    <3> QED  BY <2>5, <2>6, <3>2, EmptySeq
  <2> QED  BY <2>6, <2>7
<1>2. strip(<<>>) = <<>>
  BY DEF strip
<1>3. Bodies(strip(Joined(pack)), common_section(Sections(pack))) = <<>>
  BY <1>1, <1>2 DEF Bodies
<1>4. DOMAIN <<>> = {} /\ <<>> = [i \in {} |-> {}]
  OBVIOUS
<1> QED  BY <1>3 DEF Flushed, emit

LEMMA Chunking ==
  ASSUME ShapeInv', pc' # "load", doc' = doc, set' = set,
         todo' \in Seq(GoodSegments), pack' \in Seq(GoodSegments), chunks' \in Seq(GoodChunks),
         Paged(pack'), Paged(todo'), PagesFollow(pack', todo'),
         pc' = "chunk" /\ set.strategy # "semantic" => todo' # <<>>
  PROVE  PassagesInv'
<1>1. GoodSegments' = GoodSegments /\ GoodChunks' = GoodChunks
  BY SameHomes
<1>2. ChunkInv'
  BY <1>1 DEF ChunkInv
<1> QED  BY <1>2 DEF PassagesInv

LEMMA HeadAndTail ==
  ASSUME NEW segs \in Seq(GoodSegments), segs # <<>>, Paged(segs)
  PROVE  /\ Head(segs) \in GoodSegments /\ Tail(segs) \in Seq(GoodSegments)
         /\ Paged(Tail(segs)) /\ Len(Tail(segs)) = Len(segs) - 1
         /\ \A j \in DOMAIN Tail(segs) : Head(segs).page <= Tail(segs)[j].page
         /\ \A j \in DOMAIN Tail(segs) : j + 1 \in DOMAIN segs /\ Tail(segs)[j] = segs[j + 1]
         /\ 1 \in DOMAIN segs /\ Head(segs) = segs[1]
<1>1. PICK n \in Nat : n = Len(segs)
  BY LenProperties
<1>2. PICK rest : rest = Tail(segs)
  OBVIOUS
<1>3. /\ Head(segs) \in GoodSegments /\ rest \in Seq(GoodSegments) /\ Len(rest) = n - 1
      /\ \A i \in 1..Len(rest) : rest[i] = segs[i + 1]
  BY <1>1, <1>2, HeadTailProperties
<1>4. DOMAIN segs = 1..n /\ n # 0 /\ DOMAIN rest = 1..(n - 1)
  BY <1>1, <1>3, LenProperties, EmptySeq
<1>5. \A j \in 1..(n - 1) : j + 1 \in 1..n /\ rest[j] = segs[j + 1]
  BY <1>3
<1>6. 1 \in 1..n /\ Head(segs) = segs[1]
  <2>1. 1 \in 1..n
    BY <1>4
  <2>2. Head(segs) = segs[1]
    OBVIOUS
  <2> QED  BY <2>1, <2>2
<1>7. \A j \in 1..(n - 1) : segs[1].page <= rest[j].page
  <2> SUFFICES ASSUME NEW j \in 1..(n - 1)  PROVE segs[1].page <= rest[j].page
    OBVIOUS
  <2>1. 1 < j + 1 /\ j + 1 \in 1..n
    OBVIOUS
  <2> QED  BY <1>4, <1>5, <1>6, <2>1 DEF Paged
<1>8. Paged(rest)
  <2> SUFFICES ASSUME NEW i \in 1..(n - 1), NEW j \in 1..(n - 1), i < j  PROVE rest[i].page <= rest[j].page
    BY <1>4 DEF Paged
  <2>1. i + 1 \in 1..n /\ j + 1 \in 1..n /\ i + 1 < j + 1
    OBVIOUS
  <2>2. segs[i + 1].page <= segs[j + 1].page
    BY <1>4, <2>1 DEF Paged
  <2> QED  BY <1>5, <2>2
<1> QED  BY <1>1, <1>2, <1>3, <1>4, <1>5, <1>6, <1>7, <1>8

LEMMA EndStep ==
  ASSUME PassagesInv, EndOfDocument
  PROVE  PassagesInv'
<1>1. /\ pc = "load" /\ flush /\ Hand(segments')
      /\ set' = set /\ doc' = doc /\ page' = page /\ wrapped' = wrapped
      /\ pack' = pack /\ packTokens' = packTokens /\ chunks' = chunks
  BY DEF EndOfDocument
<1>2. ShapeInv /\ LoadInv
  BY <1>1 DEF PassagesInv
<1>3. segments' \in Seq(GoodSegments) /\ Paged(segments')
  BY <1>1, <1>2, FlushGood
<1>4. PICK segs : segs = segments'
  OBVIOUS
<1>5. segs \in Seq(GoodSegments) /\ Paged(segs)
  BY <1>3, <1>4
<1>6. /\ pc' = (IF segs = <<>> THEN "done" ELSE "chunk")
      /\ todo' = IF set.strategy = "semantic" THEN sized_segments(segs) ELSE segs
  BY <1>1, <1>4 DEF Hand
<1>7. todo' \in Seq(GoodSegments) /\ Paged(todo')
  <2>1. sized_segments(segs) \in Seq(GoodSegments) /\ Paged(sized_segments(segs))
    BY <1>2, <1>5, SizedPaged
  <2> QED  BY <1>5, <1>6, <2>1
<1>8. pack' = <<>> /\ chunks' = <<>>
  BY <1>1, <1>2 DEF LoadInv
<1>9. Paged(pack') /\ PagesFollow(pack', todo')
  <2>1. DOMAIN <<>> = {}
    OBVIOUS
  <2> QED  BY <1>8, <2>1 DEF Paged, PagesFollow
<1>10. pack' \in Seq(GoodSegments) /\ chunks' \in Seq(GoodChunks)
  BY <1>8, EmptySeq
<1>11. ShapeInv'
  BY <1>1, <1>2, <1>6 DEF ShapeInv
<1>12. pc' # "load" /\ (pc' = "chunk" /\ set.strategy # "semantic" => todo' # <<>>)
  BY <1>6
<1> QED  BY <1>1, <1>7, <1>9, <1>10, <1>11, <1>12, Chunking

LEMMA SemanticStep ==
  ASSUME PassagesInv, chunk_semantic
  PROVE  PassagesInv'
<1>1. /\ pc = "chunk" /\ set.strategy = "semantic" /\ todo # <<>> /\ todo' = Tail(todo) /\ pc' = pc
      /\ set' = set /\ doc' = doc /\ page' = page /\ wrapped' = wrapped
  BY DEF chunk_semantic, Loader
<1>2. PICK segment : segment = Head(todo)
  OBVIOUS
<1>3. \/ /\ pack # <<>> /\ chunks' = chunks \o Flushed
         /\ pack' = <<segment>> /\ packTokens' = Len(segment.text)
      \/ /\ pack' = Append(pack, segment) /\ chunks' = chunks
         /\ packTokens' = packTokens + Len(segment.text) + (IF pack = <<>> THEN 0 ELSE 2)
  BY <1>2 DEF chunk_semantic, Closes
<1>4. /\ ShapeInv /\ todo \in Seq(GoodSegments) /\ pack \in Seq(GoodSegments)
      /\ Paged(pack) /\ Paged(todo) /\ PagesFollow(pack, todo) /\ chunks \in Seq(GoodChunks)
  BY DEF PassagesInv, ChunkInv
<1>5. PICK rest : rest = Tail(todo)
  OBVIOUS
<1>6. /\ segment \in GoodSegments /\ rest \in Seq(GoodSegments) /\ Paged(rest)
      /\ \A j \in DOMAIN rest : segment.page <= rest[j].page
      /\ \A j \in DOMAIN rest : j + 1 \in DOMAIN todo /\ rest[j] = todo[j + 1]
      /\ 1 \in DOMAIN todo /\ segment = todo[1]
  BY <1>1, <1>2, <1>4, <1>5, HeadAndTail
<1>7. Len(segment.text) \in Nat
  <2>1. segment.text \in Text
    BY <1>6 DEF GoodSegments, Segment
  <2> QED  BY <2>1, LenProperties DEF Text
<1>8. ShapeInv'
  <2>1. packTokens \in Nat
    BY <1>4 DEF ShapeInv
  <2>2. packTokens' \in Nat
    <3>1. PICK n \in Nat : n = Len(segment.text)
      BY <1>7
    <3>2. PICK gap : gap = IF pack = <<>> THEN 0 ELSE 2
      OBVIOUS
    <3>3. packTokens' = n \/ packTokens' = packTokens + n + gap
      BY <1>3, <3>1, <3>2
    <3>4. gap \in Nat
      BY <3>2
    <3> QED  BY <2>1, <3>3, <3>4
  <2> QED  BY <1>1, <1>4, <2>2 DEF ShapeInv
<1>9. CASE pack # <<>> /\ chunks' = chunks \o Flushed /\ pack' = <<segment>>
  <2>1. chunks' \in Seq(GoodChunks)
    <3>1. Flushed \in Seq(GoodChunks)
      BY <1>4, <1>9, FlushedGood
    <3> QED  BY <1>4, <1>9, <3>1, ConcatProperties
  <2>2. pack' \in Seq(GoodSegments) /\ Paged(pack') /\ PagesFollow(pack', rest)
    <3>1. DOMAIN <<segment>> = 1..1 /\ <<segment>>[1] = segment /\ \A i \in 1..1 : i = 1
      OBVIOUS
    <3>2. Paged(<<segment>>)
      BY <3>1 DEF Paged
    <3>3. PagesFollow(<<segment>>, rest)
      BY <1>6, <3>1 DEF PagesFollow
    <3> QED  BY <1>6, <1>9, <3>2, <3>3, OneOf
  <2>3. todo' = rest /\ pc' # "load" /\ set.strategy = "semantic"
    BY <1>1, <1>5
  <2> QED  BY <1>1, <1>6, <1>8, <2>1, <2>2, <2>3, Chunking
<1>10. CASE pack' = Append(pack, segment) /\ chunks' = chunks
  <2>1. \A i \in DOMAIN pack : pack[i].page <= segment.page
    BY <1>4, <1>6 DEF PagesFollow
  <2>2. pack' \in Seq(GoodSegments) /\ Paged(pack')
    BY <1>4, <1>6, <1>10, <2>1, AppendPaged, AppendProperties
  <2>3. PagesFollow(pack', rest)
    <3>1. PICK n \in Nat : n = Len(pack)
      BY <1>4, LenProperties
    <3>2. PICK all : all = pack'
      OBVIOUS
    <3>3. /\ Len(all) = n + 1 /\ all[n + 1] = segment
          /\ \A i \in 1..n : all[i] = pack[i]
      BY <1>4, <1>6, <1>10, <3>1, <3>2, AppendProperties
    <3>4. DOMAIN all = 1..(n + 1) /\ DOMAIN pack = 1..n
      BY <1>4, <2>2, <3>1, <3>2, <3>3, LenProperties
    <3>5. \A i \in 1..(n + 1) : i \in 1..n \/ i = n + 1
      OBVIOUS
    <3>6. \A i \in 1..n, j \in DOMAIN rest : pack[i].page <= rest[j].page
      BY <1>4, <1>6, <3>4 DEF PagesFollow
    <3>7. PagesFollow(all, rest)
      BY <1>6, <3>3, <3>4, <3>5, <3>6 DEF PagesFollow
    <3> QED  BY <3>2, <3>7
  <2>4. todo' = rest /\ pc' # "load" /\ set.strategy = "semantic" /\ chunks' \in Seq(GoodChunks)
    BY <1>1, <1>4, <1>5, <1>10
  <2> QED  BY <1>1, <1>6, <1>8, <2>2, <2>3, <2>4, Chunking
<1> QED  BY <1>3, <1>9, <1>10

LEMMA LastStep ==
  ASSUME PassagesInv, LastFlush
  PROVE  PassagesInv'
<1>1. /\ chunks' = chunks \o Flushed /\ pack' = <<>> /\ packTokens' = 0 /\ pc' = "done"
      /\ todo' = todo /\ set' = set /\ doc' = doc /\ page' = page /\ wrapped' = wrapped
  BY DEF LastFlush, Loader
<1>2. /\ ShapeInv /\ todo \in Seq(GoodSegments) /\ pack \in Seq(GoodSegments)
      /\ Paged(pack) /\ Paged(todo) /\ chunks \in Seq(GoodChunks)
  BY DEF PassagesInv, ChunkInv
<1>3. Flushed \in Seq(GoodChunks)
  <2>1. CASE pack # <<>>
    BY <1>2, <2>1, FlushedGood
  <2>2. CASE pack = <<>>
    BY <2>2, EmptyPack, EmptySeq
  <2> QED  BY <2>1, <2>2
<1>4. chunks' \in Seq(GoodChunks)
  BY <1>1, <1>2, <1>3, ConcatProperties
<1>5. pack' \in Seq(GoodSegments) /\ Paged(pack') /\ PagesFollow(pack', todo')
  <2>1. DOMAIN <<>> = {}
    OBVIOUS
  <2> QED  BY <1>1, <2>1, EmptySeq DEF Paged, PagesFollow
<1>6. ShapeInv'
  BY <1>1, <1>2 DEF ShapeInv
<1> QED  BY <1>1, <1>2, <1>4, <1>5, <1>6, Chunking

LEMMA UnitStep ==
  ASSUME PassagesInv, chunk_per_unit
  PROVE  PassagesInv'
<1>1. /\ pc = "chunk" /\ set.strategy = "per-unit"
      /\ chunks' = chunks \o emit(Head(todo).text, Head(todo).section, Head(todo).page, 0)
      /\ todo' = Tail(todo) /\ pc' = (IF Len(todo) = 1 THEN "done" ELSE "chunk")
      /\ set' = set /\ doc' = doc /\ page' = page /\ wrapped' = wrapped
      /\ pack' = pack /\ packTokens' = packTokens
  BY DEF chunk_per_unit, Loader
<1>2. /\ ShapeInv /\ todo \in Seq(GoodSegments) /\ pack \in Seq(GoodSegments)
      /\ Paged(pack) /\ Paged(todo) /\ PagesFollow(pack, todo) /\ chunks \in Seq(GoodChunks)
      /\ todo # <<>> /\ doc \in Seq(Lines)
  BY <1>1 DEF PassagesInv, ChunkInv, ShapeInv
<1>3. PICK s : s = Head(todo)
  OBVIOUS
<1>4. PICK rest : rest = Tail(todo)
  OBVIOUS
<1>5. /\ s \in GoodSegments /\ rest \in Seq(GoodSegments) /\ Paged(rest)
      /\ Len(rest) = Len(todo) - 1
      /\ \A j \in DOMAIN rest : j + 1 \in DOMAIN todo /\ rest[j] = todo[j + 1]
  BY <1>2, <1>3, <1>4, HeadAndTail
<1>6. PICK section \in Path : section = s.section
  BY <1>5 DEF GoodSegments, Segment
<1>7. PICK from \in Nat : from = s.page
  BY <1>5 DEF GoodSegments, Segment
<1>8. emit(s.text, section, from, 0) \in Seq(GoodChunks)
  <2>1. s.text \in Texts(Home(section, from, from))
    BY <1>5, <1>6, <1>7 DEF GoodSegments
  <2>2. IsPrefix(section, section)
    BY <1>6, PrefixSelf DEF Path
  <2>3. Ends(from, 0) = 0 /\ 0 \in Nat
    BY DEF Ends
  <2>4. larger(from, from) <= larger(from, 0)
    BY DEF larger
  <2>5. Home(section, from, from) \subseteq Home(section, from, 0)
    BY <1>2, <2>2, <2>4, HomeWidens
  <2>6. s.text \in Texts(Home(section, from, Ends(from, 0)))
    BY <2>1, <2>3, <2>5, TextsGrow
  <2> QED  BY <1>2, <2>3, <2>6, EmitGood
<1>9. chunks' \in Seq(GoodChunks)
  BY <1>1, <1>2, <1>3, <1>6, <1>7, <1>8, ConcatProperties
<1>10. PagesFollow(pack', todo')
  BY <1>1, <1>2, <1>4, <1>5 DEF PagesFollow
<1>11. pc' # "load" /\ (pc' = "chunk" => rest # <<>>)
  <2>1. PICK n \in Nat : n = Len(todo)
    BY <1>2, LenProperties
  <2>2. n # 0
    BY <1>2, <2>1, EmptySeq
  <2>3. Len(<<>>) = 0
    OBVIOUS
  <2>4. pc' = "chunk" => n - 1 # 0
    BY <1>1, <2>1
  <2> QED  BY <1>1, <1>5, <2>1, <2>3, <2>4
<1>12. ShapeInv'
  BY <1>1, <1>2 DEF ShapeInv
<1> QED  BY <1>1, <1>2, <1>4, <1>5, <1>9, <1>10, <1>11, <1>12, Chunking

LEMMA FixedStep ==
  ASSUME PassagesInv, chunk_fixed
  PROVE  PassagesInv'
<1>1. PICK pieces : pieces = token_slice(Joined(todo), budget_for(<<>>), set.overlap)
  OBVIOUS
<1>2. /\ chunks' = FlattenSeq([i \in DOMAIN pieces |-> emit(pieces[i], <<>>, 0, 0)])
      /\ todo' = <<>> /\ pc' = "done" /\ set' = set /\ doc' = doc /\ page' = page /\ wrapped' = wrapped
      /\ pack' = pack /\ packTokens' = packTokens
  BY <1>1 DEF chunk_fixed, Loader
<1>3. /\ ShapeInv /\ todo \in Seq(GoodSegments) /\ pack \in Seq(GoodSegments) /\ Paged(pack)
      /\ doc \in Seq(Lines)
  BY DEF PassagesInv, ChunkInv, ShapeInv
<1>4. PICK n \in Nat : n = Len(todo)
  BY <1>3, LenProperties
<1>5. DOMAIN todo = 1..n /\ \A i \in 1..n : todo[i] \in GoodSegments
  BY <1>3, <1>4, LenProperties
<1>6. PICK words : words = Home(<<>>, 0, 0)
  OBVIOUS
<1>7. PICK none \in Path : none = <<>>
  BY EmptySeq DEF Path
<1>8. \A i \in 1..n : todo[i].text \in Texts(words)
  <2> SUFFICES ASSUME NEW i \in 1..n  PROVE todo[i].text \in Texts(words)
    OBVIOUS
  <2>1. PICK p \in Nat : p = todo[i].page
    BY <1>5 DEF GoodSegments, Segment
  <2>2. PICK section \in Path : section = todo[i].section
    BY <1>5 DEF GoodSegments, Segment
  <2>3. todo[i].text \in Texts(Home(section, p, p))
    BY <1>5, <2>1, <2>2 DEF GoodSegments
  <2>4. IsPrefix(none, section)
    <3>1. Len(none) = 0 /\ Len(section) \in Nat
      BY <1>7, <2>2, LenProperties DEF Path
    <3>2. Len(none) <= Len(section) /\ \A j \in 1..Len(none) : none[j] = section[j]
      BY <3>1
    <3> QED  BY <1>7, <2>2, <3>2, PrefixIs DEF Path
  <2>5. Home(section, p, p) \subseteq words
    BY <1>3, <1>6, <1>7, <2>4, HomeWidens
  <2> QED  BY <2>3, <2>5, TextsGrow
<1>9. PICK text : text = Joined(todo)
  OBVIOUS
<1>10. text \in Texts(words)
  BY <1>5, <1>8, <1>9, JoinedText
<1>11. PICK room \in Nat : room = budget_for(<<>>)
  BY <1>3, <1>7, Room
<1>12. set.overlap \in Nat
  BY <1>3, SettingsAre
<1>13. pieces \in Seq(Fitting(words, room))
  BY <1>1, <1>9, <1>10, <1>11, <1>12, SliceFits
<1>14. pieces \in Seq(Texts(words))
  BY <1>13, FittingTexts
<1>15. PICK m \in Nat : m = Len(pieces)
  BY <1>14, LenProperties
<1>16. DOMAIN pieces = 1..m /\ \A i \in 1..m : pieces[i] \in Texts(words)
  BY <1>14, <1>15, LenProperties
<1>17. \A i \in 1..m : emit(pieces[i], <<>>, 0, 0) \in Seq(GoodChunks)
  <2> SUFFICES ASSUME NEW i \in 1..m  PROVE emit(pieces[i], <<>>, 0, 0) \in Seq(GoodChunks)
    OBVIOUS
  <2>1. Ends(0, 0) = 0 /\ 0 \in Nat
    BY DEF Ends
  <2>2. pieces[i] \in Texts(Home(none, 0, Ends(0, 0)))
    BY <1>6, <1>7, <1>16, <2>1
  <2>3. emit(pieces[i], none, 0, 0) \in Seq(GoodChunks)
    BY <1>3, <2>1, <2>2, EmitGood
  <2> QED  BY <1>7, <2>3
<1>18. chunks' \in Seq(GoodChunks)
  <2>1. PICK lists : lists = [i \in 1..m |-> emit(pieces[i], <<>>, 0, 0)]
    OBVIOUS
  <2>2. lists \in [1..m -> Seq(GoodChunks)]
    BY <1>17, <2>1
  <2>3. FlattenSeq(lists) \in Seq(GoodChunks)
    BY <2>2, FlattenAll
  <2> QED  BY <1>2, <1>16, <2>1, <2>3
<1>19. todo' \in Seq(GoodSegments) /\ Paged(todo') /\ PagesFollow(pack', todo')
  <2>1. DOMAIN <<>> = {}
    OBVIOUS
  <2> QED  BY <1>2, <2>1, EmptySeq DEF Paged, PagesFollow
<1>20. ShapeInv'
  BY <1>2, <1>3 DEF ShapeInv
<1> QED  BY <1>2, <1>3, <1>18, <1>19, <1>20, Chunking

LEMMA PassagesStart ==
  ASSUME PassagesInit
  PROVE  PassagesInv
<1>1. /\ set \in Settings /\ doc = <<>> /\ page = (IF set.format = "pdf" THEN 1 ELSE 0)
      /\ stack = <<>> /\ buffer = <<>> /\ wrapped = 0 /\ segments = <<>>
      /\ pc = "load" /\ todo = <<>> /\ pack = <<>> /\ packTokens = 0 /\ chunks = <<>>
  BY DEF PassagesInit
<1>2. doc \in Seq(Lines) /\ Len(doc) = 0 /\ DOMAIN <<>> = {}
  BY <1>1, EmptySeq
<1>3. ShapeInv
  <2>1. page \in 0..MaxPages /\ Len(doc) <= MaxLines
    BY <1>1, <1>2, PassagesAssumption
  <2> QED  BY <1>1, <1>2, <2>1 DEF ShapeInv
<1>4. StackInv
  <2>1. PICK f : f = Ascending(Above(Len(doc) + 1))
    OBVIOUS
  <2>2. PICK m \in Nat : Enumerates(f, m, Above(0 + 1))
    <3>1. 0 = Len(doc) /\ 0 + 1 \in 1..(0 + 1) /\ 0 \in Nat
      BY <1>2
    <3>2. \E m \in Nat : Enumerates(Ascending(Above(0 + 1)), m, Above(0 + 1))
      BY <1>2, <3>1, AboveLists
    <3> QED  BY <1>2, <2>1, <3>2
  <2>3. Above(0 + 1) = {}
    BY <1>1, <1>2 DEF Above, Headings
  <2>4. m = 0
    <3>1. \A i \in 1..m : f[i] \in {}
      BY <2>2, <2>3 DEF Enumerates
    <3>2. ~ (1 \in 1..m)
      BY <3>1
    <3> QED  BY <3>2
  <2>5. DOMAIN f = {}
    BY <2>2, <2>4 DEF Enumerates
  <2>6. [i \in DOMAIN f |-> Open(f[i])] = <<>>
    BY <2>5
  <2> QED  BY <1>1, <2>1, <2>6 DEF StackInv
<1>5. WrapInv
  BY <1>1 DEF WrapInv
<1>6. buffer \in Texts(Here) /\ segments \in Seq(GoodSegments)
  BY <1>1, EmptySeq DEF Texts
<1>7. Paged(segments) /\ \A i \in DOMAIN segments : segments[i].page <= page
  BY <1>1, <1>2 DEF Paged
<1>8. LoadInv
  BY <1>1, <1>4, <1>5, <1>6, <1>7 DEF LoadInv
<1>9. ChunkInv
  <2>1. todo \in Seq(GoodSegments) /\ pack \in Seq(GoodSegments) /\ chunks \in Seq(GoodChunks)
    BY <1>1, EmptySeq
  <2>2. Paged(pack) /\ Paged(todo) /\ PagesFollow(pack, todo)
    BY <1>1, <1>2 DEF Paged, PagesFollow
  <2> QED  BY <1>1, <2>1, <2>2 DEF ChunkInv
<1> QED  BY <1>3, <1>8, <1>9 DEF PassagesInv

LEMMA PassagesStays ==
  ASSUME PassagesInv, [PassagesNext]_passagesVars
  PROVE  PassagesInv'
<1>1. CASE load_md \/ load_docx \/ html_walk \/ load_pdf \/ load_txt \/ load_json \/ load_xlsx
  <2>1. pc = "load"
    BY <1>1 DEF load_md, load_docx, html_walk, load_pdf, load_txt, load_json, load_xlsx, LoadItem,
                TurnPage, AnyText, AnyHeading, PassOver, add_text, heading, extend_heading, Reads
  <2> QED  BY <1>1, <2>1, LoadStep DEF PassagesInv
<1>2. CASE EndOfDocument
  BY <1>2, EndStep
<1>3. CASE chunk_semantic
  BY <1>3, SemanticStep
<1>4. CASE LastFlush
  BY <1>4, LastStep
<1>5. CASE chunk_per_unit
  BY <1>5, UnitStep
<1>6. CASE chunk_fixed
  BY <1>6, FixedStep
<1>7. CASE UNCHANGED passagesVars
  <2>1. /\ set' = set /\ doc' = doc /\ page' = page /\ stack' = stack /\ buffer' = buffer
        /\ wrapped' = wrapped /\ segments' = segments /\ pc' = pc /\ todo' = todo
        /\ pack' = pack /\ packTokens' = packTokens /\ chunks' = chunks
    BY <1>7 DEF passagesVars
  <2>2. GoodSegments' = GoodSegments /\ GoodChunks' = GoodChunks
    BY <2>1, SameHomes
  <2>3. ShapeInv'
    BY <2>1 DEF PassagesInv, ShapeInv
  <2>4. ChunkInv'
    BY <2>1, <2>2 DEF PassagesInv, ChunkInv
  <2>5. ASSUME pc = "load"  PROVE LoadInv'
    <3>1. LoadInv
      BY <2>5 DEF PassagesInv
    <3>2. StackInv'
      BY <2>1, <3>1, SameHomes DEF LoadInv
    <3>3. WrapInv'
      BY <2>1, <3>1 DEF LoadInv, WrapInv
    <3>4. Here' = Here
      BY <2>1, SamePaths DEF Here, Section
    <3>5. buffer' \in Texts(Here)'
      BY <2>1, <3>1, <3>4 DEF LoadInv, Texts, TokensOf, Break, After
    <3> QED  BY <2>1, <2>2, <3>1, <3>2, <3>3, <3>5 DEF LoadInv
  <2> QED  BY <2>1, <2>3, <2>4, <2>5 DEF PassagesInv
<1> QED  BY <1>1, <1>2, <1>3, <1>4, <1>5, <1>6, <1>7 DEF PassagesNext

(***************************************************************************)
(* At every step of parsing and chunking the stack is the heading path of  *)
(* the next line, and what was collected, handed over, packed or emitted   *)
(* holds only words that are where it says.                                *)
(***************************************************************************)
THEOREM PassagesHolds == PassagesSpec => []PassagesInv
<1>1. PassagesInit => PassagesInv
  BY PassagesStart
<1>2. PassagesInv /\ [PassagesNext]_passagesVars => PassagesInv'
  BY PassagesStays
<1> QED  BY <1>1, <1>2, PTL DEF PassagesSpec

(***************************************************************************)
(* A chunk is over the budget only by its breadcrumb, if that takes more   *)
(* than half of it: whatever split_text was asked to cut.                  *)
(***************************************************************************)
THEOREM ChunksWithinBudget == PassagesSpec => []WithinBudget
<1>1. PassagesInv => WithinBudget
  <2> SUFFICES ASSUME PassagesInv, NEW i \in DOMAIN chunks
               PROVE  chunks[i].tokens <= larger(set.chunk, Prefix(chunks[i].section) + set.chunk \div 2)
    BY DEF WithinBudget
  <2>1. chunks[i] \in GoodChunks
    BY LenProperties DEF PassagesInv, ChunkInv
  <2> QED  BY <2>1 DEF GoodChunks
<1> QED  BY <1>1, PassagesHolds, PTL

(***************************************************************************)
(* A chunk's heading path and pages are true of every word it holds.       *)
(***************************************************************************)
THEOREM ClaimsAreHonest == PassagesSpec => []HonestClaims
<1>1. PassagesInv => HonestClaims
  <2> SUFFICES ASSUME PassagesInv, NEW i \in DOMAIN chunks, NEW w \in WordsOf(chunks[i])
               PROVE  /\ IsPrefix(chunks[i].section, PathOf(w[1]))
                      /\ chunks[i].page # 0 =>
                            doc[w[1]].page \in chunks[i].page..larger(chunks[i].page, chunks[i].pageEnd)
    BY DEF HonestClaims
  <2>1. PICK c : c = chunks[i]
    OBVIOUS
  <2>2. c \in GoodChunks
    BY <2>1, LenProperties DEF PassagesInv, ChunkInv
  <2>3. PICK words : words = Home(c.section, c.page, c.pageEnd)
    OBVIOUS
  <2>4. c.text \in Seq(TokensOf(words))
    BY <2>2, <2>3 DEF GoodChunks, Texts
  <2>5. PICK j \in DOMAIN c.text : c.text[j] # Break /\ w = <<c.text[j][1], c.text[j][2]>>
    BY <2>1 DEF WordsOf
  <2>6. c.text[j] \in TokensOf(words)
    BY <2>4, LenProperties
  <2>7. w \in words
    BY <2>5, <2>6 DEF TokensOf
  <2> QED  BY <2>1, <2>3, <2>7 DEF Home
<1> QED  BY <1>1, PassagesHolds, PTL
=============================================================================
