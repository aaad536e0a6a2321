--------------------------- MODULE MCExperiments ---------------------------
(* Small instances of Experiments: two experiments, pipeline p1 with the   *)
(* versions v1 and v2, pipeline p2 with v3, and a split in three parts.    *)
EXTENDS Experiments, TLC

CONSTANTS v1, v2, v3, p1, p2, e1, e2, s1, s2

MCPipelineOf == (v1 :> p1) @@ (v2 :> p1) @@ (v3 :> p2)
MCInitial == (p1 :> v1) @@ (p2 :> v3)

\* s1 falls into the middle bucket and s2 into the first, or the other way
\* round in the other experiment.
MCBucketOf ==
    [e \in Exps |-> [s \in Subjects |-> IF (e = e1) = (s = s1) THEN 1 ELSE 0]]

Of(v, n, c) == [version |-> v, percent |-> n, control |-> c]

\* The control on the bot's graph, with an arm that gets no traffic; a control
\* with its version, and the bot's graph as a candidate; a split that does not
\* add up.
MCPayloads == {
    <<Of(None, 1, TRUE), Of(v3, 0, FALSE), Of(v1, 2, FALSE)>>,
    <<Of(v3, 1, TRUE), Of(v1, 1, FALSE), Of(None, 1, FALSE)>>,
    <<Of(None, 1, TRUE), Of(v1, 1, FALSE), None>>}
Interchangeable == Permutations(Slots)
=============================================================================
