------------------------------ MODULE MCEvals ------------------------------
(* Small instances of Evals: two kinds of items, the ends of a turn.       *)
EXTENDS Evals, TLC

Interchangeable == Permutations(Runs)
With(metric, pinned, baseline) ==
    [metrics |-> {metric}, pinned |-> pinned, baseline |-> baseline]
Started == {With("faithfulness", TRUE, TRUE), With("faithfulness", FALSE, FALSE),
            With("context_precision", FALSE, FALSE)}
Known   == [expects |-> TRUE, expected |-> <<"manual">>]
Unknown == [expects |-> FALSE, expected |-> <<>>]
Kinds   == {Known}
Row(e)  == IF e = "unknown" THEN Unknown ELSE Known
Imports == {[csv |-> FALSE, entries |-> <<"no question", "not an object", "known">>]}
Judged  == {[kind |-> "score", value |-> 10000, cost |-> 1, spends |-> 1],
            [kind |-> "unparsable", value |-> 0, cost |-> 1, spends |-> 1]}
Ends    == {[raises |-> TRUE, answer |-> "empty", retrieved |-> <<>>, cost |-> 1, spends |-> 1],
            [raises |-> FALSE, answer |-> "refusal", retrieved |-> <<"manual", "other">>,
             cost |-> 1, spends |-> 1]}
\* The provider fails after it has sent a part of its answer.
CutOff  == Ends \cup {[raises |-> FALSE, answer |-> "empty", retrieved |-> <<"manual">>,
                       cost |-> 0, spends |-> 1]}
=============================================================================
