---------------------------- MODULE EvalMetrics ----------------------------
(***************************************************************************)
(* The arithmetic of an evaluation: the score of one answer under each     *)
(* metric, the summary of a run, and the comparison of two runs.           *)
(*                                                                         *)
(* A score is a number of ten-thousandths, the precision a summary is      *)
(* rounded to.  An answer is what the metrics can tell of it; names of     *)
(* sources are compared without case, so a name stands for its lower case. *)
(* A sample is [answer, expects, expected, retrieved]: whether there is a  *)
(* reference answer, the sources expected, and the passages' sources.      *)
(***************************************************************************)
EXTENDS Integers, Sequences, FiniteSets, SequencesExt

Unit == 10000
Answers == {"empty", "refusal", "cited refusal", "plain", "cited"}
JudgeMetrics == {"faithfulness", "answer_relevancy", "correctness"}
MetricNames ==
    {"retrieval_recall", "context_precision", "citation_rate", "answered"} \cup JudgeMetrics

\* hits / len(list), where a hit is a member of the list that is in `names`
Share(list, names) == (Cardinality({i \in DOMAIN list : list[i] \in names}) * Unit) \div Len(list)

RetrievalRecall(s) ==
    IF s.expected = <<>> THEN Unit ELSE Share(s.expected, ToSet(s.retrieved))

ContextPrecision(s) ==
    CASE s.expected = <<>>  -> Unit
      [] s.expected # <<>> /\ s.retrieved = <<>> -> 0
      [] OTHER -> Share(s.retrieved, ToSet(s.expected))

CitationRate(s) ==
    IF s.retrieved # <<>> /\ s.answer \in {"cited", "cited refusal"} THEN Unit ELSE 0

AnswerPresence(s) == IF s.answer \in {"plain", "cited"} THEN Unit ELSE 0

(***************************************************************************)
(* A judge's reply is [kind, value]: a score, which is clamped to [0, 1],  *)
(* one that cannot be parsed, or an exception of the call.                 *)
(***************************************************************************)
ParseScore(reply) ==
    CASE reply.kind # "score"                      -> 0
      [] reply.kind = "score" /\ reply.value < 0    -> 0
      [] reply.kind = "score" /\ reply.value > Unit -> Unit
      [] OTHER                                     -> reply.value

\* Whether the judge is asked at all.
AsksJudge(metric, s) ==
    CASE metric = "faithfulness"     -> s.retrieved # <<>>
      [] metric = "answer_relevancy" -> TRUE
      [] metric = "correctness"      -> s.expects
      [] OTHER -> FALSE

(***************************************************************************)
(* metric.score(sample, judge), 0.0 when it raises.                        *)
(***************************************************************************)
ScoreOf(metric, s, reply) ==
    CASE metric = "retrieval_recall"  -> RetrievalRecall(s)
      [] metric = "context_precision" -> ContextPrecision(s)
      [] metric = "citation_rate"     -> CitationRate(s)
      [] metric = "answered"          -> AnswerPresence(s)
      [] metric \in JudgeMetrics      ->
            IF AsksJudge(metric, s) THEN ParseScore(reply) ELSE 0

(***************************************************************************)
(* What the values of a function add up to.                                *)
(***************************************************************************)
Total(f) == FoldFunction(LAMBDA value, sum : sum + value, 0, f)

(***************************************************************************)
(* Mean per metric over the rows that carry scores.                        *)
(***************************************************************************)
Rounded(sum, n) == (2 * sum + n) \div (2 * n)
SumOf(rows, name) == FoldSeq(LAMBDA row, sum : sum + (IF name \in DOMAIN row THEN row[name] ELSE 0),
                             0, rows)
Summarise(rows) ==
    [name \in UNION {DOMAIN row : row \in ToSet(rows)} |-> Rounded(SumOf(rows, name), Len(rows))]

ValueIn(summary, name) == IF name \in DOMAIN summary THEN summary[name] ELSE 0

\* Mutant of compare: baseline minus candidate.
compare_swapped(baseline, candidate) ==
    [name \in DOMAIN baseline \cup DOMAIN candidate |->
        ValueIn(baseline, name) - ValueIn(candidate, name)]

\* The delta of each metric of either run; a metric a run lacks counts as 0.
compare(baseline, candidate) ==
    [name \in DOMAIN baseline \cup DOMAIN candidate |->
        ValueIn(candidate, name) - ValueIn(baseline, name)]

\* `size` is abs(threshold).
regressions(comparison, size) ==
    {name \in DOMAIN comparison : comparison[name] < -size}

(***************************************************************************)
(* import_items: a file of more rows than the limit is refused; a row with *)
(* no question is skipped.  In JSON what is not an object is no row.       *)
(***************************************************************************)
RowsFrom(csv, entries) == IF csv THEN entries ELSE SelectSeq(entries, LAMBDA e : e # "not an object")
Refused(csv, entries, limit) == Len(RowsFrom(csv, entries)) > limit
Imported(csv, entries) == SelectSeq(RowsFrom(csv, entries), LAMBDA e : e # "no question")
=============================================================================
