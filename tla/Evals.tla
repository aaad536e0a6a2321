------------------------------- MODULE Evals -------------------------------
(***************************************************************************)
(* Evaluation runs over one dataset against one bot: the request that      *)
(* creates a run and queues it before its row is committed, the worker's   *)
(* job, which commits item by item so that a poll sees the progress, and   *)
(* the deletions that take the dataset, the bot or the pinned pipeline     *)
(* version away meanwhile.  A worker that dies leaves its job to be        *)
(* delivered again, from the start; a job that raises or times out is over.*)
(*                                                                         *)
(* The pipeline is what it leaves behind (module Pipeline): a sample, or   *)
(* an exception, and a price.  The price of a turn is that of its last     *)
(* answer, and nothing where there is none: the catalog does not know the  *)
(* model, or the call failed, even after the provider had answered.        *)
(***************************************************************************)
EXTENDS EvalMetrics

CONSTANTS
    Runs,        \* runs that may be started
    Starts,      \* what a run may be started with: [metrics, pinned, baseline]
    ItemKinds,   \* items of a golden set: [expects, expected]
    Files,       \* files that may be imported: [csv, entries]
    Replies,     \* what a judge may reply: [kind, value, cost, spends]
    Outcomes,    \* how the pipeline may end on an item: [raises, answer, retrieved, cost,
                 \* spends]; here and above cost is cost_usd, 0 for None, spends the truth
    ItemOf(_),   \* the item a row of a file stands for
    Threshold,   \* DEFAULT_REGRESSION_THRESHOLD
    ImportLimit, \* MAX_IMPORT_ITEMS
    MaxItems,    \* bound: items of the dataset
    MaxMishaps   \* bound: deletions, changes of the bot's pipeline, deaths of the worker

IsList(s) == s \in Seq({s[i] : i \in DOMAIN s})

\* A run asks for some metric; what is read of a file is a list, and so are the
\* sources an item expects and those of the passages; scores and prices are numbers.
ASSUME EvalsAssumption ==
    /\ Starts \subseteq [metrics : (SUBSET MetricNames) \ {{}}, pinned : BOOLEAN, baseline : BOOLEAN]
    /\ \A file \in Files : LET New == Imported(file.csv, file.entries) IN
          /\ IsList(New)
          /\ \A i \in DOMAIN New : IsList(ItemOf(New[i]).expected)
    /\ \A kind \in ItemKinds : IsList(kind.expected)
    /\ \A o \in Outcomes : ~ o.raises => IsList(o.retrieved)
    /\ \A reply \in Replies : reply.kind = "score" => reply.value \in Int
    /\ \A x \in Replies \cup Outcomes : x.cost \in Nat /\ x.spends \in Nat
    /\ {Threshold, ImportLimit, MaxItems, MaxMishaps} \subseteq Nat

VARIABLES
    dataset,    \* live or gone
    items,      \* its items, by id
    botLive, ownPipeline,  \* the bot exists; it has a pipeline with a current version
    run,        \* rows of eval_runs
    created,    \* runs in the order of created_at
    rows,       \* rows of eval_scores: [run, item, try, error, scores, cost, judged], of
                \* which try and judged, the judge's price for the item, are history
    job,        \* where the worker is with each run
    mem,        \* what it holds: graph, total, scores, total_cost, judge.cost_usd
    tries,      \* deliveries of each job
    spent,      \* history: what each run's turns and judge calls cost
    mishaps

vars == <<dataset, items, botLive, ownPipeline, run, created, rows, job, mem, tries, spent,
          mishaps>>

NoRun == [status |-> "none", bot |-> FALSE, pinned |-> FALSE, baseline |-> FALSE, metrics |-> {},
          total |-> 0, done |-> 0, summary |-> <<>>, cost |-> 0]
NoMem == [graph |-> "none", total |-> 0, next |-> 1, scores |-> <<>>, cost |-> 0, judged |-> 0]

Stored(r) == run[r].status \in {"pending", "running", "done", "failed"}

Init ==
    /\ dataset = "live" /\ items = <<>>
    /\ botLive = TRUE /\ ownPipeline \in BOOLEAN
    /\ run = [r \in Runs |-> NoRun] /\ created = <<>> /\ rows = {}
    /\ job = [r \in Runs |-> "none"] /\ mem = [r \in Runs |-> NoMem]
    /\ tries = [r \in Runs |-> 0] /\ spent = [r \in Runs |-> 0]
    /\ mishaps = 0
-----------------------------------------------------------------------------
(***************************************************************************)
(* The API.                                                                *)
(***************************************************************************)
Unworked == UNCHANGED <<rows, job, mem, tries, spent>>

add_item ==
    /\ dataset = "live" /\ Len(items) < MaxItems
    /\ \E kind \in ItemKinds : items' = Append(items, kind)
    /\ UNCHANGED <<dataset, botLive, ownPipeline, run, created, mishaps>> /\ Unworked

import_dataset ==
    /\ dataset = "live"
    /\ \E file \in Files :
        LET New == Imported(file.csv, file.entries) IN
        /\ ~ Refused(file.csv, file.entries, ImportLimit)
        /\ Len(items) + Len(New) <= MaxItems
        /\ items' = items \o [i \in DOMAIN New |-> ItemOf(New[i])]
    /\ UNCHANGED <<dataset, botLive, ownPipeline, run, created, mishaps>> /\ Unworked

\* start_run: the row is flushed and the job queued; the commit comes later.
start_run(r) ==
    /\ run[r].status = "none" /\ dataset = "live" /\ botLive /\ items # <<>>
    /\ \E with \in Starts :
        run' = [run EXCEPT ![r] = [NoRun EXCEPT !.status = "flushed", !.bot = TRUE,
                    !.pinned = with.pinned, !.baseline = with.baseline, !.metrics = with.metrics]]
    /\ job' = [job EXCEPT ![r] = "queued"]
    /\ UNCHANGED <<dataset, items, botLive, ownPipeline, created, rows, mem, tries, spent, mishaps>>

CommitStart(r) ==
    /\ run[r].status = "flushed"
    /\ run' = [run EXCEPT ![r].status = "pending"]
    /\ created' = Append(created, r)
    /\ UNCHANGED <<dataset, items, botLive, ownPipeline, mishaps>> /\ Unworked

\* The commit fails, or the process dies before it: the job stays queued.
StartLost(r) ==
    /\ run[r].status = "flushed"
    /\ run' = [run EXCEPT ![r].status = "lost"]
    /\ UNCHANGED <<dataset, items, botLive, ownPipeline, created, mishaps>> /\ Unworked

Mishap == mishaps < MaxMishaps /\ mishaps' = mishaps + 1

\* Nothing is deleted under an uncommitted run: its row holds what it names.
Edited == /\ Mishap
          /\ \A r \in Runs : run[r].status # "flushed"

delete_dataset ==
    /\ dataset = "live" /\ Edited
    /\ dataset' = "gone" /\ items' = <<>> /\ rows' = {} /\ created' = <<>>
    /\ run' = [r \in Runs |-> IF Stored(r) THEN [NoRun EXCEPT !.status = "lost"] ELSE run[r]]
    /\ UNCHANGED <<botLive, ownPipeline, job, mem, tries, spent>>

delete_bot ==
    /\ botLive /\ Edited
    /\ botLive' = FALSE /\ ownPipeline' = FALSE
    /\ run' = [r \in Runs |-> [run[r] EXCEPT !.bot = FALSE]]
    /\ UNCHANGED <<dataset, items, created>> /\ Unworked

\* The pipeline of the pinned version is deleted: the pin becomes NULL.
delete_pinned ==
    /\ Edited /\ \E r \in Runs : run[r].pinned
    /\ run' = [r \in Runs |-> [run[r] EXCEPT !.pinned = FALSE]]
    /\ UNCHANGED <<dataset, items, botLive, ownPipeline, created>> /\ Unworked

SetPipeline ==
    /\ botLive /\ Edited /\ ownPipeline' = ~ ownPipeline
    /\ UNCHANGED <<dataset, items, botLive, run, created>> /\ Unworked
-----------------------------------------------------------------------------
(***************************************************************************)
(* The worker.                                                             *)
(***************************************************************************)
Api == <<dataset, items, botLive, ownPipeline, created>>

JobEnds(r) == job' = [job EXCEPT ![r] = "none"] /\ mem' = [mem EXCEPT ![r] = NoMem]

\* Mutant of _dag_for_run: the bot's own pipeline is looked for first.
DagOfBotFirst(r) ==
    CASE ownPipeline -> "own"
      [] ~ ownPipeline /\ run[r].pinned -> "pinned"
      [] OTHER -> "default"

_dag_for_run(r) ==
    CASE run[r].pinned -> "pinned"
      [] ~ run[r].pinned /\ ownPipeline -> "own"
      [] OTHER -> "default"

Deliver(r) ==
    /\ job[r] = "queued"
    /\ tries' = [tries EXCEPT ![r] = @ + 1]
    /\ IF Stored(r) /\ run[r].bot /\ botLive
       THEN /\ job' = [job EXCEPT ![r] = "loaded"]
            /\ mem' = [mem EXCEPT ![r] = [NoMem EXCEPT !.graph = _dag_for_run(r),
                                                       !.total = Len(items)]]
       ELSE JobEnds(r)
    /\ UNCHANGED <<run, rows, spent, mishaps, Api>>

\* An UPDATE of a row that has gone raises.
MarkRunning(r) ==
    /\ job[r] = "loaded"
    /\ IF Stored(r)
       THEN /\ run' = [run EXCEPT ![r].status = "running", ![r].total = mem[r].total, ![r].done = 0]
            /\ job' = [job EXCEPT ![r] = "scoring"] /\ UNCHANGED mem
       ELSE JobEnds(r) /\ UNCHANGED run
    /\ UNCHANGED <<rows, tries, spent, mishaps, Api>>

Sample(item, outcome) ==
    [answer |-> outcome.answer, retrieved |-> outcome.retrieved,
     expects |-> item.expects, expected |-> item.expected]

\* _MeteredJudge: each call adds its price, if it has one.
JudgeCost(asked, reply) == Total([m \in asked |-> reply[m].cost])

\* A row of scores for each way the judge may reply.
_score_item(r, item, outcome) ==
    LET s == Sample(item, outcome)
        Asked == {m \in run[r].metrics : AsksJudge(m, s)}
    IN  {[error |-> FALSE,
          scores |-> [m \in run[r].metrics |->
                         ScoreOf(m, s, IF m \in Asked THEN reply[m] ELSE [kind |-> "none"])],
          cost |-> outcome.cost, judged |-> JudgeCost(Asked, reply),
          spends |-> outcome.spends + Total([m \in Asked |-> reply[m].spends])]
            : reply \in [Asked -> Replies]}

Raised(outcome) == [error |-> TRUE, scores |-> <<>>, cost |-> outcome.cost, judged |-> 0,
                    spends |-> outcome.spends]

Results(r, item) ==
    UNION {IF o.raises THEN {Raised(o)} ELSE _score_item(r, item, o) : o \in Outcomes}

_score_row(r, result) ==
    [run |-> r, item |-> mem[r].next, try |-> tries[r], error |-> result.error,
     scores |-> result.scores, cost |-> result.cost, judged |-> result.judged]

\* The row is written, the progress counted and both committed together.  The
\* price of a turn that raised is counted like any other.
Keep(r, result, counted) ==
    /\ rows' = rows \cup {_score_row(r, result)}
    /\ run' = [run EXCEPT ![r].done = @ + 1]
    /\ mem' = [mem EXCEPT ![r].next = @ + 1, ![r].cost = @ + result.cost,
                          ![r].judged = @ + result.judged,
                          ![r].scores = IF counted THEN Append(@, result.scores) ELSE @]
    /\ spent' = [spent EXCEPT ![r] = @ + result.spends]
    /\ UNCHANGED <<job, tries, mishaps, Api>>

\* Mutant of ScoreItem: the scores of an item that raised are summed up too.
ScoreAll(r) ==
    /\ job[r] = "scoring" /\ mem[r].next <= mem[r].total /\ Stored(r)
    /\ \E result \in Results(r, items[mem[r].next]) : Keep(r, result, TRUE)

ScoreItem(r) ==
    /\ job[r] = "scoring" /\ mem[r].next <= mem[r].total /\ Stored(r)
    /\ \E result \in Results(r, items[mem[r].next]) : Keep(r, result, ~ result.error)

\* Mutant of Finish: the price of a run adds up over its deliveries.
FinishAdding(r) ==
    /\ job[r] = "scoring" /\ mem[r].next > mem[r].total /\ Stored(r)
    /\ run' = [run EXCEPT ![r].summary = Summarise(mem[r].scores),
                          ![r].cost = @ + mem[r].cost + mem[r].judged,
                          ![r].status = IF mem[r].scores # <<>> \/ mem[r].total = 0
                                        THEN "done" ELSE "failed"]
    /\ job' = [job EXCEPT ![r] = "ended"] /\ mem' = [mem EXCEPT ![r] = NoMem]
    /\ UNCHANGED <<rows, tries, spent, mishaps, Api>>

Finish(r) ==
    /\ job[r] = "scoring" /\ mem[r].next > mem[r].total /\ Stored(r)
    /\ run' = [run EXCEPT ![r].summary = Summarise(mem[r].scores),
                          ![r].cost = mem[r].cost + mem[r].judged,
                          ![r].status = IF mem[r].scores # <<>> \/ mem[r].total = 0
                                        THEN "done" ELSE "failed"]
    /\ job' = [job EXCEPT ![r] = "ended"] /\ mem' = [mem EXCEPT ![r] = NoMem]
    /\ UNCHANGED <<rows, tries, spent, mishaps, Api>>

\* The queue learns that the job is over.
Acknowledge(r) == /\ job[r] = "ended" /\ JobEnds(r)
                  /\ UNCHANGED <<run, rows, tries, spent, mishaps, Api>>

\* The database, the judge's key, the timeout of the job: it is over for good,
\* and the run keeps the status it has.
JobRaises(r) ==
    /\ job[r] \in {"loaded", "scoring"} /\ JobEnds(r)
    /\ UNCHANGED <<run, rows, tries, spent, mishaps, Api>>

\* The worker process that has the job dies; the job is delivered again.
Crash(r) ==
    /\ Mishap
    /\ job[r] \notin {"none", "queued"}
    /\ job' = [job EXCEPT ![r] = "queued"] /\ mem' = [mem EXCEPT ![r] = NoMem]
    /\ UNCHANGED <<run, rows, tries, spent, Api>>

Next ==
    \/ add_item \/ import_dataset \/ delete_dataset \/ delete_bot \/ delete_pinned \/ SetPipeline
    \/ \E r \in Runs :
        \/ start_run(r) \/ CommitStart(r) \/ StartLost(r)
        \/ Deliver(r) \/ MarkRunning(r) \/ ScoreItem(r) \/ Finish(r) \/ Acknowledge(r)
        \/ JobRaises(r) \/ Crash(r)

Spec == Init /\ [][Next]_vars
-----------------------------------------------------------------------------
(***************************************************************************)
(* What a run says is what its rows say: as many items as it counts have a *)
(* row, and once it is over its summary is the mean over one delivery that *)
(* reached every item, "failed" exactly when all of them raised.           *)
(***************************************************************************)
RowsOf(r, t) == {row \in rows : row.run = r /\ row.try = t}
Scored(r, t) == [i \in 1..Cardinality({row \in RowsOf(r, t) : ~ row.error}) |->
                    LET Rank(row) == Cardinality({q \in RowsOf(r, t) : ~ q.error /\ q.item <= row.item})
                    IN  (CHOOSE row \in RowsOf(r, t) : ~ row.error /\ Rank(row) = i).scores]
ReachedAll(r, t) == {row.item : row \in RowsOf(r, t)} = 1..run[r].total
RunIsItsRows ==
    \A r \in Runs :
        /\ \E t \in 0..tries[r] : run[r].done = Cardinality(RowsOf(r, t)) \/ run[r].done = 0
        /\ run[r].status \in {"done", "failed"} =>
            \E t \in 1..tries[r] :
                /\ ReachedAll(r, t) /\ run[r].done = run[r].total
                /\ run[r].summary = Summarise(Scored(r, t))
                /\ run[r].status = "failed" <=> \A row \in RowsOf(r, t) : row.error

(***************************************************************************)
(* A run that is being scored under a pinned version, and whose pin still  *)
(* stands, is scored with that version, whatever is done to the bot.       *)
(***************************************************************************)
WhatIsPinnedIsTested ==
    \A r \in Runs : job[r] = "scoring" /\ run[r].pinned => mem[r].graph = "pinned"

(***************************************************************************)
(* The newest baseline of a dataset that is done, the one a regression is  *)
(* looked for against.  A metric said to have regressed was not measured   *)
(* in the candidate, or is lower on some item, or the two runs' means are  *)
(* over different items: one has rows that raised, or the dataset grew.    *)
(***************************************************************************)
Baselines == {i \in DOMAIN created : run[created[i]].baseline /\ run[created[i]].status = "done"}
latest_baseline == created[CHOOSE i \in Baselines : \A j \in Baselines : j <= i]
Rows(r) == {row \in rows : row.run = r}
SameItems(a, b) == /\ \A row \in Rows(a) \cup Rows(b) : ~ row.error
                   /\ {row.item : row \in Rows(a)} = {row.item : row \in Rows(b)}
compare_runs(b, c) == regressions(compare(run[b].summary, run[c].summary), Threshold)
RegressionHasCause ==
    Baselines # {} => \A c \in {r \in Runs : run[r].status = "done"} :
        LET b == latest_baseline IN
        \A m \in compare_runs(b, c) :
            \/ m \notin DOMAIN run[c].summary
            \/ ~ SameItems(b, c)
            \/ \E x \in Rows(b), y \in Rows(c) :
                  /\ x.item = y.item /\ m \in DOMAIN x.scores \cap DOMAIN y.scores
                  /\ y.scores[m] < x.scores[m]

(***************************************************************************)
(* A run that is over has the price of what its summary was measured on:   *)
(* one delivery that reached every item, whose rows' prices and whose      *)
(* judge's calls, and no others, add up to it.  An item that raised is     *)
(* paid for, a delivery cut short by a crash is not counted with the next. *)
(***************************************************************************)
PriceOf(R) == Total([row \in R |-> row.cost + row.judged])
PriceIsOfOneDelivery ==
    \A r \in Runs : run[r].status \in {"done", "failed"} =>
        \E t \in 1..tries[r] :
            /\ ReachedAll(r, t)
            /\ run[r].summary = Summarise(Scored(r, t))
            /\ run[r].cost = PriceOf(RowsOf(r, t))

(***************************************************************************)
(* A run delivered once reports what was spent on it, "rather than hiding  *)
(* it" (the docstring of evals/runner.py).  A turn that failed after the   *)
(* provider answered, or that answered twice, is not reported in full.     *)
(***************************************************************************)
CostIsReported ==
    \A r \in Runs : run[r].status \in {"done", "failed"} /\ tries[r] = 1 =>
        run[r].cost = spent[r]
=============================================================================
