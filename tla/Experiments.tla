---------------------------- MODULE Experiments ----------------------------
(***************************************************************************)
(* A/B experiments of one bot: drafts, starting and stopping, the arm a    *)
(* visitor is assigned to, the graph a turn then runs, the usage it is     *)
(* tagged with; and the pipelines underneath, which may be saved, rolled   *)
(* back, promoted or deleted at any time.                                  *)
(*                                                                         *)
(* Handlers run in one READ COMMITTED transaction each. A handler that     *)
(* decides on what it read is split where it reads; what it flushes and    *)
(* commits is one step, because nobody sees it before and whoever waits    *)
(* for its row locks decides nothing while waiting.                        *)
(***************************************************************************)
EXTENDS Integers, Sequences, FiniteSets, FiniteSetsExt

CONSTANTS
    Exps,         \* experiment ids, each used once
    Positions,    \* the arms of an experiment, in the order of their ids
    Pipelines,
    Versions,     \* pipeline_versions ids, each used once
    PipelineOf,   \* the pipeline a version belongs to
    Initial,      \* the version each pipeline is created with
    Payloads,     \* the lists of arms a client may send
    Buckets,      \* BUCKETS: the size of a full split
    BucketOf,     \* the hash of experiment and subject
    Subjects,     \* signed-in visitors
    Slots,        \* handlers that can be in flight together
    None,         \* no version: the bot's graph; no pipeline: the built-in graph
    MaxStarts,    \* bound: successful checks of a start
    MaxTurns      \* bound: distinct usage tags

ASSUME ExperimentsAssumption ==
    /\ Positions \subseteq Nat /\ IsFiniteSet(Positions)
    /\ PipelineOf \in [Versions -> Pipelines]
    /\ Initial \in [Pipelines -> Versions]
    /\ \A p \in Pipelines : PipelineOf[Initial[p]] = p
    /\ Buckets \in Nat \ {0} /\ MaxStarts \in Nat /\ MaxTurns \in Nat
    /\ BucketOf \in [Exps -> [Subjects -> 0 .. Buckets - 1]]
    /\ None \notin Versions \cup Pipelines \cup Positions

VARIABLES
    status,     \* of each experiment
    startedAt,
    arms,       \* ab_variants of each experiment: None where there is no row
    assigned,   \* ab_assignments: None where there is no row
    usage,      \* the tags of usage_events, and the graph the turn ran
    serves,     \* bots.pipeline_id
    current,    \* pipelines.current_version_id; None where there is no pipeline
    unsaved,    \* versions not saved yet
    now,        \* orders started_at
    req         \* what a handler in flight has read

vars == <<status, startedAt, arms, assigned, usage, serves, current, unsaved, now, req>>
abVars  == <<status, startedAt, arms, assigned>>
botVars == <<serves, current, unsaved>>

Arm == [version : Versions \cup {None}, percent : 0 .. Buckets, control : BOOLEAN]
ASSUME PayloadsAssumption ==
    None \notin Arm /\ Payloads \subseteq [Positions -> Arm \cup {None}]

Saved(v) == v \notin unsaved /\ current[PipelineOf[v]] # None

\* The graph _dag_for_bot serves; None is DEFAULT_DAG.
BotGraph == IF serves = None THEN None ELSE current[serves]
\* _dag_for_version, and _dag_for_bot for an arm without a version or whose
\* version is gone.
DagFor(version) == IF version # None /\ Saved(version) THEN version ELSE BotGraph

Present(list) == {a \in Positions : list[a] # None}
Share(list, S) == MapThenSumSet(LAMBDA a : list[a].percent, S)
Controls(list) == {a \in Present(list) : list[a].control}

\* validate_split
ValidSplit(list) ==
    /\ Share(list, Present(list)) = Buckets
    /\ Cardinality(Present(list)) >= 2
    /\ Cardinality(Controls(list)) = 1

UpTo(list, a) == {b \in Present(list) : b <= a}

\* A slip no specification uses, <= in place of <: each arm takes one bucket of
\* the next. More of these stand below, each for a property to catch.
ReachingOffByOne(list, bucket) ==
    {a \in Present(list) : bucket <= Share(list, UpTo(list, a))}

\* pick_variant: the first arm whose edge lies above the bucket, else the last.
Reaching(list, bucket) == {a \in Present(list) : bucket < Share(list, UpTo(list, a))}
Picked(list, bucket) ==
    LET reaching == Reaching(list, bucket)
    IN {a \in Present(list) :
          IF reaching # {} THEN a \in reaching /\ \A b \in reaching : a <= b
                           ELSE \A b \in Present(list) : b <= a}

Running == {e \in Exps : status[e] = "running"}
\* running_experiment: the one that started last.
Latest == {e \in Running : \A f \in Running : startedAt[f] <= startedAt[e]}

\* assign: the arm the subject has, else the one its bucket falls into.
ArmFor(e, s) == IF assigned[e][s] = None THEN Picked(arms[e], BucketOf[e][s])
                                         ELSE {assigned[e][s]}

\* analytics: for each arm that exists, the turns tagged with it and the
\* subjects assigned to it.
Analytics(e) ==
    [a \in Present(arms[e]) |-> [calls |-> {t \in usage : t.exp = e /\ t.arm = a},
                                 subjects |-> {s \in Subjects : assigned[e][s] = a}]]

Idle == [at |-> "idle"]
Free(q) == req' = [req EXCEPT ![q] = Idle]

-----------------------------------------------------------------------------
Init ==
    /\ status = [e \in Exps |-> "unborn"]
    /\ startedAt = [e \in Exps |-> 0]
    /\ arms = [e \in Exps |-> [a \in Positions |-> None]]
    /\ assigned = [e \in Exps |-> [s \in Subjects |-> None]]
    /\ usage = {}
    /\ serves = None
    /\ current = [p \in Pipelines |-> None]
    /\ unsaved = Versions
    /\ now = 0
    /\ req = [q \in Slots |-> Idle]

-----------------------------------------------------------------------------
(* Slips in the code below that no specification uses: a property that     *)
(* survives one of them would say nothing about the code.                  *)

\* Storing an assignment replaces one the subject already has.
AssignUpserting(turn) ==
    /\ turn.fresh => arms[turn.exp][turn.arm] # None
    /\ assigned' = IF turn.fresh
                   THEN [assigned EXCEPT ![turn.exp][turn.subject] = turn.arm] ELSE assigned

\* The arms are compared before the control has its version.
CheckUnpinned(q) ==
    LET e == req[q].exp IN
    /\ req[q].at = "start" /\ now < MaxStarts
    /\ ValidSplit(arms[e]) /\ Latest \subseteq {e}
    /\ now' = now + 1
    /\ \E control \in Controls(arms[e]) :
          LET own == arms[e][control].version
              pin == IF own = None THEN BotGraph ELSE None
          IN /\ \A a \in Present(arms[e]) \ {control} :
                   arms[e][a].version # own
             /\ req' = [req EXCEPT ![q] = [at |-> "pinned", exp |-> e, status |-> req[q].status,
                                           control |-> control, pin |-> pin, time |-> now + 1]]
    /\ UNCHANGED <<abVars, usage, botVars>>

\* The bot's own graph runs whenever it has one.
PrepareFromBot(q) ==
    LET turn == req[q] IN
    /\ turn.at = "turn"
    /\ req' = [req EXCEPT ![q] =
                 [at |-> "answer", exp |-> turn.exp, subject |-> turn.subject, arm |-> turn.arm,
                  fresh |-> turn.fresh,
                  graph |-> IF serves # None THEN BotGraph ELSE turn.version]]
    /\ UNCHANGED <<abVars, usage, botVars, now>>

\* A turn that could not store its assignment is answered all the same.
AnswerUnassigned(q) ==
    LET turn == req[q] IN
    /\ turn.at = "answer"
    /\ Cardinality(usage) < MaxTurns
    /\ usage' = usage \cup {[exp |-> turn.exp, subject |-> turn.subject, arm |-> turn.arm,
                            graph |-> turn.graph]}
    /\ Free(q)
    /\ UNCHANGED <<abVars, botVars, now>>

-----------------------------------------------------------------------------
(* The life of an experiment: zk2.ab.router around zk2.ab.service          *)

Create(e, payload) ==
    /\ status[e] = "unborn"
    /\ \A a \in Present(payload) : payload[a].version # None => Saved(payload[a].version)
    /\ ValidSplit(payload)
    /\ status' = [status EXCEPT ![e] = "draft"]
    /\ arms' = [arms EXCEPT ![e] = payload]
    /\ UNCHANGED <<startedAt, assigned, usage, botVars, now, req>>

\* require_experiment: the status is read here and trusted from here on. A
\* stopped experiment is refused.
OpenStart(q, e) ==
    /\ req[q] = Idle
    /\ status[e] \in {"draft", "running"}
    /\ req' = [req EXCEPT ![q] = [at |-> "start", exp |-> e, status |-> status[e]]]
    /\ UNCHANGED <<abVars, usage, botVars, now>>

\* start() up to its flush: the split, no other experiment running, and
\* _pin_control with its comparison of the arms.
Check(q) ==
    LET e == req[q].exp IN
    /\ req[q].at = "start" /\ now < MaxStarts
    /\ ValidSplit(arms[e]) /\ Latest \subseteq {e}
    /\ now' = now + 1
    /\ \E control \in Controls(arms[e]) :
          LET own == arms[e][control].version
              pin == IF own = None THEN BotGraph ELSE None
          IN /\ \A a \in Present(arms[e]) \ {control} :
                   arms[e][a].version # (IF own = None THEN pin ELSE own)
             /\ req' = [req EXCEPT ![q] = [at |-> "pinned", exp |-> e, status |-> req[q].status,
                                           control |-> control, pin |-> pin, time |-> now + 1]]
    /\ UNCHANGED <<abVars, usage, botVars>>

\* The UPDATE writes the columns that changed since they were loaded, so it
\* leaves the status of an experiment it had found running. It fails when the
\* experiment, or the control or version of a pin, has been deleted.
Start(q) ==
    LET r == req[q] IN
    /\ r.at = "pinned"
    /\ status[r.exp] # "gone"
    /\ r.pin # None => arms[r.exp][r.control] # None /\ Saved(r.pin)
    /\ status' = [status EXCEPT ![r.exp] = IF r.status = "running" THEN @ ELSE "running"]
    /\ startedAt' = [startedAt EXCEPT ![r.exp] = r.time]
    /\ arms' = IF r.pin = None THEN arms
               ELSE [arms EXCEPT ![r.exp][r.control].version = r.pin]
    /\ Free(q)
    /\ UNCHANGED <<assigned, usage, botVars, now>>

Stop(e) ==
    /\ status[e] \in {"draft", "running", "stopped"}
    /\ status' = [status EXCEPT ![e] = "stopped"]
    /\ UNCHANGED <<startedAt, arms, assigned, usage, botVars, now, req>>

OpenDelete(q, e) ==
    /\ req[q] = Idle
    /\ status[e] \in {"draft", "stopped"}
    /\ req' = [req EXCEPT ![q] = [at |-> "delete", exp |-> e]]
    /\ UNCHANGED <<abVars, usage, botVars, now>>

\* Its arms and assignments go with it (ON DELETE CASCADE).
Delete(q) ==
    LET e == req[q].exp IN
    /\ req[q].at = "delete" /\ status[e] # "gone"
    /\ status' = [status EXCEPT ![e] = "gone"]
    /\ arms' = [arms EXCEPT ![e] = [a \in Positions |-> None]]
    /\ assigned' = [assigned EXCEPT ![e] = [s \in Subjects |-> None]]
    /\ Free(q)
    /\ UNCHANGED <<startedAt, usage, botVars, now>>

Promote(e, a) ==
    /\ arms[e][a] # None /\ arms[e][a].version # None
    /\ LET v == arms[e][a].version
       IN /\ current' = [current EXCEPT ![PipelineOf[v]] = v]
          /\ serves' = PipelineOf[v]
    /\ status' = [status EXCEPT ![e] = "stopped"]
    /\ UNCHANGED <<startedAt, arms, assigned, usage, unsaved, now, req>>

-----------------------------------------------------------------------------
(* A turn of a visitor: _resolve_experiment, the graph, the answer.        *)

Resolve(q, s) ==
    /\ req[q] = Idle
    /\ \E e \in Latest :
          \E arm \in ArmFor(e, s) :
             req' = [req EXCEPT ![q] = [at |-> "turn", exp |-> e, subject |-> s, arm |-> arm,
                                        fresh |-> (assigned[e][s] = None),
                                        version |-> arms[e][arm].version]]
    /\ UNCHANGED <<abVars, usage, botVars, now>>

\* stream_rag up to the run: the graph is read again, as it now stands.
Prepare(q) ==
    LET turn == req[q] IN
    /\ turn.at = "turn"
    /\ req' = [req EXCEPT ![q] =
                 [at |-> "answer", exp |-> turn.exp, subject |-> turn.subject, arm |-> turn.arm,
                  fresh |-> turn.fresh, graph |-> DagFor(turn.version)]]
    /\ UNCHANGED <<abVars, usage, botVars, now>>

\* A new assignment needs its arm (foreign key) and no other for the subject
\* (uq_ab_assignment_subject); otherwise the turn fails.
Assign(turn) ==
    /\ turn.fresh => arms[turn.exp][turn.arm] # None /\ assigned[turn.exp][turn.subject] = None
    /\ assigned' = IF turn.fresh
                   THEN [assigned EXCEPT ![turn.exp][turn.subject] = turn.arm] ELSE assigned

Answer(q) ==
    LET turn == req[q] IN
    /\ turn.at = "answer"
    /\ Cardinality(usage) < MaxTurns
    /\ Assign(turn)
    /\ usage' = usage \cup {[exp |-> turn.exp, subject |-> turn.subject, arm |-> turn.arm,
                            graph |-> turn.graph]}
    /\ Free(q)
    /\ UNCHANGED <<status, startedAt, arms, botVars, now>>

\* The pipeline reported an error: the turn is committed without usage.
AnswerFailed(q) ==
    /\ req[q].at = "answer"
    /\ Assign(req[q])
    /\ Free(q)
    /\ UNCHANGED <<status, startedAt, arms, usage, botVars, now>>

\* Any handler may be refused or fail, and its transaction roll back.
Abandon(q) ==
    /\ req[q] # Idle
    /\ Free(q)
    /\ UNCHANGED <<abVars, usage, botVars, now>>

-----------------------------------------------------------------------------
(* What else moves the graphs: zk2.pipelines.service and patch_bot         *)

\* Seeded with its first version.
CreatePipeline(p) ==
    /\ current[p] = None /\ Initial[p] \in unsaved
    /\ unsaved' = unsaved \ {Initial[p]}
    /\ current' = [current EXCEPT ![p] = Initial[p]]
    /\ UNCHANGED <<abVars, usage, serves, now, req>>

SaveVersion(v) ==
    /\ v \in unsaved /\ current[PipelineOf[v]] # None
    /\ unsaved' = unsaved \ {v}
    /\ current' = [current EXCEPT ![PipelineOf[v]] = v]
    /\ UNCHANGED <<abVars, usage, serves, now, req>>

ActivateVersion(v) ==
    /\ Saved(v)
    /\ current' = [current EXCEPT ![PipelineOf[v]] = v]
    /\ UNCHANGED <<abVars, usage, serves, unsaved, now, req>>

\* fk_bots_pipeline refuses a pipeline that does not exist.
PatchBot(p) ==
    /\ p # None => current[p] # None
    /\ serves' = p
    /\ UNCHANGED <<abVars, usage, current, unsaved, now, req>>

OpenDeletePipeline(q, p) ==
    /\ req[q] = Idle
    /\ current[p] # None /\ serves # p
    /\ req' = [req EXCEPT ![q] = [at |-> "drop", pipeline |-> p]]
    /\ UNCHANGED <<abVars, usage, botVars, now>>

\* Its versions, the arms that run them and their assignments go with it; a
\* bot pointed at it meanwhile falls back to the built-in graph (SET NULL).
DeletePipeline(q) ==
    LET p == req[q].pipeline
        lost(e) == {a \in Present(arms[e]) : /\ arms[e][a].version # None
                                             /\ PipelineOf[arms[e][a].version] = p} IN
    /\ req[q].at = "drop" /\ current[p] # None
    /\ current' = [current EXCEPT ![p] = None]
    /\ serves' = IF serves = p THEN None ELSE serves
    /\ arms' = [e \in Exps |-> [a \in Positions |-> IF a \in lost(e) THEN None ELSE arms[e][a]]]
    /\ assigned' = [e \in Exps |-> [s \in Subjects |->
                      IF assigned[e][s] \in lost(e) THEN None ELSE assigned[e][s]]]
    /\ Free(q)
    /\ UNCHANGED <<status, startedAt, usage, unsaved, now>>

-----------------------------------------------------------------------------
Next ==
    \/ \E e \in Exps : \/ \E payload \in Payloads : Create(e, payload)
                       \/ Stop(e)
                       \/ \E a \in Positions : Promote(e, a)
    \/ \E q \in Slots : \/ \E e \in Exps : OpenStart(q, e) \/ OpenDelete(q, e)
                        \/ \E s \in Subjects : Resolve(q, s)
                        \/ \E p \in Pipelines : OpenDeletePipeline(q, p)
                        \/ Check(q) \/ Start(q) \/ Delete(q) \/ DeletePipeline(q)
                        \/ Prepare(q) \/ Answer(q) \/ AnswerFailed(q) \/ Abandon(q)
    \/ \E v \in Versions : SaveVersion(v) \/ ActivateVersion(v)
    \/ \E p \in Pipelines : CreatePipeline(p)
    \/ \E p \in Pipelines \cup {None} : PatchBot(p)

Spec == Init /\ [][Next]_vars
-----------------------------------------------------------------------------
(* Properties *)

Tags == [exp : Exps, subject : Subjects, arm : Positions, graph : Versions \cup {None}]

Reading ==
    {Idle}
    \cup [at : {"start"}, exp : Exps, status : {"draft", "running"}]
    \cup [at : {"pinned"}, exp : Exps, status : {"draft", "running"}, control : Positions,
          pin : Versions \cup {None}, time : 1 .. MaxStarts]
    \cup [at : {"delete"}, exp : Exps]
    \cup [at : {"drop"}, pipeline : Pipelines]
    \cup [at : {"turn"}, exp : Exps, subject : Subjects, arm : Positions, fresh : BOOLEAN,
          version : Versions \cup {None}]
    \cup [at : {"answer"}, exp : Exps, subject : Subjects, arm : Positions, fresh : BOOLEAN,
          graph : Versions \cup {None}]

\* Every variable keeps its shape, and a pipeline only points at its own versions.
TypeOK ==
    /\ status \in [Exps -> {"unborn", "draft", "running", "stopped", "gone"}]
    /\ startedAt \in [Exps -> 0 .. MaxStarts]
    /\ arms \in [Exps -> [Positions -> Arm \cup {None}]]
    /\ assigned \in [Exps -> [Subjects -> Positions \cup {None}]]
    /\ usage \subseteq Tags
    /\ serves \in Pipelines \cup {None}
    /\ current \in [Pipelines -> Versions \cup {None}]
    /\ \A p \in Pipelines : current[p] # None =>
          PipelineOf[current[p]] = p /\ current[p] \notin unsaved
    /\ unsaved \subseteq Versions
    /\ now \in 0 .. MaxStarts
    /\ req \in [Slots -> Reading]

\* Nobody watches the bot change (README.md): whoever has been assigned keeps
\* the arm for as long as the arm exists, through concurrent first turns,
\* starts, stops, promotions, and other arms of the experiment disappearing.
Sticky ==
    [][\A e \in Exps, s \in Subjects :
          assigned[e][s] # None =>
              \/ assigned'[e][s] = assigned[e][s]
              \/ arms'[e][assigned[e][s]] = None]_vars

\* The two halves of the statistics page agree: a turn counted under an arm
\* that still exists was asked by somebody counted as assigned to it.
TagsAgree ==
    \A e \in Exps : \A a \in Present(arms[e]) :
        \A t \in Analytics(e)[a].calls : t.subject \in Analytics(e)[a].subjects

\* What is counted under a candidate really ran the candidate's graph,
\* whatever was promoted, activated or deleted between assigning and running.
CandidatesRunTheirGraph ==
    \A t \in usage :
        LET arm == arms[t.exp][t.arm]
        IN arm # None /\ ~arm.control /\ arm.version # None => t.graph = arm.version

\* A control that has its version is never the same graph as another arm of a
\* started experiment, even when two starts pin it one after the other.
ArmsApart ==
    \A e \in Exps : startedAt[e] > 0 =>
        \A a, b \in Present(arms[e]) :
            (a # b /\ arms[e][a].control /\ arms[e][a].version # None) =>
                arms[e][a].version # arms[e][b].version

\* The hash is followed to the letter: with every arm in place, a visitor is
\* in the arm whose slice of the split holds the bucket, and an arm without
\* traffic has no visitors.
BucketsHonoured ==
    \A e \in Exps, s \in Subjects :
        LET list == arms[e]
            arm == assigned[e][s]
        IN (arm # None /\ Share(list, Present(list)) = Buckets) =>
               /\ BucketOf[e][s] < Share(list, UpTo(list, arm))
               /\ BucketOf[e][s] >= Share(list, UpTo(list, arm) \ {arm})

\* Only one experiment runs per bot: two would make both results meaningless
\* (start() and test_only_one_experiment_runs_per_bot).
OneRunning == Cardinality(Running) <= 1

\* The control's numbers come from one graph: starting pins what the control
\* runs (README.md, _pin_control).
ControlMeasuresOneGraph ==
    \A t, u \in usage :
        (t.exp = u.exp /\ t.arm = u.arm /\ t.arm \in Controls(arms[t.exp])) => t.graph = u.graph
=============================================================================
