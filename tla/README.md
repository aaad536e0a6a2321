# Verification of the zk2 RAG platform

TLA+ specifications of the zk2 platform (`src/apps/api/src/zk2`), the TLC runs that check them on
small instances, and proofs that the TLA+ proof system checks for every instance.
`PROJECT.json` lists, for every definition, the lines of code it stands for.

## The system

An organization uploads documents, points bots at them, and lets people chat with the bots. The
API is FastAPI with one SQLAlchemy transaction per request, PostgreSQL (READ COMMITTED) holds
everything including vectors and `tsvector`s, Redis holds the Arq queue and a few counters, and Arq
workers do the slow jobs. Paths below are relative to `src/apps/api/src/zk2`.

| Component | State | Operations | Talks to | What is hard |
|---|---|---|---|---|
| Document ingest job (`sources/ingest.py`, `jobs`) | the job's open transaction | extract, clear, chunk, embed, index, mark ready or failed | queue, settings, embedding provider, allowance | redelivery, crashes, two jobs of one document, errors after part of the work is flushed |
| Sources API (`sources/service.py`) | `sources`, chunks, embeddings, `tsvector`s | create, import, reindex, delete | queue, file storage | the job is queued before the row is committed |
| Organization settings (`orgs/service.py`) | `org_settings`, inserted on first use | read, edit, count stale documents, bulk reindex | sources, queue | first use by two transactions, settings edited while a job runs |
| Parsing and chunking (`sources/loaders.py`, `sources/chunking.py`) | a document on its way to chunks | read sections, pack, cut, overlap, rebalance, add breadcrumbs | ingest | budgets, strides, headings and pages that a chunk spans |
| Source tree and files (`sources/service.py`, `core/storage.py`) | ltree paths, stored files | create, import and delete, show | sources | files and rows do not share a transaction |
| A/B experiments (`ab`) | experiments, variants, assignments | create, start, stop, delete, promote, assign | pipelines, bots, chat turns, usage | check-then-write without locks, graphs that move or disappear underneath |
| Pipelines and bots (`pipelines/service.py`, `bots`) | versions, the current one, the bot's pipeline | create, save, activate, delete, patch | experiments, chat | cascades into running experiments |
| Pipeline runtime (`pipelines/dag.py`, `runtime.py`, `nodes.py`) | a run's state | validate, order, execute | retrieval, providers, agents | graph edge cases, failures as events |
| Retrieval (`retrieval`) | none | dense, BM25, fusion, reranking | PostgreSQL | rank arithmetic, the scope of a bot |
| Chat turn (`chat/rag.py`, `chat/ws.py`) | conversation, messages, the socket | authenticate, run a turn, stream events | pipeline runtime, experiments, allowance | one transaction as long as a model's answer, its locks beside a deletion's cascade, "done" before commit |
| Allowance (`core/quota.py`, `llm/registry.py`) | `usage_events`, a Redis counter with expiry | resolve a key, check, record, fill the counter | chat, ingest | cache against table, increments against commits |
| Evaluations (`evals`) | datasets, runs, scores | queue, run, score, compare | pipelines, providers | retries repeat what was done |
| Sign-in (`auth`, `core/lockout.py`, `core/rate_limit.py`) | sessions, links, Redis counters | sign in, refresh, sign out, throttle | audit | read-then-write, two-command counters |
| Invitations (`auth/invites.py`) | access requests, invitations, memberships | ask, decide, invite, accept | mail server | two deciders, a mail that leaves before the commit |
| Managed services (`ops`, `core/tracing.py`) | desired state, agent heartbeat | switch, expire, sync | host agent, tracing | a row, a flag per process and a host that must agree again after any mistake |
| Agents, provider adapters, catalog, observability, admin, plumbing, web, deployment | none, or none of their own | | | not modelled, see the last section |

**What makes each part correct.** Ingest: whatever overlaps or fails, a document's committed status
and index belong together, and a pending document is settled in the end. Chunking: no token the loader took in
is lost, no chunk claims what is not in it, none is over its budget. Tree: every row is shown, every document
has its file. Experiments: assignment is sticky, statistics are about what ran, one experiment runs
per bot. Pipelines: exactly the sound graphs run, in an order that respects their edges; a failure is
told once; an answer has read everything packed for it, and only what its bot may read. Chat: a turn
is committed whole or not at all, and the visitor was told so. Allowance: the counter follows the
rows, no call is counted twice, lending keys has a bounded cost. Evaluations: what a run says is what
its rows say. Sessions: a sign-in has one live session, limits hold. Invitations: who is a member was
invited and accepted. Managed services: a time that runs out is ended once, and what was asked for is
what runs, is shown and is traced.

`PROJECT.json` lists the hazards, at their lines, with the properties that watch them.

## Modules

| Module | What it is |
|---|---|
| `Ingest` | the ingest job, the source and settings requests, the queue and the row locks |
| `SourceLifecycle` | abstract: what readers of `sources` are promised about status and index |
| `IngestProofs` | the inductive invariant of `Ingest` and the theorems |
| `Splitting` | pure: sizing, cutting into strides, recursive splitting, overlap, rebalancing |
| `Passages` | a loader that reads any document line by line, and the chunker that packs it (extends `Splitting`) |
| `SourceTree` | directories, documents and files, created and deleted by requests that overlap |
| `SourceTreeProofs` | its inductive invariant and the theorems, the depth of the tree included |
| `Experiments` | experiments of one bot over the pipelines that change underneath |
| `ExperimentsProofs` | the inductive invariant of `Experiments` and the theorems |
| `Retrieval` | pure: what the two searches may return, rank fusion, the reranker's cut, citations |
| `Pipeline` | a graph sent by the editor: ordered, checked, walked node by node, its run stored (extends `Retrieval`) |
| `PipelineProofs` | theorems about acceptance, the order, failures, what is read and what is packed; and about the chunks of `Passages` |
| `TurnProtocol` | abstract: what one visitor sees on the socket |
| `Chat` | sockets, turns and their transactions beside a deletion of the bot and crashes |
| `ChatProofs` | the inductive invariant of `Chat`, and that it implements `TurnProtocol` |
| `Quota` | the allowance: rows, counter, calls in flight |
| `EvalMetrics` | pure: the metrics, their mean, the comparison of two runs |
| `Evals` | datasets, the request that queues a run, the worker's job, deletions meanwhile (extends `EvalMetrics`) |
| `EvalsProofs` | the inductive invariant of `Evals` and the theorems |
| `Sessions` | logins behind counters, rotated refresh tokens, magic links |
| `SessionsProofs` | theorems about its counters, sign-ins and links |
| `Invitations` | access requests, decisions, invitations, their mail and acceptance |
| `InvitationsProofs` | theorems about mail, memberships and decisions |
| `Ops` | the switch of a managed service: requests, reports, a loop in each process, the agent on the host |
| `MC...` | constants for TLC; `Chat`, `Ops` and the abstract modules need none |

### How a transaction is modelled

A variable such as `row`, `status`, `rows` or `recorded` holds what is **committed**. What a
transaction has read or flushed lives in the variables of its job or request (`mem`, `req`, `conv`).
Every await at which another transaction can change what was read is a step boundary.

In `Ingest` row locks matter, because a job holds its lock for as long as it works. `Claim` is the
flush of `UPDATE sources SET status = 'indexing'`: it waits for `lock[s]` and takes it; the lock is
freed by whatever ends the transaction. `CommitJob` publishes status and index at once, and the stamp as
SQLAlchemy does: `Take` is the SELECT and loads the stamp (`jmeta`), and the commit writes `meta` only
if the job's differs from it (`StampsWritten`). The chunking is one part of `meta`; the counts of the
text are the rest, so a job that loaded its own chunking writes it or not. `overtaken` names the sources
made ready by a job that loaded another stamp than the one in force when it committed: while the job
waited for the lock, another had committed its own. The
insert of the lazily created settings row locks its key in the same way (`settingsLock`). Arq is
external: jobs wait in `queue[s]`; an exception that leaves the job function makes it fail for good
(`outcome = "raised"`); a worker that dies has its job delivered again. `get_db` commits after the
handler has returned, so each `Enqueue` is in the handler's step and each `Commit...` a later one.

In `Chat` a turn's transaction is open from `loading` to `told`. The locks its foreign keys take are
read off where it is: `SharesBot` (a new conversation and a usage row name the bot), `SharesConv` (a
message names its conversation) and `SharesExp` (a visitor's first assignment names the experiment and
its arm). A deletion of the bot takes the bot's row (`LockBot`), then all its conversations
(`LockConversations`), then the experiments, and commits (`DeleteBot`); each step needs what it locks
free, and a turn that comes to a row it holds waits. PostgreSQL has one lock for each conversation; the
deletion takes them in one step here, which it may do because a turn holds one conversation at most.
`Record` updates the conversation, so of two turns in one conversation the second waits for the first
(`Updated`). `Deadlocked` lists the two cycles: a turn that holds its conversation and wants the bot
for its usage row, and one that holds the experiment and wants the bot or a conversation.
`DetectDeadlock` is PostgreSQL's answer, which fails either. `Commit` comes after the step that says
`done`; `CommitRaises` is a commit that is refused, or one that is made while its acknowledgement is
lost (`unheard`): the visitor then sees an error, and the turn is kept. Each socket has a visitor of its
own; two first turns of one visitor are in `Experiments`.

In `Experiments`, `Evals`, `Invitations`, `SourceTree` and `Sessions` no handler waits while holding
anything that another one decides on, so flush and commit are one step, and what a handler reads
before is a step of its own. The exception is a deletion in `SourceTree`, which waits for another:
`StartSweep` is the snapshot its `DELETE` sees, `DeleteRows` comes when the wait is over and deletes
what is still there of it. SQLAlchemy writes the columns that differ from what was loaded: `Start`
leaves the status of an experiment it found running. Foreign keys and unique constraints appear as
guards, their `ON DELETE` actions as part of the deleting step.

In `Ops` four kinds of transaction share one row, so its lock is there too: the conditional `UPDATE`
of `_expire_auto_off` waits for it if the row it sees has run out, a flush always does. `Loaded` is
`load_services`, `Flush` writes what differs from the loaded row, and the answer and the process's flag
follow the flush, before the commit. `Kept` leaves of a loaded row what its reader goes on to use.
The agent looks and sends its report in one step, since what it saw is read by nobody in between;
a command that `docker compose` runs is under way until it works, fails or dies with the agent.

In `Quota` and `Sessions` each Redis command is a step, so the process may die between `INCR` and
`EXPIRE`.

### How the rest is modelled

`Pipeline` walks one graph. Nodes share a state, as the code's do: candidates by retriever, a
selection, a packed context, an answer. A provider's answer, an agent's rounds of tools and an
exception of any node are choices. Passages are numbers with a size, a language, a source and the
embedding models they have vectors of; the searches return them in any order of relevance their
scope allows.

`Passages` reads *any* document within the bounds: each step of a loader is one line (a heading,
text, an item, the next page) that its format could yield, so the initial states times the lines are
the inputs, and the chunker that follows is the code's. A text is a sequence of tokens, each with its
line and its place, with what follows it (a blank, a line break, or nothing where the word goes on) and
whether a full stop ends it; the second break of an empty line is a token of its own. The five
separators are marks of these tokens. A word may have several tokens, and cuts that count tokens may
fall inside it, as they may in the code. An estimate of tokens from characters is the number of tokens
and the setting's `skew`. `PassOver` is the text that `_html_walk` passes over because it stands in a
container beside other structure; a title is a table of contents if its last line makes it one.

`Evals` leaves behind for a turn what `Pipeline` may leave behind, and for a judge any of `Replies`.
Each outcome and reply has a price as the code sees it (`cost`, 0 for `None`) and one as the provider
charges it (`spends`). Scores are in ten-thousandths, prices are whole numbers.

## Runs

| Run | Expect | What it shows |
|---|---|---|
| `ingest` | pass | two documents, workers and requests of every kind, a crash and an error: `ReadyIsWhole`, `NothingOutlivesItsRow`, `OneWriter`, and refinement of `SourceLifecycle` |
| `reindex` | pass | with fair workers and a crash: a pending document always has a job to come and is settled |
| `passages` | pass | every document of up to four lines under eight settings: all tokens that were taken in, in order, honest claims, budgets |
| `ops` | pass | one switch, two processes, an agent and a host: the time runs out once, and all come to agree |
| `tree` | pass | every row is shown; a row without its directory, and a document without its file, have the one cause that is possible |
| `experiments` | pass | stickiness, agreement of tags and assignments, candidates run their graph, the control's version differs from the others, buckets are honoured |
| `pipeline` | pass | 4096 three-node graphs, odd ones and five whole pipelines, with every outcome of every node: exactly the sound ones run, in order; what is stored was read; nothing is packed twice |
| `chat` | pass | answers are kept whole and when the visitor was told so; each visitor sees `TurnProtocol`; if walks end, every turn is settled, also through the deadlocks with the deletion of the bot |
| `quota` | pass | no call is counted twice; a counter in step stays in step until it expires |
| `evals` | pass | summaries, pins, regressions and prices through redelivery and deletions |
| `sessions` | pass | one live session per sign-in outside a race for one token, limits within the requests in flight, a lock has an expiry |
| `invitations` | pass | members were invited, decisions stand outside a race of two deciders, invitations were mailed |

Thirteen more configurations show a behaviour that contradicts something the repository says of itself.
They are not part of the list of runs; each is started with
`tlc -config <name>.cfg <module>.tla` and ends in a counterexample:

| Configuration | Module | Property that fails |
|---|---|---|
| `stranded` | `MCIngest` | `PendingHasAJob`: an upload's job runs before the upload commits |
| `silent` | `MCIngest` | `FailureReachesTheRow`: the first two jobs of an organization insert the settings row |
| `stale` | `MCIngest` | `StaleTellsAll`: a reindex that fails late commits its chunks under the old stamp |
| `overwritten` | `MCIngest` | `StampTellsCut`: unchanged metadata is not written over another job's stamp |
| `moving` | `MCExperiments` | `ControlMeasuresOneGraph`: the control of a bot on the built-in graph is not pinned |
| `twice` | `MCExperiments` | `OneRunning`: two drafts started together both run |
| `ceiling` | `MCQuota` | `BoundedCost`: calls that fail after the provider answered are counted nowhere |
| `poisoned` | `MCPipeline` | `NeverA500`: a swallowed database error leaves an aborted transaction to the test run's row |
| `hidden` | `MCEvals` | `CostIsReported`: a turn that failed after its provider answered has no price |
| `torn` | `MCPassages` | `WordsStayWhole`: the last two pieces are cut again, inside a word |
| `dropped` | `MCPassages` | `TextIsKept`: text beside structure in a container is never indexed |
| `fused` | `MCPassages` | `WordsStayApart`: a piece cut from a long paragraph is joined to the next without what was between them |
| `undone` | `Ops` | `ChoiceRecorded`: a service is switched on for longer while its old time runs out, and stays off |

**Bounds.** Interference here is pairwise: two jobs of a document, a job and a request, two requests.
Two of each actor therefore show every conflict of two, and a third would only repeat them; `quota`
has three calls because a fill, an increment and a commit of three different calls can meet.
Two documents are enough for a bulk request to hold one lock and wait for another. One crash and one
error suffice for `Ingest`, as each returns the job to a state it has been in. `Requests` are served
once, which bounds the histories; `stale` needs three of them, `overwritten` four, and one document. Two models and two
chunkings are needed to tell "the settings" from "other settings". `Experiments` has three arms and
a split of three parts in place of a hundred, with an arm of no traffic, so that every edge of
`pick_variant` and a gap left by a deleted arm occur; one experiment and two visitors in
`experiments`, two experiments in `twice`. `MaxStarts`, `MaxTurns`, `MaxCharged`, `MaxExpiries`,
`MaxLosses` and `MaxKeyEdits` bound what would grow for ever; the properties speak of one tag, one
counter or one call, so more of them give nothing new.

`chat`: two sockets, one turn kept before and two to come (`Earlier`, `MaxTurns`), so that a turn joins
a conversation another one made, both join one, and both meet the deletion. `pipeline`: three nodes give every cycle, diamond and unreachable sink that
Kahn's algorithm can meet one of; the whole pipelines have the built-in graph, two builders, two
answers, a reranker without a fusion, and a retriever that runs after a fusion which found nothing. `passages`: lines of 1, 5 and
12 tokens against a chunk of 10 tokens are below, above half of, and over the budget; the second has a
sentence, the third a word that no chunk has room for;
four lines allow a heading, a line under it, a sibling
and a line that follows, a table of contents, and a change of page; the settings have each strategy,
no overlap, the usual one, and one that exceeds what the breadcrumb leaves, and a document's name of
six tokens that leaves less than half of the chunk. `tree`: three nodes are a directory, one in it,
and one more; two pages make a sitemap. `evals`: two runs are a baseline and a candidate,
two items one that raises and one that does not, one mishap hits any step of either; an outcome raises
after it was paid for, and judges reply with a price. `sessions`: a
threshold of two and a limit of three are reached within six requests, with one crash and one expiry
anywhere. `ops`: one request and one mishap of any kind beside the loops, a clock of two hours for a
service switched on for one; the row's state before is the request's "on for an hour". `invitations`: two invitations for two addresses give two for one address, and one each.
Symmetry is used for workers, requests, slots, runs and calls, in runs without liveness only.

**Deadlock** is not checked where the system may really stop: `Requests` or another bound is used up,
the allowance is, or a document has been chunked. `chat`, `ops` and `pipeline` do check it: a socket can
always be reconnected, the loops run for ever, and a finished request is a stutter of `Ended`.

**Fairness.** `reindex`: `WF` of a job's steps, since the event loop runs every coroutine and a
statement returns or raises; `WF` of taking a job of each source, since workers poll the queue for
ever and while a job waits some free worker can take it; `WF` of a request's later steps, since a
handler returns or raises and `get_db` ends its transaction. Nothing is assumed about arrivals,
crashes or errors. Waiting for a row lock is fair in PostgreSQL, but weak fairness is enough here
because requests are finite in number.
`chat`: `SF` of `Serve`, the steps of a turn that touch only the database, and `AlwaysSettled` under the
premise `WalksEnd`. It has to be strong, because a turn may wait for a lock that a deletion or another
turn takes and gives back again and again (each time PostgreSQL ends a deadlock): PostgreSQL serves
those who wait for a lock in the order they came, so a turn is not passed over for ever. `WF` of the
deadlock detector, which looks after `deadlock_timeout`, and of the deletion's later steps; turns are
finite in number, so the shared locks of ever new ones cannot keep the deletion waiting. Nothing is
assumed of visitors, crashes or further deletions, and nothing of a walk: the code puts no timeout on a
turn (`chat/ws.py:190-199`) and the Gemini client has none (`llm/gemini_provider.py:26`), so a provider
that never answers keeps the turn's transaction and its locks, a deletion of the bot waits for them,
and the bot's other turns wait for the deletion. `WalksEnd` says that this does not happen; it is a
premise of the property and no fairness of the specification.
`ops`: `WF` of the loops, of the agent's turns, of what a handler does once it has begun, of a compose
command's success and of a minute that passes; `MaxMishaps` bounds what may fail before. Nothing is
assumed of super-admins or of the clock.

**Mutants.** Each property has a mutant beside the code it mutates: an operator no specification
uses, which changes one action the way a plausible slip would, and which makes the property fail.

## Proofs

Eight modules prove, for every value of the constants that satisfies the assumption of the module,
what the runs check on a small instance. Each proof has the same shape: an inductive invariant, a
lemma that the initial states have it, one lemma per action (or per group of actions that disturb the
same things) that a step keeps it, and a temporal theorem that combines them. Every invariant was
checked by TLC on the instance of the component's run before it was proved.

### Ingest

`IngestProofs`, for any sets of documents, workers, requests, models and chunkings, and any bounds:

- `TypeCorrect`, `ReadyIsAlwaysWhole`, `NothingOutlives`, `SingleWriter`: well-typedness, and the invariants of `ingest`;
- `LifecycleImplemented`: `Spec => ImplementsLifecycle`, the refinement;
- `ReindexingQueues`: where nothing is created (`"create" \notin Kinds`, as in the run `reindex`),
  `PendingHasAJob`. With creations it is false: that is the first disagreement below.

`ConstantsAssumption` only separates `None` from the rest and workers from requests. `IInv` adds to
`TypeOK` what each transaction relies on: `LockInv` (a job in a writing position holds its source's
lock, the source exists and is locked by nobody else; a marking or deleting request holds the locks of
what it will write), `CreateInv` (ids being created belong to one request and have no index),
`BuildInv` (what a job carries was cut under the one reading of the settings it carries too; with
`StampsOfCommit`, what a commit leaves unwritten is that chunking unless the source was overtaken),
`IndexInv` (the committed form of `ReadyIsWhole` and `NothingOutlivesItsRow`). `OnlyCommitsWrite`
reduces every other step to a stutter of `row`, `index` and `stamp`; the step lemmas then treat one
action each. The refinement maps `row` and `index` to themselves: commits map to `Publish`, `GiveUp`,
`Appear`, `Requeue` and `Remove`, a rolled-back creation to `Burn`, everything else to stuttering.
`QueuedInv` is about reindexing: from the moment a request has marked a source, the source's job is
queued, and nobody can settle the source in between because its row is locked.

### Experiments

`ExperimentsProofs`, for any experiments, arms, versions, pipelines, visitors, splits and handlers in
flight, with finitely many arms and each version in one pipeline (`ExperimentsAssumption`) and payloads
in the shape of arms (`PayloadsAssumption`):

- `AssignmentsAreSticky`: `Spec => Sticky`, the action property;
- `TypeCorrect`, `UsageMatchesAssignments`, `CandidateUsageIsTheCandidates`, `StartedArmsDiffer`: the
  invariants `TypeOK`, `TagsAgree`, `CandidatesRunTheirGraph` and `ArmsApart`;
- `SplitsAreHonoured`: `BucketsHonoured`.

What has to be added is what a handler in flight may rely on although the rows change under it.
`RefInv` is what foreign keys and cascades keep: an assignment names an arm that exists, an arm belongs
to a live experiment and runs a saved version, there is at most one control. `TurnInv` says that what a
turn has read of its candidate is still so or the arm is gone, `PinInv` that a start which has passed
its check still finds the arms apart from what it will pin, however many other starts come first.
`KnownInv` says that nothing refers to an experiment before it is created, and `TagInv` that every
usage row the statistics group under an arm is of a visitor who was assigned to it. The heart is
`ArmStep`: in one step of the whole system an arm that exists stays, disappears, or is a control that
gets its version. `AssignmentStep`, `SavedStep` and `RequestStep` say the same of assignments, saved
versions and handlers, and every step lemma rests on these four instead of going through all the
actions again.

`SplitInv` says that every visitor who is or is about to be assigned is where the walk of
`pick_variant` puts the bucket, and that the shares stored never exceed the buckets. The walk adds
the shares of the arms up to one, so the proof needs the laws of a sum over a set: a lemma unfolds one
element of it, and statements about all subsets of the arms carry the induction.

### Allowance

Also in `ExperimentsProofs`, whose lemmas on finite sets it uses, and therefore with names of its own
(`QuotaInit`, `QuotaNext`, `QuotaSpec`). For any finite set of calls and any sizes, limit and bounds
(`QuotaAssumption`):

- `CallsCountedOnce`: `QuotaSpec => []CountedOnce`;
- `CounterStaysInStep`: `QuotaSpec => StaysInStep`, the action property;
- `QuotaTypeCorrect`: `QuotaTypeOK`.

A counter that is filled from a sum no longer knows which calls it holds, so what is invariant is a
bound. `RowsInv`: the committed rows and the rows still to be committed were all charged. `CountInv`: the
counter and the increments still to come were all charged. Between them stands `ReadInv`: a sum that
was read is no more than the rows are now, so that writing it over the counter keeps `CountInv`.
`PayerInv` says that only calls on the deployment's key are on their way to the counter. Sums over sets
of calls are proved as cardinalities: every token of a call is an element, and disjoint sets add up.

### Pipelines

`PipelineProofs`, for any set of graphs, nodes, edges, passages and answers, odd ones included
(`PipelineAssumption`: graphs are lists of nodes and edges, passages are finitely many, and a source's
path ends in the source):

- `OrderTheorem`: `OrderRespectsEdges`;
- `ExactlySoundIsAccepted`: `AcceptsExactlySound`;
- `FailureTheorem`: `FailureIsTold`;
- `StoredAnswersReadAll`: `AnswerReadAll`;
- `NothingIsPackedTwice`: `FusedOnce`.

`OrderInv` relates the counters of Kahn's algorithm to the graph: an edge that has been discounted
starts at a placed node, and a node in the queue has no edge left to be discounted. `SoundInv` adds the
converse, that the edges still counted are those from nodes not placed, and a node is queued as soon
as there are none; then a graph that gets stuck has a set of nodes that each have a predecessor in it,
a cycle, and a graph that is ordered to its end has none, because the first node in the order of any
cycle would wait for another. `FailureInv` says that no error is among the events while the walk goes
on. `ReadInv` carries "from a document the bot may read" from the searches through fusion, reranking
and packing to the citations, and says that the last node of the order writes the answer. `FusedInv`
says that the selection holds no passage twice from a fusion until a retriever runs again, and whose
context it becomes. The lemmas about `Retrieval` are stated once: a fusion lists every candidate once
in the order of its score, a reranker permutes or cuts, packing keeps a prefix, a citation is kept once.
Sums and products over finite sets are unfolded element by element, as for the splits.

### Chunking

The second half of `PipelineProofs` is about `Passages` (its `Init`, `Next` and `Spec` are
`PassagesInit`, `PassagesNext` and `PassagesSpec`), for any document, any budget with an overlap below
it, and any error of the library's estimate in either direction (`PassagesAssumption`):

- `ChunksWithinBudget`: `WithinBudget`;
- `ClaimsAreHonest`: `HonestClaims`;
- `PassagesHolds`: the inductive invariant `PassagesInv` of both.

The splitter is proved about once, for a set of places in the document that is a parameter,
whatever follows each token: what `split_text` cuts from
a text over these tokens is again over these tokens and is within the budget (`SplitFits`). Separators,
overlap and the joining of a short tail are folds and concatenations, for which `FoldStays` and
`FlattenAll` say that a property of the parts is one of the whole. Only the last resort, slices of equal
stride (`SlicesFit`), keeps to the budget by itself; what the separators leave too long goes there.
Instantiated with `Home(section, from, to)`, the words of the document that lie under a section on some
pages, `SplitFits` says that no cut moves a word to where it does not belong.

What remains is where a word belongs. `StackInv` says that the loader's stack holds, at every line, the
headings above the next one as the document alone defines them: the nearest heading of each smaller
level, its title with the lines that continued it. `WrapInv` says when a line may continue a heading:
only straight after it, with no text collected, so that no word changes its section by a title that
grows. `LoadInv` says that what is collected is under the stack and on the page, `ChunkInv` that
segments, pack and chunks hold words of their homes in the order of the pages; a pack claims the
sections' common beginning and the pages from its first segment to its last, and by `HomeWidens` that is
a home of all its words.

### Chat

`ChatProofs`, for any set of sockets and any number of turns (`ChatAssumption`: the watched visitor is
one of them):

- `TypeCorrect`, `AnswersAreWhole` (`TurnsAreWhole`), `DonesAreKept` (`DoneMeansKept`);
- `ChatSpeaksProtocol`: `Spec => SpeaksProtocol`, the refinement, for a visitor chosen anyhow.

What has to be added: two sockets are never in, or just out of, the same turn; nothing of a turn is
stored before its commit; a conversation that a turn joins is older than the turn; while a turn is
being told, or its answer being recorded, its transaction is not aborted, so that what `told` writes
is whole; and a bot that is gone took its conversations along, so no transaction that still holds one
is left to commit (`BotInv`, from the locks of a deletion in progress). The refinement has one step per action: those of the other sockets, of the
administrator and of the database are stutters, a crash is the end of the watched socket.

### Evaluations

`EvalsProofs`, for any runs, items, files, replies of judges and outcomes of pipelines:

- `TypeCorrect`, `RunsTellTheirRows` (`RunIsItsRows`), `PinsAreHonoured` (`WhatIsPinnedIsTested`),
  `PricesAreOfOneDelivery` (`PriceIsOfOneDelivery`), `RegressionsHaveCauses` (`RegressionHasCause`).

`EvalsAssumption` says that a run asks for some metric, that the names of sources are lists, that a
judge's score is a number, and that what is read of a file is a list; the
last is true of every file and is assumed because the provers know nothing of `SelectSeq`. A worker
holds the scores of its delivery in a list, the table holds them in rows, and a delivery that died left
rows of its own. `Scoring` relates the two: what the worker holds is, in the order of the items, what
the rows of its own delivery say, one for each item it has passed. `Told` keeps that for a run that is
over, though later deliveries add rows; so does the
price: what a delivery has added up is what its own rows cost, a sum over a finite set that is unfolded
row by row.
`RowsInv` says of each row that its run is stored, that it has a number for every metric of that run,
and that its item is one the run counts when it is over, whichever delivery wrote it. Two runs over the
same items, none of which raised, then have means over equally long lists in the same order, and a sum
is no lower where no member is; the sum is the library's fold, taken apart one element at a time.

### Sign-in

`SessionsProofs`, for any finite number of requests and any limits:

- `TypeCorrect`, `LocksExpire` (`LockHasClock`), `LimitsAreKept` (`LimitsHold`), `SessionsRotate` (`OneLiveSession`).

`RateInv` and `LookInv` count: what was let through was counted first, and each refused password is
in the counter, in a request about to count it, or was lost with a process; the bound therefore has a
term for the requests in flight and one for each crash, and the requests have to be finitely many.
`RefreshInv` and `LinkInv` say that a request in the middle of a refresh holds the only session of its
sign-in that may be live, and shares it with nobody, unless `raced` names the sign-in.

### Invitations

`InvitationsProofs`, for any requests, addresses and organizations:

- `TypeCorrect`, `WhatIsCommittedIsSent` (`InvitesAreSent`), `NobodyJoinsUninvited`
  (`MembershipsAreInvites`), `DecisionsStand` (`DecisionStands`).

`Sent`: what is committed was mailed, since the commit is the last thing a request does. `Accepted`: a
membership and the invitation that was used for it are written together, and a request which saw a
membership still would see it. `Decided`: an access request is approved exactly with its invitation,
and a request that has read it open is alone with it, unless `raced` names it.

### Source tree

`SourceTreeProofs`, for any number of nodes and requests:

- `TypeCorrect`, `NobodyIsOrphanedUnraced` (`OrphansWereRaced`), `DocumentsHaveFiles` (`RowHasFile`),
  `NothingIsHidden` (`TreeShowsAll`).

`Fresh` says that an id which is taken and not committed is known to one request only; `Sweeps`, that a
deletion has listed, and then deletes, what is under its target, but for what was committed after its
listing or its snapshot;
`Places`, that the nodes of one request lie in one directory that is there or went meanwhile; `Rooted`,
that a row has its directory's row or is under one that raced. `NothingIsHidden` is about `get_tree`,
which walks from the roots: `Shallow` bounds a node's depth by its id, and the rows of each depth are
shown if those above them are, by induction on the depth.

### Managed services

Also in `SourceTreeProofs` (as `OpsInit`, `OpsNext`, `OpsSpec`), for any requests, any hours and any
number of mishaps (`OpsAssumption`: requests are neither processes nor the agent):

- `AutoOffEarned`: `OpsSpec => AutoOffIsEarned`, the action property;
- `SwitchTyped`: `OpsTypeOK`.

Neither needs fairness. `SwitchShape` says what each kind of transaction carries between its steps: what
it loaded, which columns it is going to write, what it was asked. `Claims` is the reason why the time
runs out once: whoever has something flushed holds the row's lock, and while a claim is flushed the
committed row is one whose time is up and whose service is on. The conditional `UPDATE` waits for the
lock if the row it sees has run out, and looks again when it gets it. The proof asks of each step whether
it writes the row, moves one transaction or touches only the host; `OneMoves`, `FlushStep` and
`HostStep` treat these once for all.

### Only model-checked

- Liveness under fairness: `PendingIsSettled`, `AlwaysSettled`, `Settles`.
- `WholeAndOrdered`, that the chunks hold every token and in order: it says what the splitter's
  recursion computes, piece after piece, and not only what its pieces consist of. That takes induction
  over the text and over the list of pieces, which these provers cannot do.

## Where code and documentation disagree

Each is a finding in `PROJECT.json`; 1 to 13 are shown by a configuration above.

1. **An upload can be stranded** (`stranded`). `create_file_source` and `create_url_source` queue the
   job before `get_db` commits. A worker that is faster finds no row and the job succeeds without
   doing anything. The runbook knows one cause of documents that stay pending: a worker that does not
   consume.
2. **A failed document can say nothing** (`silent`). If `get_org_settings` fails on the primary key in
   the job's transaction, `except Exception` cannot commit `FAILED`, and Arq does not retry.
3. **A stale document can look current** (`stale`). The `except` branch commits whatever was flushed,
   under the stamp of the run before.
4. **A stamp can be another job's** (`overwritten`). `_mark_ready` sets `meta`, and SQLAlchemy leaves out of
   the UPDATE what equals the row loaded before the wait for the lock. A job that cut under the settings
   it had loaded then commits its chunks under the stamp of the job that came between, and the document
   does not look stale although it is.
5. **A control may move** (`moving`). Nothing is pinned when the bot runs the built-in graph.
6. **Two experiments of one bot may run** (`twice`). `start` looks, then writes.
7. **The cost of lending keys has no bound** (`ceiling`). Only turns that succeed and documents that
   are indexed write a usage row.
8. **A test run can end in a 500** (`poisoned`). A node that swallows an error of PostgreSQL leaves its
   transaction aborted, and the row of the run is flushed into it.
9. **An evaluation can hide what it spent** (`hidden`). A turn has the price of its last answer, and none
   if it failed after the provider had answered; the runner's docstring says a run reports its cost.
10. **A word can be cut in two** (`torn`). `_rebalance_tail` joins the last two pieces and slices them at
    token positions. Without an overlap no chunk holds the word there.
11. **Text can be passed over** (`dropped`). `_html_walk` descends into a container that has structure
    and looks at elements only; a sentence that stands directly in it is lost.
12. **Two words become one** (`fused`). `_merge_with_overlap` strips every piece it returns, and when
    `_recurse` cut a long part with it, the caller's own `_merge_with_overlap` joins those pieces with
    nothing between.
13. **A switch can be lost** (`undone`). `switch` writes the columns that differ from the row it loaded. A
    service that is on, and is switched on for longer, gets a new `off_at` only; if its old time ran out
    in between, it stays off, with an audit entry that says it was switched on.
14. **An agent is silent for two minutes, not one.** The page says `no agent` after
    `AGENT_STALE_AFTER`, 120 seconds; the runbook says a minute.
15. **A failed login is not audited.** Its audit row is added to a session that the refusal rolls back.

Some behaviours the models have contradict no statement of the repository, so no property forbids
them; they are excluded by name where a property is stated (`raced`, `rolled`, `unclocked`, `unheard`):

- two refreshes of one token, or two uses of one magic link, that overlap both succeed (`Sessions`);
- two super-admins who decide one access request together both do (`Invitations`);
- a process that dies within the two commands that lock an account leaves a lock without an expiry;
  the rate limit's counter has no second `EXPIRE` to heal it (`Sessions`);
- a turn whose commit is made but not acknowledged is kept, and its visitor sees an error after `done`
  (`Chat`);
- a provider that never answers holds the turn's row locks for as long (`Chat`, see the fairness of `chat`);
- a deletion that fails after it came to the files leaves documents without one, and a file saved for
  a row that is rolled back, or deleted before it was listed, stays in the store (`SourceTree`);
- the version an evaluation run is pinned to may be deleted before the worker comes, which tests
  another graph then (`Evals`); a sum that is read before other calls are charged may be written over
  the counter after, and a counter may expire between `EXISTS` and `INCRBY` (`Quota`);
- an evaluation run is queued before its row is committed, and may stay pending (`Evals`);
- an overlap below the chunk's size but above what the breadcrumb leaves makes the stride one token:
  a document of some thousand words becomes tens of thousands of chunks (`Passages`);
- a fusion that found nothing leaves the candidates of a retriever after it to the reranker, which takes
  them list after list: a passage both searches found can be packed twice (`Pipeline`);
- calls that are admitted together overshoot the allowance, which is checked before and charged after
  (`Quota`); a socket asks about its user and membership once (`Chat`).

## What is not modelled

**Left out of a modelled component.** Renaming pipelines, bot versions, the choice of a bot's sources
(the scope is a constant of `Pipeline`) and the endpoints that only list. In loading: which lines of a
PDF are headings (a comparison of type sizes), the clean-up of characters, a JSON file of more than
10 000 items or one that is neither a list nor an object; a format's library yields any line its loader
can be given. The tools of an agent: the
loop is the library's, and its caller sees rounds, an answer or a failure. The window of days in
`Quota` (its default counts everything). The reranker's lazily loaded model, which is loaded or is
not. The audit trail, which is written and never read by what is modelled.

**Not modelled at all.** Language model and embedding adapters: translation between provider SDKs
without state of its own. Plumbing: configuration, logging, metrics, middleware. The web front end: its state is a cache of what the API
answers. Deployment: it runs the program and is not part of its logic.

**Abstractions.** Data is abstracted to what properties tell apart: an index is the model and the
chunking it was built with, a settings row two values, a passage its size and source, a password right
or wrong; text and vectors do not appear. In `Passages` a slice of tokens decodes to the text of these
tokens, and encodes to as many again: that a cut or a strip may change how the text beside it is
encoded, and that a slice through a character of several tokens decodes to a replacement character, is
left out, so a budget is kept but for what re-encoding adds. In `Evals` prices are exact; the column
rounds them to six places. In `Ops` the agent always sees its host: a look that fails, which it reports
as an error (`ops-agent.py:97-109`), is left out. In `Ops` an agent that gives a report up after 20 seconds,
while the report goes on, waits for its end. Bots and organizations do not share any of the modelled
state, so one of each is modelled, except in `Pipeline`, where a second organization's document is
what retrieval must not return.
