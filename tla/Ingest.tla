------------------------------- MODULE Ingest -------------------------------
(***************************************************************************)
(* Indexing a document: the API transactions that create, re-queue and     *)
(* delete sources and edit the settings they are indexed under, the Arq    *)
(* queue, and the worker job that turns a source into chunks, vectors and  *)
(* a tsvector in one database transaction.                                 *)
(*                                                                         *)
(* PostgreSQL runs READ COMMITTED: a variable such as row or index holds   *)
(* what is committed, a transaction's own writes sit in the variables of   *)
(* the job or request until it commits, and lock[s] is the row lock an     *)
(* UPDATE or DELETE of source s holds until then.                          *)
(***************************************************************************)
EXTENDS Naturals, FiniteSets

CONSTANTS
    Sources,      \* source ids; the id sequence never hands one out twice
    Workers,      \* job slots of the Arq workers
    Requests,     \* API requests, each one transaction served once
    Kinds,        \* the handlers those requests may call
    Models,       \* embedding models
    Chunkings,    \* chunker version, size, overlap and strategy, as one value
    Default,      \* the settings a new org_settings row gets
    None,         \* no lock holder, no index, no vectors, no stamp, no row
    MaxCrashes,   \* bound: workers lost or restarted in the middle of a job
    MaxErrors     \* bound: jobs ended by the 300 s timeout or a database error

Settings == [model : Models, chunking : Chunkings]
AllKinds == {"create", "reindex", "bulk", "settings", "delete"}

ASSUME ConstantsAssumption ==
    /\ Default \in Settings
    /\ Kinds \subseteq AllKinds
    /\ MaxCrashes \in Nat /\ MaxErrors \in Nat
    /\ None \notin Workers \cup Requests \cup Sources
    /\ None \notin Models \cup Chunkings \cup Settings
    /\ None \notin [chunking : Chunkings, model : Models \cup {None}]
    /\ Workers \cap Requests = {}

VARIABLES
    row,          \* committed status; "indexing" is only ever written uncommitted
    index,        \* committed chunks and what built them
    stamp,        \* committed metadata: the chunking _mark_ready recorded
    overtaken,    \* history: sources made ready by a job that loaded another stamp
    settings,     \* committed org_settings, None before the row exists
    lock,         \* row lock of each source
    settingsLock, \* lock of the org_settings row, or of its uncommitted insert
    queue,        \* Arq: jobs waiting per source
    outcome,      \* Arq: how the last job of a source that ended did
    jpc, jsrc, jmeta, jset, jidx,  \* job: position, source, stamp loaded with it,
                                   \* settings read, index written
    rpc, rkind, rids, rset, \* request: position, handler, sources, settings read
    crashes, errors

dbVars   == <<row, index, stamp, overtaken, settings>>
lockVars == <<lock, settingsLock>>
arqVars  == <<queue, outcome>>
jobVars  == <<jpc, jsrc, jmeta, jset, jidx>>
reqVars  == <<rpc, rkind, rids, rset>>
faults   == <<crashes, errors>>
vars     == <<dbVars, lockVars, arqVars, jobVars, reqVars, faults>>

Live   == {"pending", "ready", "failed"}
Status == Live \cup {"unborn", "gone"}
Index  == [chunking : Chunkings, model : Models \cup {None}]

\* A job holds its row lock from the flush of "indexing" to the end.
Writing == {"claimed", "cleared", "inserting", "configured", "chunked",
            "embedded", "ready", "failed"}

Exists(s) == row[s] \in Live
Current   == IF settings = None THEN Default ELSE settings

\* What _index_state reports of a source: it has vectors, and they or its
\* stamp differ from the settings.
Indexed(s)       == index[s] # None /\ index[s].model # None
Stale(s, config) == /\ Indexed(s)
                    /\ \/ index[s].model # config.model
                       \/ stamp[s] # config.chunking

-----------------------------------------------------------------------------
\* The organization starts with no source, or with sources indexed under its
\* settings, and with or without a settings row.
Init ==
    /\ row \in [Sources -> {"unborn", "ready"}]
    /\ settings \in {None, Default}
    /\ (\E s \in Sources : row[s] = "ready") => settings = Default
    /\ index = [s \in Sources |-> IF row[s] = "ready"
                                  THEN [chunking |-> Default.chunking, model |-> Default.model]
                                  ELSE None]
    /\ stamp = [s \in Sources |-> IF row[s] = "ready" THEN Default.chunking ELSE None]
    /\ overtaken = {}
    /\ lock = [s \in Sources |-> None]
    /\ settingsLock = None
    /\ queue = [s \in Sources |-> 0]
    /\ outcome = [s \in Sources |-> "none"]
    /\ jpc = [w \in Workers |-> "idle"]
    /\ jsrc = [w \in Workers |-> None]
    /\ jmeta = [w \in Workers |-> None]
    /\ jset = [w \in Workers |-> Default]
    /\ jidx = [w \in Workers |-> None]
    /\ rpc = [r \in Requests |-> "idle"]
    /\ rkind = [r \in Requests |-> "none"]
    /\ rids = [r \in Requests |-> {}]
    /\ rset = [r \in Requests |-> Default]
    /\ crashes = 0
    /\ errors = 0

-----------------------------------------------------------------------------
(* Transactions: what a commit or a rollback of x does to the locks and to *)
(* a settings row x inserted.                                              *)

Release(x) ==
    /\ lock' = [s \in Sources |-> IF lock[s] = x THEN None ELSE lock[s]]
    /\ settingsLock' = IF settingsLock = x THEN None ELSE settingsLock

\* The session and the coroutine's local variables go with the job.
EndJob(w) ==
    /\ Release(w)
    /\ jpc' = [jpc EXCEPT ![w] = "idle"]
    /\ jsrc' = [jsrc EXCEPT ![w] = None]
    /\ jmeta' = [jmeta EXCEPT ![w] = None]
    /\ jset' = [jset EXCEPT ![w] = Default]
    /\ jidx' = [jidx EXCEPT ![w] = None]

EndRequest(r) ==
    /\ Release(r)
    /\ rpc' = [rpc EXCEPT ![r] = "done"]
    /\ rkind' = [rkind EXCEPT ![r] = "none"]
    /\ rids' = [rids EXCEPT ![r] = {}]
    /\ rset' = [rset EXCEPT ![r] = Default]
    /\ UNCHANGED <<arqVars, jobVars, faults>>

\* get_org_settings added the default row: it appears with the commit.
CommitInsert(x) ==
    settings' = IF settingsLock = x /\ settings = None THEN Default ELSE settings

Enqueue(S) == queue' = [s \in Sources |-> IF s \in S THEN queue[s] + 1 ELSE queue[s]]

-----------------------------------------------------------------------------
(* What plausible slips would make of the actions below. No specification  *)
(* uses them: a property that still holds with one of these in the place   *)
(* of its action would say nothing about the code.                         *)

\* The status is not flushed before the work: the job writes without the row.
ClaimUnlocked(w) ==
    /\ jpc[w] = "loaded" /\ Exists(jsrc[w])
    /\ jpc' = [jpc EXCEPT ![w] = "claimed"]
    /\ jidx' = [jidx EXCEPT ![w] = index[jsrc[w]]]
    /\ UNCHANGED <<dbVars, lockVars, arqVars, jsrc, jmeta, jset, reqVars, faults>>

\* _mark_ready reads the settings again instead of those it chunked under.
CommitJobRereading(w) ==
    LET s == jsrc[w] IN
    /\ jpc[w] \in {"ready", "failed"}
    /\ row' = [row EXCEPT ![s] = jpc[w]]
    /\ index' = [index EXCEPT ![s] = jidx[w]]
    /\ stamp' = [stamp EXCEPT ![s] = IF jpc[w] = "ready" THEN Current.chunking ELSE @]
    /\ UNCHANGED overtaken
    /\ CommitInsert(w)
    /\ EndJob(w)
    /\ outcome' = [outcome EXCEPT ![s] = "ok"]
    /\ UNCHANGED <<queue, reqVars, faults>>

\* A job is acknowledged when it starts: a crash loses it.
CrashLosing(w) ==
    /\ jpc[w] # "idle" /\ crashes < MaxCrashes
    /\ EndJob(w)
    /\ crashes' = crashes + 1
    /\ UNCHANGED <<dbVars, arqVars, reqVars, errors>>

\* One Arq job id per source: Arq drops the job while the result of the last
\* one is kept (keep_result, an hour).
MarkDeduplicated(r) ==
    LET live == {s \in rids[r] : Exists(s)} IN
    /\ rpc[r] = "marking"
    /\ \A s \in live : lock[s] = None
    /\ rkind[r] = "reindex" => live = rids[r]
    /\ lock' = [s \in Sources |-> IF s \in live THEN r ELSE lock[s]]
    /\ Enqueue({s \in rids[r] : outcome[s] = "none"})
    /\ rpc' = [rpc EXCEPT ![r] = "marked"]
    /\ UNCHANGED <<dbVars, settingsLock, outcome, jobVars, rkind, rids, rset, faults>>

\* Marking writes back whole rows it selected, those deleted since included.
CommitMarkUpserting(r) ==
    /\ rpc[r] = "marked"
    /\ row' = [s \in Sources |-> IF s \in rids[r] THEN "pending" ELSE row[s]]
    /\ CommitInsert(r)
    /\ UNCHANGED <<index, stamp, overtaken>>
    /\ EndRequest(r)

\* The foreign key of source_chunks without ON DELETE CASCADE.
CommitDeleteLeaving(r) ==
    /\ rpc[r] = "deleted"
    /\ row' = [s \in Sources |-> IF lock[s] = r THEN "gone" ELSE row[s]]
    /\ UNCHANGED <<index, stamp, overtaken, settings>>
    /\ EndRequest(r)

-----------------------------------------------------------------------------
(* The worker: zk2.jobs.ingest_source around zk2.sources.ingest            *)

\* The job starts before its source is committed, or after it is deleted:
\* the SELECT finds nothing and the job succeeds without doing anything.
TakeMissing(w, s) ==
    /\ jpc[w] = "idle" /\ queue[s] > 0
    /\ ~Exists(s)
    /\ queue' = [queue EXCEPT ![s] = @ - 1]
    /\ outcome' = [outcome EXCEPT ![s] = "ok"]
    /\ UNCHANGED <<dbVars, lockVars, jobVars, reqVars, faults>>

Take(w, s) ==
    /\ jpc[w] = "idle" /\ queue[s] > 0
    /\ Exists(s)
    /\ queue' = [queue EXCEPT ![s] = @ - 1]
    /\ jpc' = [jpc EXCEPT ![w] = "loaded"]
    /\ jsrc' = [jsrc EXCEPT ![w] = s]
    /\ jmeta' = [jmeta EXCEPT ![w] = stamp[s]]
    /\ UNCHANGED <<dbVars, lockVars, outcome, jset, jidx, reqVars, faults>>

\* UPDATE status = 'indexing': waits for the row lock, then owns the row.
Claim(w) ==
    LET s == jsrc[w] IN
    /\ jpc[w] = "loaded"
    /\ lock[s] = None /\ Exists(s)
    /\ lock' = [lock EXCEPT ![s] = w]
    /\ jpc' = [jpc EXCEPT ![w] = "claimed"]
    /\ jidx' = [jidx EXCEPT ![w] = index[s]]
    /\ UNCHANGED <<dbVars, settingsLock, arqVars, jsrc, jmeta, jset, reqVars, faults>>

\* Text extracted, language detected, the previous chunks deleted.
Clear(w) ==
    /\ jpc[w] = "claimed"
    /\ jpc' = [jpc EXCEPT ![w] = "cleared"]
    /\ jidx' = [jidx EXCEPT ![w] = None]
    /\ UNCHANGED <<dbVars, lockVars, arqVars, jsrc, jmeta, jset, reqVars, faults>>

\* get_org_settings: the row, or a default row the job inserts itself.
ReadSettings(w) ==
    /\ jpc[w] = "cleared"
    /\ IF settings = None
       THEN /\ jpc' = [jpc EXCEPT ![w] = "inserting"]
            /\ UNCHANGED jset
       ELSE /\ jpc' = [jpc EXCEPT ![w] = "configured"]
            /\ jset' = [jset EXCEPT ![w] = settings]
    /\ UNCHANGED <<dbVars, lockVars, arqVars, jsrc, jmeta, jidx, reqVars, faults>>

InsertSettings(w) ==
    /\ jpc[w] = "inserting"
    /\ settingsLock = None /\ settings = None
    /\ settingsLock' = w
    /\ jset' = [jset EXCEPT ![w] = Default]
    /\ jpc' = [jpc EXCEPT ![w] = "configured"]
    /\ UNCHANGED <<dbVars, lock, arqVars, jsrc, jmeta, jidx, reqVars, faults>>

Chunk(w) ==
    /\ jpc[w] = "configured"
    /\ jpc' = [jpc EXCEPT ![w] = "chunked"]
    /\ jidx' = [jidx EXCEPT ![w] = [chunking |-> jset[w].chunking, model |-> None]]
    /\ UNCHANGED <<dbVars, lockVars, arqVars, jsrc, jmeta, jset, reqVars, faults>>

\* The provider is built from the same settings object the job read above.
Embed(w) ==
    /\ jpc[w] = "chunked"
    /\ jpc' = [jpc EXCEPT ![w] = "embedded"]
    /\ jidx' = [jidx EXCEPT ![w] = [chunking |-> jset[w].chunking, model |-> jset[w].model]]
    /\ UNCHANGED <<dbVars, lockVars, arqVars, jsrc, jmeta, jset, reqVars, faults>>

\* tsvector written, usage recorded, _mark_ready.
MarkReady(w) ==
    /\ jpc[w] = "embedded"
    /\ jpc' = [jpc EXCEPT ![w] = "ready"]
    /\ UNCHANGED <<dbVars, lockVars, arqVars, jsrc, jmeta, jset, jidx, reqVars, faults>>

\* `except Exception`: unreadable or empty text, no chunks, a provider or
\* allowance refusal, the allowance counter unreachable. Whatever the
\* transaction wrote so far stays in it.
Fail(w) ==
    /\ jpc[w] \in {"claimed", "configured", "chunked", "embedded"}
    /\ jpc' = [jpc EXCEPT ![w] = "failed"]
    /\ UNCHANGED <<dbVars, lockVars, arqVars, jsrc, jmeta, jset, jidx, reqVars, faults>>

\* The UPDATE of a commit writes what differs from what the SELECT of Take
\* loaded. A ready job's metadata is its chunking and what it counted in the
\* text (chunks, tokens, pages, language): when the chunking is the one it
\* loaded, the counts may be too, and then metadata is not written at all,
\* whatever another job has committed there since.
StampsWritten(w) ==
    CASE jpc[w] # "ready"            -> {stamp[jsrc[w]]}
      [] jmeta[w] # jset[w].chunking -> {jset[w].chunking}
      [] OTHER                       -> {jset[w].chunking, stamp[jsrc[w]]}

CommitJob(w) ==
    LET s == jsrc[w] IN
    /\ jpc[w] \in {"ready", "failed"}
    /\ row' = [row EXCEPT ![s] = jpc[w]]
    /\ index' = [index EXCEPT ![s] = jidx[w]]
    /\ \E written \in StampsWritten(w) : stamp' = [stamp EXCEPT ![s] = written]
    /\ overtaken' = IF jpc[w] # "ready" THEN overtaken
                    ELSE IF jmeta[w] # stamp[s] THEN overtaken \cup {s}
                    ELSE overtaken \ {s}
    /\ CommitInsert(w)
    /\ EndJob(w)
    /\ outcome' = [outcome EXCEPT ![s] = "ok"]
    /\ UNCHANGED <<queue, reqVars, faults>>

\* The job raises: its transaction rolls back, Arq keeps the failure as the
\* job's result and does not run it again.
Raise(w) ==
    /\ EndJob(w)
    /\ outcome' = [outcome EXCEPT ![jsrc[w]] = "raised"]
    /\ UNCHANGED <<dbVars, queue, reqVars>>

\* The row was deleted between the SELECT and the UPDATE (StaleDataError).
ClaimDeleted(w) ==
    /\ jpc[w] = "loaded" /\ ~Exists(jsrc[w])
    /\ Raise(w)
    /\ UNCHANGED faults

\* Another first use of the settings committed its row: unique violation.
InsertConflict(w) ==
    /\ jpc[w] = "inserting" /\ settings # None
    /\ Raise(w)
    /\ UNCHANGED faults

\* A bulk reindex that inserted the settings row waits for this job's source
\* while the job waits for the insert: PostgreSQL aborts the job.
Deadlocked(w) ==
    /\ jpc[w] = "inserting"
    /\ \E r \in Requests : /\ settingsLock = r
                           /\ rpc[r] = "marking" /\ jsrc[w] \in rids[r]
    /\ Raise(w)
    /\ UNCHANGED faults

\* job_timeout cancels the coroutine, or a statement or the commit fails.
JobError(w) ==
    /\ jpc[w] # "idle" /\ errors < MaxErrors
    /\ Raise(w)
    /\ errors' = errors + 1
    /\ UNCHANGED crashes

\* The worker stops or dies: PostgreSQL rolls back, Arq delivers again.
Crash(w) ==
    /\ jpc[w] # "idle" /\ crashes < MaxCrashes
    /\ EndJob(w)
    /\ queue' = [queue EXCEPT ![jsrc[w]] = @ + 1]
    /\ crashes' = crashes + 1
    /\ UNCHANGED <<dbVars, outcome, reqVars, errors>>

-----------------------------------------------------------------------------
(* The API: one transaction per request, committed after the handler has   *)
(* returned, so every enqueue_ingest happens before the commit.            *)

\* create_file_source and create_url_source; import_sitemap repeats the
\* latter inside one transaction.
Create(r, s) ==
    /\ "create" \in Kinds
    /\ rpc[r] \in {"idle", "created"}
    /\ row[s] = "unborn" /\ \A q \in Requests : rpc[q] = "created" => s \notin rids[q]
    /\ Enqueue({s})
    /\ rids' = [rids EXCEPT ![r] = @ \cup {s}]
    /\ rkind' = [rkind EXCEPT ![r] = "create"]
    /\ rpc' = [rpc EXCEPT ![r] = "created"]
    /\ UNCHANGED <<dbVars, lockVars, outcome, jobVars, rset, faults>>

\* reindex_source of a row that is pending already: nothing to flush.
ReindexPending(r, s) ==
    /\ "reindex" \in Kinds
    /\ rpc[r] = "idle" /\ row[s] = "pending"
    /\ Enqueue({s})
    /\ rpc' = [rpc EXCEPT ![r] = "done"]
    /\ UNCHANGED <<dbVars, lockVars, outcome, jobVars, rkind, rids, rset, faults>>

Reindex(r, s) ==
    /\ "reindex" \in Kinds
    /\ rpc[r] = "idle" /\ row[s] \in {"ready", "failed"}
    /\ rpc' = [rpc EXCEPT ![r] = "marking"]
    /\ rkind' = [rkind EXCEPT ![r] = "reindex"]
    /\ rids' = [rids EXCEPT ![r] = {s}]
    /\ UNCHANGED <<dbVars, lockVars, arqVars, jobVars, rset, faults>>

\* queue_reindex and the settings handlers begin with get_org_settings.
OpenSettings(r, k) ==
    /\ k \in Kinds \cap {"bulk", "settings"}
    /\ rpc[r] = "idle"
    /\ rkind' = [rkind EXCEPT ![r] = k]
    /\ rset' = [rset EXCEPT ![r] = Current]
    /\ rpc' = [rpc EXCEPT ![r] = IF settings = None THEN "inserting" ELSE "configured"]
    /\ UNCHANGED <<dbVars, lockVars, arqVars, jobVars, rids, faults>>

AddSettings(r) ==
    /\ rpc[r] = "inserting"
    /\ settingsLock = None /\ settings = None
    /\ settingsLock' = r
    /\ rpc' = [rpc EXCEPT ![r] = "configured"]
    /\ UNCHANGED <<dbVars, lock, arqVars, jobVars, rkind, rids, rset, faults>>

\* queue_reindex picks every document, or those that are stale.
SelectBulk(r) ==
    /\ rpc[r] = "configured" /\ rkind[r] = "bulk"
    /\ \E only_stale \in BOOLEAN :
          rids' = [rids EXCEPT ![r] =
                     {s \in Sources : Exists(s) /\ (only_stale => Stale(s, rset[r]))}]
    /\ rpc' = [rpc EXCEPT ![r] = "marking"]
    /\ UNCHANGED <<dbVars, lockVars, arqVars, jobVars, rkind, rset, faults>>

\* UPDATE status = 'pending' of the rows that still exist, then one job for
\* each id selected. reindex_source raises when its row is gone.
Mark(r) ==
    LET live == {s \in rids[r] : Exists(s)} IN
    /\ rpc[r] = "marking"
    /\ \A s \in live : lock[s] = None
    /\ rkind[r] = "reindex" => live = rids[r]
    /\ lock' = [s \in Sources |-> IF s \in live THEN r ELSE lock[s]]
    /\ Enqueue(rids[r])
    /\ rpc' = [rpc EXCEPT ![r] = "marked"]
    /\ UNCHANGED <<dbVars, settingsLock, outcome, jobVars, rkind, rids, rset, faults>>

\* update_embedding_settings and update_chunking_settings: the UPDATE writes
\* the columns that changed and holds the settings row.
Edit(r, value, column) ==
    /\ rpc[r] = "configured" /\ rkind[r] = "settings"
    /\ settingsLock \in {None, r}
    /\ rset[r][column] # value
    /\ settingsLock' = r
    /\ rset' = [rset EXCEPT ![r][column] = value]
    /\ rpc' = [rpc EXCEPT ![r] = column]
    /\ UNCHANGED <<dbVars, lock, arqVars, jobVars, rkind, rids, faults>>

\* delete_source: a document, or every document under a directory.
Delete(r, S) ==
    /\ "delete" \in Kinds
    /\ rpc[r] = "idle" /\ S # {}
    /\ \A s \in S : Exists(s) /\ lock[s] = None
    /\ lock' = [s \in Sources |-> IF s \in S THEN r ELSE lock[s]]
    /\ rpc' = [rpc EXCEPT ![r] = "deleted"]
    /\ UNCHANGED <<dbVars, settingsLock, arqVars, jobVars, rkind, rids, rset, faults>>

CommitCreate(r) ==
    /\ rpc[r] = "created"
    /\ row' = [s \in Sources |-> IF s \in rids[r] THEN "pending" ELSE row[s]]
    /\ UNCHANGED <<index, stamp, overtaken, settings>>
    /\ EndRequest(r)

CommitMark(r) ==
    /\ rpc[r] = "marked"
    /\ row' = [s \in Sources |-> IF lock[s] = r THEN "pending" ELSE row[s]]
    /\ CommitInsert(r)
    /\ UNCHANGED <<index, stamp, overtaken>>
    /\ EndRequest(r)

\* The chunks, their vectors and tsvectors go with the row (ON DELETE CASCADE).
CommitDelete(r) ==
    /\ rpc[r] = "deleted"
    /\ row' = [s \in Sources |-> IF lock[s] = r THEN "gone" ELSE row[s]]
    /\ index' = [s \in Sources |-> IF lock[s] = r THEN None ELSE index[s]]
    /\ stamp' = [s \in Sources |-> IF lock[s] = r THEN None ELSE stamp[s]]
    /\ UNCHANGED <<overtaken, settings>>
    /\ EndRequest(r)

CommitEdit(r, column) ==
    /\ rpc[r] = column
    /\ settings' = [Current EXCEPT ![column] = rset[r][column]]
    /\ UNCHANGED <<row, index, stamp, overtaken>>
    /\ EndRequest(r)

\* Reading the settings page is enough to insert the row.
CommitRead(r) ==
    /\ rpc[r] = "configured" /\ rkind[r] = "settings"
    /\ CommitInsert(r)
    /\ UNCHANGED <<row, index, stamp, overtaken>>
    /\ EndRequest(r)

\* An error in the handler or in the commit. Jobs already queued stay queued,
\* and an id taken from the sequence is not handed out again.
Rollback(r) ==
    /\ rpc[r] \notin {"idle", "done"}
    /\ row' = [s \in Sources |-> IF rpc[r] = "created" /\ s \in rids[r] THEN "gone" ELSE row[s]]
    /\ UNCHANGED <<index, stamp, overtaken, settings>>
    /\ EndRequest(r)

-----------------------------------------------------------------------------
JobStep(w) ==
    \/ Claim(w) \/ Clear(w) \/ ReadSettings(w) \/ InsertSettings(w) \/ Chunk(w)
    \/ Embed(w) \/ MarkReady(w) \/ Fail(w) \/ CommitJob(w)
    \/ ClaimDeleted(w) \/ InsertConflict(w) \/ Deadlocked(w)

Fault(w) == JobError(w) \/ Crash(w)

Arrive(r) ==
    \/ \E s \in Sources : Create(r, s) \/ ReindexPending(r, s) \/ Reindex(r, s)
    \/ \E k \in Kinds : OpenSettings(r, k)
    \/ \E S \in SUBSET Sources : Delete(r, S)

RequestStep(r) ==
    \/ AddSettings(r) \/ SelectBulk(r) \/ Mark(r)
    \/ \E m \in Models : Edit(r, m, "model")
    \/ \E c \in Chunkings : Edit(r, c, "chunking")
    \/ CommitCreate(r) \/ CommitMark(r) \/ CommitDelete(r) \/ CommitRead(r)
    \/ CommitEdit(r, "model") \/ CommitEdit(r, "chunking")
    \/ Rollback(r)

Next ==
    \/ \E w \in Workers : \/ \E s \in Sources : TakeMissing(w, s) \/ Take(w, s)
                          \/ JobStep(w) \/ Fault(w)
    \/ \E r \in Requests : Arrive(r) \/ RequestStep(r)

Spec == Init /\ [][Next]_vars

\* Arq polls and the event loop runs every coroutine; a request handler
\* always returns or raises. Faults and new requests need not happen.
Fairness ==
    /\ \A w \in Workers : WF_vars(JobStep(w))
    /\ \A s \in Sources : WF_vars(\E w \in Workers : TakeMissing(w, s) \/ Take(w, s))
    /\ \A r \in Requests : WF_vars(RequestStep(r))

FairSpec == Spec /\ Fairness
-----------------------------------------------------------------------------
(* Properties *)

JobPos == {"idle", "loaded"} \cup Writing
ReqPos == {"idle", "created", "inserting", "configured", "marking", "marked",
           "model", "chunking", "deleted", "done"}

\* Every variable keeps its shape; queue lengths never go below zero.
TypeOK ==
    /\ row \in [Sources -> Status]
    /\ index \in [Sources -> Index \cup {None}]
    /\ stamp \in [Sources -> Chunkings \cup {None}]
    /\ overtaken \subseteq Sources
    /\ settings \in Settings \cup {None}
    /\ lock \in [Sources -> Workers \cup Requests \cup {None}]
    /\ settingsLock \in Workers \cup Requests \cup {None}
    /\ queue \in [Sources -> Nat]
    /\ outcome \in [Sources -> {"none", "ok", "raised"}]
    /\ jpc \in [Workers -> JobPos]
    /\ jsrc \in [Workers -> Sources \cup {None}]
    /\ \A w \in Workers : jpc[w] # "idle" => jsrc[w] \in Sources
    /\ jmeta \in [Workers -> Chunkings \cup {None}]
    /\ jset \in [Workers -> Settings]
    /\ jidx \in [Workers -> Index \cup {None}]
    /\ rpc \in [Requests -> ReqPos]
    /\ rkind \in [Requests -> AllKinds \cup {"none"}]
    /\ rids \in [Requests -> SUBSET Sources]
    /\ rset \in [Requests -> Settings]
    /\ crashes \in 0 .. MaxCrashes
    /\ errors \in 0 .. MaxErrors

\* "ready" is only ever committed together with a complete index, whichever
\* jobs, crashes and reindex requests it overlapped with; and the stamp says
\* how that index was cut, whatever the settings became while the job ran,
\* unless another job replaced the stamp between the job's SELECT and its lock.
ReadyIsWhole ==
    \A s \in Sources : row[s] = "ready" =>
        /\ index[s] # None /\ index[s].model \in Models
        /\ s \in overtaken \/ index[s].chunking = stamp[s]

\* The stamp tells how a ready document was cut, without exception: what the
\* docstring of _mark_ready says of it. An unchanged metadata column that is
\* not written leaves another job's stamp over this job's chunks.
StampTellsCut ==
    \A s \in Sources : row[s] = "ready" => index[s].chunking = stamp[s]

\* Chunks and vectors never outlive their source: a job that was running when
\* the source was deleted cannot write them back.
NothingOutlivesItsRow ==
    \A s \in Sources : ~Exists(s) => index[s] = None /\ stamp[s] = None

\* At most one transaction writes a source, and it holds the row lock: two
\* deliveries of the same job never interleave their chunks.
OneWriter ==
    \A w \in Workers : jpc[w] \in Writing =>
        /\ lock[jsrc[w]] = w
        /\ \A v \in Workers \ {w} : jpc[v] \in Writing => jsrc[v] # jsrc[w]

Outstanding(s) == \/ queue[s] > 0
                  \/ \E w \in Workers : jpc[w] # "idle" /\ jsrc[w] = s

\* A source shown as pending has a job to come, or one that raised: marking
\* it and queueing its job cannot be torn apart. Holds for reindexing; the
\* creation handlers break it, because their job can run before the commit.
PendingHasAJob ==
    \A s \in Sources : row[s] = "pending" => Outstanding(s) \/ outcome[s] = "raised"

\* A document whose last job raised says so in its row once nothing more is
\* going to happen to it (docs/runbooks/incident-response.md).
FailureReachesTheRow ==
    \A s \in Sources :
        (outcome[s] = "raised" /\ Exists(s) /\ ~Outstanding(s)) => row[s] # "pending"

\* An indexed document that is not reported stale was built exactly under the
\* current settings (the docstrings of orgs/service.py and _mark_ready).
StaleTellsAll ==
    \A s \in Sources :
        (Exists(s) /\ Indexed(s) /\ ~Stale(s, Current)) =>
            index[s] = [chunking |-> Current.chunking, model |-> Current.model]

\* Readers are given the abstract lifecycle of a source.
Lifecycle == INSTANCE SourceLifecycle
ImplementsLifecycle == Lifecycle!Spec

\* A pending source with a job to come is settled: indexed, failed or deleted,
\* unless its job raised. Redelivery after a crash is part of the way there.
PendingIsSettled ==
    \A s \in Sources :
        (row[s] = "pending" /\ Outstanding(s)) ~> (row[s] # "pending" \/ outcome[s] = "raised")
=============================================================================
