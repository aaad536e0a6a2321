---------------------------- MODULE IngestProofs ----------------------------
(***************************************************************************)
(* Proofs about Ingest for any sets of sources, workers and requests.      *)
(***************************************************************************)
EXTENDS Ingest, TLAPS

(* The inductive invariant. The row lock is what makes one writer of each  *)
(* source; a locked row exists, so whoever waited for a lock and finds the *)
(* row gone has nothing to write; ids being created belong to one request; *)
(* and what a job is about to publish was built under the settings it      *)
(* read, which its metadata names: the commit leaves that metadata out     *)
(* only when it is what the job loaded, which is the stamp in force unless *)
(* the source was overtaken.                                               *)
LockInv ==
    /\ \A w \in Workers : jpc[w] \in Writing => lock[jsrc[w]] = w
    /\ \A s \in Sources : lock[s] # None => Exists(s)

CreateInv ==
    \A r \in Requests :
        /\ rpc[r] = "idle" => rids[r] = {}
        /\ rpc[r] = "created" =>
              \A s \in rids[r] :
                  /\ row[s] = "unborn"
                  /\ \A q \in Requests \ {r} : rpc[q] = "created" => s \notin rids[q]

BuildInv ==
    \A w \in Workers : jpc[w] \in {"embedded", "ready"} =>
        jidx[w] = [chunking |-> jset[w].chunking, model |-> jset[w].model]

IndexInv == ReadyIsWhole /\ NothingOutlivesItsRow

IInv == TypeOK /\ LockInv /\ CreateInv /\ BuildInv /\ IndexInv
-----------------------------------------------------------------------------
(* A commit stamps a source with the chunking of the job's settings, or leaves
   the stamp alone; and what a ready job leaves alone is that chunking, when
   the stamp is still the one the job loaded. *)
LEMMA StampsOfCommit ==
  ASSUME TypeOK, NEW w \in Workers, jsrc[w] \in Sources, NEW written \in StampsWritten(w)
  PROVE  /\ written \in Chunkings \cup {None}
         /\ jpc[w] = "ready" /\ jmeta[w] = stamp[jsrc[w]] => written = jset[w].chunking
<1>1. jset[w].chunking \in Chunkings /\ stamp[jsrc[w]] \in Chunkings \cup {None}
  BY DEF TypeOK, Settings
<1>2. CASE jpc[w] # "ready"
  BY <1>1, <1>2 DEF StampsWritten
<1>3. CASE jpc[w] = "ready" /\ jmeta[w] # jset[w].chunking
  BY <1>1, <1>3 DEF StampsWritten
<1>4. CASE jpc[w] = "ready" /\ jmeta[w] = jset[w].chunking
  BY <1>1, <1>4 DEF StampsWritten
<1>5. QED
  BY <1>2, <1>3, <1>4

(* Every action keeps every variable in its type. *)
LEMMA TypeStep == TypeOK /\ [Next]_vars => TypeOK'
<1> SUFFICES ASSUME TypeOK, [Next]_vars PROVE TypeOK'
  OBVIOUS
<1> USE ConstantsAssumption DEF TypeOK, Status, Live, Index, AllKinds, JobPos, ReqPos, Writing,
        dbVars, lockVars, arqVars, jobVars, reqVars, faults
<1>1. ASSUME NEW w \in Workers, NEW s \in Sources, TakeMissing(w, s) PROVE TypeOK'
  BY <1>1 DEF TakeMissing
<1>2. ASSUME NEW w \in Workers, NEW s \in Sources, Take(w, s) PROVE TypeOK'
  BY <1>2 DEF Take
<1>3. ASSUME NEW w \in Workers, Claim(w) PROVE TypeOK'
  BY <1>3 DEF Claim
<1>4. ASSUME NEW w \in Workers, Clear(w) PROVE TypeOK'
  BY <1>4 DEF Clear
<1>5. ASSUME NEW w \in Workers, ReadSettings(w) PROVE TypeOK'
  <2>1. CASE settings = None
    BY <1>5, <2>1 DEF ReadSettings
  <2>2. CASE settings # None
    <3>1. settings \in Settings
      BY <2>2
    <3>2. QED
      BY <1>5, <2>2, <3>1 DEF ReadSettings
  <2>3. QED
    BY <2>1, <2>2
<1>6. ASSUME NEW w \in Workers, InsertSettings(w) PROVE TypeOK'
  BY <1>6 DEF InsertSettings
<1>7. ASSUME NEW w \in Workers, Chunk(w) PROVE TypeOK'
  BY <1>7 DEF Chunk, Settings
<1>8. ASSUME NEW w \in Workers, Embed(w) PROVE TypeOK'
  BY <1>8 DEF Embed, Settings
<1>9. ASSUME NEW w \in Workers, MarkReady(w) PROVE TypeOK'
  BY <1>9 DEF MarkReady
<1>10. ASSUME NEW w \in Workers, Fail(w) PROVE TypeOK'
  BY <1>10 DEF Fail
<1>11. ASSUME NEW w \in Workers, CommitJob(w) PROVE TypeOK'
  <2>1. PICK written \in StampsWritten(w) : stamp' = [stamp EXCEPT ![jsrc[w]] = written]
    BY <1>11 DEF CommitJob
  <2>2. jsrc[w] \in Sources
    BY <1>11 DEF CommitJob
  <2>3. written \in Chunkings \cup {None}
    BY <2>1, <2>2, StampsOfCommit DEF TypeOK
  <2>4. QED
    BY <1>11, <2>1, <2>3 DEF CommitJob, EndJob, Release, CommitInsert, Settings
<1>12. ASSUME NEW w \in Workers, ClaimDeleted(w) PROVE TypeOK'
  BY <1>12 DEF ClaimDeleted, Raise, EndJob, Release
<1>13. ASSUME NEW w \in Workers, InsertConflict(w) PROVE TypeOK'
  BY <1>13 DEF InsertConflict, Raise, EndJob, Release
<1>14. ASSUME NEW w \in Workers, Deadlocked(w) PROVE TypeOK'
  BY <1>14 DEF Deadlocked, Raise, EndJob, Release
<1>15. ASSUME NEW w \in Workers, JobError(w) PROVE TypeOK'
  BY <1>15 DEF JobError, Raise, EndJob, Release
<1>16. ASSUME NEW w \in Workers, Crash(w) PROVE TypeOK'
  BY <1>16 DEF Crash, EndJob, Release
<1>17. ASSUME NEW r \in Requests, NEW s \in Sources, Create(r, s) PROVE TypeOK'
  BY <1>17 DEF Create, Enqueue
<1>18. ASSUME NEW r \in Requests, NEW s \in Sources, ReindexPending(r, s) PROVE TypeOK'
  BY <1>18 DEF ReindexPending, Enqueue
<1>19. ASSUME NEW r \in Requests, NEW s \in Sources, Reindex(r, s) PROVE TypeOK'
  BY <1>19 DEF Reindex
<1>20. ASSUME NEW r \in Requests, NEW k \in Kinds, OpenSettings(r, k) PROVE TypeOK'
  BY <1>20 DEF OpenSettings, Current
<1>21. ASSUME NEW r \in Requests, NEW S \in SUBSET Sources, Delete(r, S) PROVE TypeOK'
  BY <1>21 DEF Delete
<1>22. ASSUME NEW r \in Requests, AddSettings(r) PROVE TypeOK'
  BY <1>22 DEF AddSettings
<1>23. ASSUME NEW r \in Requests, SelectBulk(r) PROVE TypeOK'
  BY <1>23 DEF SelectBulk
<1>24. ASSUME NEW r \in Requests, Mark(r) PROVE TypeOK'
  BY <1>24 DEF Mark, Enqueue
<1>25. ASSUME NEW r \in Requests, CommitCreate(r) PROVE TypeOK'
  BY <1>25 DEF CommitCreate, EndRequest, Release
<1>26. ASSUME NEW r \in Requests, CommitMark(r) PROVE TypeOK'
  BY <1>26 DEF CommitMark, EndRequest, Release, CommitInsert
<1>27. ASSUME NEW r \in Requests, CommitDelete(r) PROVE TypeOK'
  BY <1>27 DEF CommitDelete, EndRequest, Release
<1>28. ASSUME NEW r \in Requests, CommitRead(r) PROVE TypeOK'
  BY <1>28 DEF CommitRead, EndRequest, Release, CommitInsert
<1>29. ASSUME NEW r \in Requests, Rollback(r) PROVE TypeOK'
  BY <1>29 DEF Rollback, EndRequest, Release
<1>30. ASSUME NEW r \in Requests, NEW m \in Models, Edit(r, m, "model") PROVE TypeOK'
  BY <1>30 DEF Edit, Settings
<1>31. ASSUME NEW r \in Requests, NEW c \in Chunkings, Edit(r, c, "chunking") PROVE TypeOK'
  BY <1>31 DEF Edit, Settings
<1>32. ASSUME NEW r \in Requests, CommitEdit(r, "model") PROVE TypeOK'
  BY <1>32 DEF CommitEdit, EndRequest, Release, Current, Settings
<1>33. ASSUME NEW r \in Requests, CommitEdit(r, "chunking") PROVE TypeOK'
  BY <1>33 DEF CommitEdit, EndRequest, Release, Current, Settings
<1>34. CASE UNCHANGED vars
  BY <1>34 DEF vars
<1>35. QED
  BY <1>1, <1>2, <1>3, <1>4, <1>5, <1>6, <1>7, <1>8, <1>9, <1>10, <1>11,
     <1>12, <1>13, <1>14, <1>15, <1>16, <1>17, <1>18, <1>19, <1>20,
     <1>21, <1>22, <1>23, <1>24, <1>25, <1>26, <1>27, <1>28, <1>29,
     <1>30, <1>31, <1>32, <1>33, <1>34
     DEF Next, JobStep, Fault, Arrive, RequestStep

(* Locks: a claim waits for the lock, every end of a transaction frees exactly
   its own locks, and only rows that exist are locked. *)
LEMMA LockStep == TypeOK /\ LockInv /\ CreateInv /\ [Next]_vars => LockInv'
<1> SUFFICES ASSUME TypeOK /\ LockInv /\ CreateInv, [Next]_vars PROVE LockInv'
  OBVIOUS
<1> USE ConstantsAssumption DEF TypeOK, dbVars, lockVars, arqVars, jobVars, reqVars, faults, LockInv, CreateInv, Exists, Live, Writing
<1>1. ASSUME NEW w \in Workers, NEW s \in Sources, TakeMissing(w, s) PROVE LockInv'
  BY <1>1 DEF TakeMissing
<1>2. ASSUME NEW w \in Workers, NEW s \in Sources, Take(w, s) PROVE LockInv'
  BY <1>2 DEF Take
<1>3. ASSUME NEW w \in Workers, Claim(w) PROVE LockInv'
  BY <1>3 DEF Claim
<1>4. ASSUME NEW w \in Workers, Clear(w) PROVE LockInv'
  BY <1>4 DEF Clear
<1>5. ASSUME NEW w \in Workers, ReadSettings(w) PROVE LockInv'
  BY <1>5 DEF ReadSettings
<1>6. ASSUME NEW w \in Workers, InsertSettings(w) PROVE LockInv'
  BY <1>6 DEF InsertSettings
<1>7. ASSUME NEW w \in Workers, Chunk(w) PROVE LockInv'
  BY <1>7 DEF Chunk
<1>8. ASSUME NEW w \in Workers, Embed(w) PROVE LockInv'
  BY <1>8 DEF Embed
<1>9. ASSUME NEW w \in Workers, MarkReady(w) PROVE LockInv'
  BY <1>9 DEF MarkReady
<1>10. ASSUME NEW w \in Workers, Fail(w) PROVE LockInv'
  BY <1>10 DEF Fail
<1>11. ASSUME NEW w \in Workers, CommitJob(w) PROVE LockInv'
  BY <1>11 DEF CommitJob, EndJob, Release, CommitInsert
<1>12. ASSUME NEW w \in Workers, ClaimDeleted(w) PROVE LockInv'
  BY <1>12 DEF ClaimDeleted, Raise, EndJob, Release
<1>13. ASSUME NEW w \in Workers, InsertConflict(w) PROVE LockInv'
  BY <1>13 DEF InsertConflict, Raise, EndJob, Release
<1>14. ASSUME NEW w \in Workers, Deadlocked(w) PROVE LockInv'
  BY <1>14 DEF Deadlocked, Raise, EndJob, Release
<1>15. ASSUME NEW w \in Workers, JobError(w) PROVE LockInv'
  BY <1>15 DEF JobError, Raise, EndJob, Release
<1>16. ASSUME NEW w \in Workers, Crash(w) PROVE LockInv'
  BY <1>16 DEF Crash, EndJob, Release
<1>17. ASSUME NEW r \in Requests, NEW s \in Sources, Create(r, s) PROVE LockInv'
  BY <1>17 DEF Create, Enqueue
<1>18. ASSUME NEW r \in Requests, NEW s \in Sources, ReindexPending(r, s) PROVE LockInv'
  BY <1>18 DEF ReindexPending, Enqueue
<1>19. ASSUME NEW r \in Requests, NEW s \in Sources, Reindex(r, s) PROVE LockInv'
  BY <1>19 DEF Reindex
<1>20. ASSUME NEW r \in Requests, NEW k \in Kinds, OpenSettings(r, k) PROVE LockInv'
  BY <1>20 DEF OpenSettings, Current
<1>21. ASSUME NEW r \in Requests, NEW S \in SUBSET Sources, Delete(r, S) PROVE LockInv'
  BY <1>21 DEF Delete
<1>22. ASSUME NEW r \in Requests, AddSettings(r) PROVE LockInv'
  BY <1>22 DEF AddSettings
<1>23. ASSUME NEW r \in Requests, SelectBulk(r) PROVE LockInv'
  BY <1>23 DEF SelectBulk
<1>24. ASSUME NEW r \in Requests, Mark(r) PROVE LockInv'
  BY <1>24 DEF Mark, Enqueue
<1>25. ASSUME NEW r \in Requests, CommitCreate(r) PROVE LockInv'
  BY <1>25 DEF CommitCreate, EndRequest, Release
<1>26. ASSUME NEW r \in Requests, CommitMark(r) PROVE LockInv'
  BY <1>26 DEF CommitMark, EndRequest, Release, CommitInsert
<1>27. ASSUME NEW r \in Requests, CommitDelete(r) PROVE LockInv'
  BY <1>27 DEF CommitDelete, EndRequest, Release
<1>28. ASSUME NEW r \in Requests, CommitRead(r) PROVE LockInv'
  BY <1>28 DEF CommitRead, EndRequest, Release, CommitInsert
<1>29. ASSUME NEW r \in Requests, Rollback(r) PROVE LockInv'
  BY <1>29 DEF Rollback, EndRequest, Release
<1>30. ASSUME NEW r \in Requests, NEW m \in Models, Edit(r, m, "model") PROVE LockInv'
  BY <1>30 DEF Edit
<1>31. ASSUME NEW r \in Requests, NEW c \in Chunkings, Edit(r, c, "chunking") PROVE LockInv'
  BY <1>31 DEF Edit
<1>32. ASSUME NEW r \in Requests, CommitEdit(r, "model") PROVE LockInv'
  BY <1>32 DEF CommitEdit, EndRequest, Release, Current
<1>33. ASSUME NEW r \in Requests, CommitEdit(r, "chunking") PROVE LockInv'
  BY <1>33 DEF CommitEdit, EndRequest, Release, Current
<1>34. CASE UNCHANGED vars
  BY <1>34 DEF vars
<1>35. QED
  BY <1>1, <1>2, <1>3, <1>4, <1>5, <1>6, <1>7, <1>8, <1>9, <1>10, <1>11,
     <1>12, <1>13, <1>14, <1>15, <1>16, <1>17, <1>18, <1>19, <1>20,
     <1>21, <1>22, <1>23, <1>24, <1>25, <1>26, <1>27, <1>28, <1>29,
     <1>30, <1>31, <1>32, <1>33, <1>34
     DEF Next, JobStep, Fault, Arrive, RequestStep

(* A request never touches what a job holds. *)
LEMMA RequestsLeaveJobs ==
  ASSUME NEW r \in Requests, Arrive(r) \/ RequestStep(r) PROVE UNCHANGED jobVars
  BY
     DEF Create, Enqueue, ReindexPending, Reindex, OpenSettings, Current,
         Delete, AddSettings, SelectBulk, Mark, CommitCreate, EndRequest,
         Release, CommitMark, CommitInsert, CommitDelete, CommitRead,
         Rollback, Edit, CommitEdit, Arrive, RequestStep, jobVars, reqVars,
         arqVars, dbVars, lockVars, faults

(* A job never touches what a request holds. *)
LEMMA JobsLeaveRequests ==
  ASSUME NEW w \in Workers,
         (\E s \in Sources : TakeMissing(w, s) \/ Take(w, s)) \/ JobStep(w) \/ Fault(w)
  PROVE  UNCHANGED reqVars
  BY
     DEF TakeMissing, Take, Claim, Clear, ReadSettings, InsertSettings,
         Chunk, Embed, MarkReady, Fail, CommitJob, EndJob, Release,
         CommitInsert, ClaimDeleted, Raise, InsertConflict, Deadlocked,
         JobError, Crash, JobStep, Fault, jobVars, reqVars, arqVars,
         dbVars, lockVars, faults

(* Status, index and stamp are written by a commit, or given up with an id. *)
Written ==
    \/ \E w \in Workers : CommitJob(w)
    \/ \E r \in Requests : CommitCreate(r) \/ CommitMark(r) \/ CommitDelete(r) \/ Rollback(r)

(* The committed rows change only when some transaction commits, or when ids
   taken by a creation are given up. *)
LEMMA OnlyCommitsWrite == [Next]_vars => UNCHANGED <<row, index, stamp, overtaken>> \/ Written
<1> SUFFICES ASSUME [Next]_vars, ~Written PROVE UNCHANGED <<row, index, stamp, overtaken>>
  OBVIOUS
<1> USE DEF dbVars
<1>1. ASSUME NEW w \in Workers,
             (\E s \in Sources : TakeMissing(w, s) \/ Take(w, s)) \/ JobStep(w) \/ Fault(w)
      PROVE  UNCHANGED <<row, index, stamp, overtaken>>
  BY <1>1
     DEF TakeMissing, Take, Claim, Clear, ReadSettings, InsertSettings,
         Chunk, Embed, MarkReady, Fail, ClaimDeleted, Raise, EndJob,
         Release, InsertConflict, Deadlocked, JobError, Crash, Written,
         JobStep, Fault
<1>2. ASSUME NEW r \in Requests, Arrive(r) \/ RequestStep(r)
      PROVE  UNCHANGED <<row, index, stamp, overtaken>>
  BY <1>2
     DEF Create, Enqueue, ReindexPending, Reindex, OpenSettings, Current,
         Delete, AddSettings, SelectBulk, Mark, CommitRead, EndRequest,
         Release, CommitInsert, Edit, CommitEdit, Written, Arrive,
         RequestStep
<1>3. QED
  BY <1>1, <1>2 DEF Next, vars

(* Ids being created: handed out once, and not visible before the commit. *)
LEMMA CreateStep == TypeOK /\ LockInv /\ CreateInv /\ [Next]_vars => CreateInv'
<1> SUFFICES ASSUME TypeOK /\ LockInv /\ CreateInv, [Next]_vars PROVE CreateInv'
  OBVIOUS
<1> USE ConstantsAssumption DEF TypeOK, dbVars, lockVars, arqVars, jobVars, reqVars, faults, LockInv, CreateInv, Exists, Live, Writing
<1>1. ASSUME NEW r \in Requests, NEW s \in Sources, Create(r, s) PROVE CreateInv'
  BY <1>1 DEF Create, Enqueue
<1>2. ASSUME NEW r \in Requests, NEW s \in Sources, ReindexPending(r, s) PROVE CreateInv'
  BY <1>2 DEF ReindexPending, Enqueue
<1>3. ASSUME NEW r \in Requests, NEW s \in Sources, Reindex(r, s) PROVE CreateInv'
  BY <1>3 DEF Reindex
<1>4. ASSUME NEW r \in Requests, NEW k \in Kinds, OpenSettings(r, k) PROVE CreateInv'
  BY <1>4 DEF OpenSettings, Current
<1>5. ASSUME NEW r \in Requests, NEW S \in SUBSET Sources, Delete(r, S) PROVE CreateInv'
  BY <1>5 DEF Delete
<1>6. ASSUME NEW r \in Requests, AddSettings(r) PROVE CreateInv'
  BY <1>6 DEF AddSettings
<1>7. ASSUME NEW r \in Requests, SelectBulk(r) PROVE CreateInv'
  BY <1>7 DEF SelectBulk
<1>8. ASSUME NEW r \in Requests, Mark(r) PROVE CreateInv'
  BY <1>8 DEF Mark, Enqueue
<1>9. ASSUME NEW r \in Requests, CommitCreate(r) PROVE CreateInv'
  BY <1>9 DEF CommitCreate, EndRequest, Release
<1>10. ASSUME NEW r \in Requests, CommitMark(r) PROVE CreateInv'
  BY <1>10 DEF CommitMark, EndRequest, Release, CommitInsert
<1>11. ASSUME NEW r \in Requests, CommitDelete(r) PROVE CreateInv'
  BY <1>11 DEF CommitDelete, EndRequest, Release
<1>12. ASSUME NEW r \in Requests, CommitRead(r) PROVE CreateInv'
  BY <1>12 DEF CommitRead, EndRequest, Release, CommitInsert
<1>13. ASSUME NEW r \in Requests, Rollback(r) PROVE CreateInv'
  BY <1>13 DEF Rollback, EndRequest, Release
<1>14. ASSUME NEW r \in Requests, NEW m \in Models, Edit(r, m, "model") PROVE CreateInv'
  BY <1>14 DEF Edit
<1>15. ASSUME NEW r \in Requests, NEW c \in Chunkings, Edit(r, c, "chunking") PROVE CreateInv'
  BY <1>15 DEF Edit
<1>16. ASSUME NEW r \in Requests, CommitEdit(r, "model") PROVE CreateInv'
  BY <1>16 DEF CommitEdit, EndRequest, Release, Current
<1>17. ASSUME NEW r \in Requests, CommitEdit(r, "chunking") PROVE CreateInv'
  BY <1>17 DEF CommitEdit, EndRequest, Release, Current
<1>18. ASSUME NEW w \in Workers, CommitJob(w) PROVE CreateInv'
  BY <1>18, JobsLeaveRequests DEF CommitJob, JobStep
<1>19. CASE UNCHANGED reqVars /\ UNCHANGED row
  BY <1>19
<1>20. ASSUME NEW r \in Requests, Arrive(r) \/ RequestStep(r) PROVE CreateInv'
  BY <1>1, <1>2, <1>3, <1>4, <1>5, <1>6, <1>7, <1>8, <1>9, <1>10, <1>11,
     <1>12, <1>13, <1>14, <1>15, <1>16, <1>17, <1>20
     DEF Arrive, RequestStep
<1>21. ASSUME NEW w \in Workers, ~CommitJob(w),
             (\E s \in Sources : TakeMissing(w, s) \/ Take(w, s)) \/ JobStep(w) \/ Fault(w)
      PROVE  UNCHANGED row
  BY <1>21
     DEF TakeMissing, Take, Claim, Clear, ReadSettings, InsertSettings,
         Chunk, Embed, MarkReady, Fail, ClaimDeleted, Raise, EndJob,
         Release, InsertConflict, Deadlocked, JobError, Crash, JobStep,
         Fault
<1>22. QED
  BY <1>18, <1>19, <1>20, <1>21, JobsLeaveRequests DEF Next, vars

(* What a job carries to its commit comes from one reading of the settings. *)
LEMMA BuildStep == TypeOK /\ BuildInv /\ [Next]_vars => BuildInv'
<1> SUFFICES ASSUME TypeOK /\ BuildInv, [Next]_vars PROVE BuildInv'
  OBVIOUS
<1> USE ConstantsAssumption DEF TypeOK, dbVars, lockVars, arqVars, jobVars, reqVars, faults, BuildInv
<1>1. ASSUME NEW w \in Workers, NEW s \in Sources, TakeMissing(w, s) PROVE BuildInv'
  BY <1>1 DEF TakeMissing
<1>2. ASSUME NEW w \in Workers, NEW s \in Sources, Take(w, s) PROVE BuildInv'
  BY <1>2 DEF Take
<1>3. ASSUME NEW w \in Workers, Claim(w) PROVE BuildInv'
  BY <1>3 DEF Claim
<1>4. ASSUME NEW w \in Workers, Clear(w) PROVE BuildInv'
  BY <1>4 DEF Clear
<1>5. ASSUME NEW w \in Workers, ReadSettings(w) PROVE BuildInv'
  BY <1>5 DEF ReadSettings
<1>6. ASSUME NEW w \in Workers, InsertSettings(w) PROVE BuildInv'
  BY <1>6 DEF InsertSettings
<1>7. ASSUME NEW w \in Workers, Chunk(w) PROVE BuildInv'
  BY <1>7 DEF Chunk
<1>8. ASSUME NEW w \in Workers, Embed(w) PROVE BuildInv'
  BY <1>8 DEF Embed
<1>9. ASSUME NEW w \in Workers, MarkReady(w) PROVE BuildInv'
  BY <1>9 DEF MarkReady
<1>10. ASSUME NEW w \in Workers, Fail(w) PROVE BuildInv'
  BY <1>10 DEF Fail
<1>11. ASSUME NEW w \in Workers, CommitJob(w) PROVE BuildInv'
  BY <1>11 DEF CommitJob, EndJob, Release, CommitInsert
<1>12. ASSUME NEW w \in Workers, ClaimDeleted(w) PROVE BuildInv'
  BY <1>12 DEF ClaimDeleted, Raise, EndJob, Release
<1>13. ASSUME NEW w \in Workers, InsertConflict(w) PROVE BuildInv'
  BY <1>13 DEF InsertConflict, Raise, EndJob, Release
<1>14. ASSUME NEW w \in Workers, Deadlocked(w) PROVE BuildInv'
  BY <1>14 DEF Deadlocked, Raise, EndJob, Release
<1>15. ASSUME NEW w \in Workers, JobError(w) PROVE BuildInv'
  BY <1>15 DEF JobError, Raise, EndJob, Release
<1>16. ASSUME NEW w \in Workers, Crash(w) PROVE BuildInv'
  BY <1>16 DEF Crash, EndJob, Release
<1>17. CASE UNCHANGED jobVars
  BY <1>17
<1>18. QED
  BY <1>1, <1>2, <1>3, <1>4, <1>5, <1>6, <1>7, <1>8, <1>9, <1>10, <1>11,
     <1>12, <1>13, <1>14, <1>15, <1>16, <1>17,
     RequestsLeaveJobs DEF Next, JobStep, Fault, vars

(* Only a commit that holds the row lock, or creates the row, changes status
   and index; it changes them together. *)
LEMMA IndexStep == TypeOK /\ LockInv /\ CreateInv /\ BuildInv /\ IndexInv /\ [Next]_vars => IndexInv'
<1> SUFFICES ASSUME TypeOK /\ LockInv /\ CreateInv /\ BuildInv /\ IndexInv, [Next]_vars PROVE IndexInv'
  OBVIOUS
<1> USE ConstantsAssumption DEF TypeOK, IndexInv, ReadyIsWhole, NothingOutlivesItsRow,
        LockInv, CreateInv, BuildInv, Exists, Live, Writing
<1>1. ASSUME NEW w \in Workers, CommitJob(w) PROVE IndexInv'
  <2>1. PICK written \in StampsWritten(w) : stamp' = [stamp EXCEPT ![jsrc[w]] = written]
    BY <1>1 DEF CommitJob
  <2>2. jsrc[w] \in Sources /\ row[jsrc[w]] \in {"pending", "ready", "failed"}
    BY <1>1 DEF CommitJob
  <2>3. jpc[w] = "ready" /\ jmeta[w] = stamp[jsrc[w]] => written = jset[w].chunking
    BY <2>1, <2>2, StampsOfCommit DEF TypeOK
  <2>4. /\ row' = [row EXCEPT ![jsrc[w]] = jpc[w]]
        /\ index' = [index EXCEPT ![jsrc[w]] = jidx[w]]
        /\ jpc[w] \in {"ready", "failed"}
        /\ jpc[w] = "failed" => overtaken' = overtaken
        /\ jpc[w] = "ready" => overtaken' = IF jmeta[w] # stamp[jsrc[w]]
                                            THEN overtaken \cup {jsrc[w]}
                                            ELSE overtaken \ {jsrc[w]}
    BY <1>1 DEF CommitJob
  <2>5. ReadyIsWhole'
    <3> SUFFICES ASSUME NEW s \in Sources, row'[s] = "ready"
                 PROVE  /\ index'[s] # None /\ index'[s].model \in Models
                        /\ s \in overtaken' \/ index'[s].chunking = stamp'[s]
      OBVIOUS
    <3>1. CASE s # jsrc[w]
      BY <2>1, <2>2, <2>4, <3>1
    <3>2. CASE s = jsrc[w]
      <4>1. jpc[w] = "ready" /\ jidx[w] = [chunking |-> jset[w].chunking, model |-> jset[w].model]
        BY <2>2, <2>4, <3>2
      <4>2. jset[w].chunking \in Chunkings /\ jset[w].model \in Models
        BY DEF Settings
      <4>3. jidx[w] # None /\ index'[s] = jidx[w]
        BY <2>2, <2>4, <3>2, <4>1, <4>2
      <4>4. s \in overtaken' \/ stamp'[s] = jset[w].chunking
        BY <2>1, <2>2, <2>3, <2>4, <3>2, <4>1
      <4>5. QED
        BY <4>1, <4>2, <4>3, <4>4
    <3>3. QED
      BY <3>1, <3>2
  <2>6. NothingOutlivesItsRow'
    BY <2>1, <2>2, <2>4
  <2>7. QED
    BY <2>5, <2>6
<1>2. ASSUME NEW r \in Requests, CommitCreate(r) PROVE IndexInv'
  BY <1>2 DEF CommitCreate, EndRequest, Release
<1>3. ASSUME NEW r \in Requests, CommitMark(r) PROVE IndexInv'
  BY <1>3 DEF CommitMark, EndRequest, Release, CommitInsert
<1>4. ASSUME NEW r \in Requests, CommitDelete(r) PROVE IndexInv'
  BY <1>4 DEF CommitDelete, EndRequest, Release
<1>5. ASSUME NEW r \in Requests, Rollback(r) PROVE IndexInv'
  BY <1>5 DEF Rollback, EndRequest, Release
<1>6. CASE UNCHANGED <<row, index, stamp, overtaken>>
  BY <1>6
<1>7. QED
  BY <1>1, <1>2, <1>3, <1>4, <1>5, <1>6, OnlyCommitsWrite DEF Written
-----------------------------------------------------------------------------
(* The inductive invariant holds of an organization as it is found. *)
LEMMA InitInv == Init => IInv
<1> SUFFICES ASSUME Init PROVE IInv
  OBVIOUS
<1> USE ConstantsAssumption DEF Init
<1>1. TypeOK
  BY DEF TypeOK, Status, Live, Index, AllKinds, JobPos, ReqPos, Writing, Settings
<1>2. LockInv /\ CreateInv /\ BuildInv
  BY DEF LockInv, CreateInv, BuildInv, Writing
<1>3. IndexInv
  BY DEF IndexInv, ReadyIsWhole, NothingOutlivesItsRow, Exists, Live, Settings
<1>4. QED
  BY <1>1, <1>2, <1>3 DEF IInv

(* Nothing the API, the worker, a crash or an error does breaks the        *)
(* inductive invariant.                                                    *)
THEOREM Invariance == Spec => []IInv
<1>1. IInv /\ [Next]_vars => IInv'
  BY TypeStep, LockStep, CreateStep, BuildStep, IndexStep DEF IInv
<1>2. QED
  BY InitInv, <1>1, PTL DEF Spec

(* Every variable keeps its shape, whatever is queued, retried or raced.   *)
THEOREM TypeCorrect == Spec => []TypeOK
<1>1. IInv => TypeOK
  BY DEF IInv
<1>2. QED
  BY Invariance, <1>1, PTL

(* "ready" is always backed by a complete index, and its stamp is true     *)
(* unless another job replaced the stamp before the job got its lock.      *)
THEOREM ReadyIsAlwaysWhole == Spec => []ReadyIsWhole
<1>1. IInv => ReadyIsWhole
  BY DEF IInv, IndexInv
<1>2. QED
  BY Invariance, <1>1, PTL

(* No chunk outlives its source, however ingest and delete interleave.     *)
THEOREM NothingOutlives == Spec => []NothingOutlivesItsRow
<1>1. IInv => NothingOutlivesItsRow
  BY DEF IInv, IndexInv
<1>2. QED
  BY Invariance, <1>1, PTL

(* Two deliveries of one job never write the same source at the same time. *)
THEOREM SingleWriter == Spec => []OneWriter
<1>1. IInv => OneWriter
  BY DEF IInv, LockInv, OneWriter
<1>2. QED
  BY Invariance, <1>1, PTL

(* Every step of the detailed system is a step of the lifecycle, or leaves
   status and index alone. *)
LEMMA LifecycleStep == IInv /\ [Next]_vars => [Lifecycle!Next]_(Lifecycle!vars)
<1> SUFFICES ASSUME IInv, [Next]_vars PROVE [Lifecycle!Next]_(Lifecycle!vars)
  OBVIOUS
<1> USE ConstantsAssumption DEF IInv, dbVars
<1>1. ASSUME NEW w \in Workers, CommitJob(w) PROVE [Lifecycle!Next]_(Lifecycle!vars)
  <2> DEFINE s == jsrc[w]
  <2>1. s \in Sources /\ Exists(s) /\ jidx[w] \in Index \cup {None}
    BY <1>1 DEF CommitJob, TypeOK, LockInv, Writing
  <2>2. index' = [index EXCEPT ![s] = jidx[w]] /\ row' = [row EXCEPT ![s] = jpc[w]]
    BY <1>1 DEF CommitJob
  <2>3. CASE jpc[w] = "ready"
    <3>1. jidx[w] \in [chunking : Chunkings, model : Models]
      BY <2>3 DEF BuildInv, TypeOK, Settings
    <3>2. Lifecycle!Publish(s)
      BY <2>1, <2>2, <2>3, <3>1 DEF Lifecycle!Publish, Lifecycle!Whole, Lifecycle!Live, Exists, Live
    <3>3. QED
      BY <2>1, <3>2 DEF Lifecycle!Next
  <2>4. CASE jpc[w] = "failed"
    <3>1. jidx[w] \in Lifecycle!Whole \cup Lifecycle!Bare \cup {None, index[s]}
      BY <2>1 DEF Lifecycle!Whole, Lifecycle!Bare, Index
    <3>2. Lifecycle!GiveUp(s)
      BY <2>1, <2>2, <2>4, <3>1 DEF Lifecycle!GiveUp, Lifecycle!Live, Exists, Live
    <3>3. QED
      BY <2>1, <3>2 DEF Lifecycle!Next
  <2>5. QED
    BY <1>1, <2>3, <2>4 DEF CommitJob
<1>2. ASSUME NEW r \in Requests, CommitCreate(r) PROVE [Lifecycle!Next]_(Lifecycle!vars)
  <2> DEFINE S == rids[r]
  <2>1. Lifecycle!Appear(S)
    BY <1>2 DEF CommitCreate, EndRequest, Release, Lifecycle!Appear, Lifecycle!Live, CreateInv, TypeOK
  <2>2. QED
    BY <2>1, S \in SUBSET Sources DEF TypeOK, Lifecycle!Next
<1>3. ASSUME NEW r \in Requests, CommitMark(r) PROVE [Lifecycle!Next]_(Lifecycle!vars)
  <2> DEFINE S == {s \in Sources : lock[s] = r}
  <2>1. Lifecycle!Requeue(S)
    BY <1>3 DEF CommitMark, EndRequest, Release, CommitInsert, Lifecycle!Requeue, Lifecycle!Live, LockInv, Exists, Live, TypeOK
  <2>2. QED
    BY <2>1, S \in SUBSET Sources DEF TypeOK, Lifecycle!Next
<1>4. ASSUME NEW r \in Requests, CommitDelete(r) PROVE [Lifecycle!Next]_(Lifecycle!vars)
  <2> DEFINE S == {s \in Sources : lock[s] = r}
  <2>1. Lifecycle!Remove(S)
    BY <1>4 DEF CommitDelete, EndRequest, Release, Lifecycle!Remove, Lifecycle!Live, LockInv, Exists, Live, TypeOK
  <2>2. QED
    BY <2>1, S \in SUBSET Sources DEF TypeOK, Lifecycle!Next
<1>5. ASSUME NEW r \in Requests, Rollback(r) PROVE [Lifecycle!Next]_(Lifecycle!vars)
  <2> DEFINE S == {s \in Sources : rpc[r] = "created" /\ s \in rids[r]}
  <2>1. Lifecycle!Burn(S)
    BY <1>5 DEF Rollback, EndRequest, Release, Lifecycle!Burn, Lifecycle!Live, CreateInv, TypeOK
  <2>2. QED
    BY <2>1, S \in SUBSET Sources DEF TypeOK, Lifecycle!Next
<1>6. CASE UNCHANGED <<row, index, stamp, overtaken>>
  BY <1>6 DEF Lifecycle!vars
<1>7. QED
  BY <1>1, <1>2, <1>3, <1>4, <1>5, <1>6, OnlyCommitsWrite DEF Written

(* The worker, the queue and the transactions together give readers the    *)
(* abstract lifecycle.                                                     *)
THEOREM LifecycleImplemented == Spec => ImplementsLifecycle
<1>1. Init => Lifecycle!Init
  <2> SUFFICES ASSUME Init PROVE Lifecycle!Init
    OBVIOUS
  <2>1. Default.chunking \in Chunkings /\ Default.model \in Models
    BY ConstantsAssumption DEF Settings
  <2> DEFINE whole == [chunking |-> Default.chunking, model |-> Default.model]
  <2>2. whole \in Lifecycle!Whole /\ whole # None
    BY <2>1, ConstantsAssumption DEF Lifecycle!Whole
  <2>3. QED
    BY <2>2 DEF Init, Lifecycle!Init
<1>2. QED
  BY Invariance, <1>1, LifecycleStep, PTL DEF Spec, ImplementsLifecycle, Lifecycle!Spec
-----------------------------------------------------------------------------
(* Where nothing is created.  What a request has locked it marks or        *)
(* deletes; and from the marking on, every source it marked has its job,   *)
(* because nobody else can settle the source while its row is locked.      *)
HoldInv ==
    \A r \in Requests :
        /\ rpc[r] # "created"
        /\ \A s \in Sources : lock[s] = r => rpc[r] \in {"marked", "deleted"}

Promised(s)  == Outstanding(s) \/ outcome[s] = "raised"
MarkedInv    == \A r \in Requests, s \in Sources :
                    rpc[r] = "marked" /\ lock[s] = r => Promised(s)
QueuedInv    == HoldInv /\ MarkedInv /\ PendingHasAJob

(* Only marking and deleting lock rows, and every end of a request frees   *)
(* them.                                                                   *)
LEMMA HoldStep ==
  ASSUME "create" \notin Kinds PROVE TypeOK /\ HoldInv /\ [Next]_vars => HoldInv'
<1> SUFFICES ASSUME TypeOK, HoldInv, [Next]_vars PROVE HoldInv'
  OBVIOUS
<1> USE ConstantsAssumption DEF TypeOK, dbVars, lockVars, arqVars, jobVars, reqVars, faults, HoldInv
<1>1. ASSUME NEW w \in Workers, NEW s \in Sources, TakeMissing(w, s) PROVE HoldInv'
  BY <1>1 DEF TakeMissing
<1>2. ASSUME NEW w \in Workers, NEW s \in Sources, Take(w, s) PROVE HoldInv'
  BY <1>2 DEF Take
<1>3. ASSUME NEW w \in Workers, Claim(w) PROVE HoldInv'
  BY <1>3 DEF Claim
<1>4. ASSUME NEW w \in Workers, Clear(w) PROVE HoldInv'
  BY <1>4 DEF Clear
<1>5. ASSUME NEW w \in Workers, ReadSettings(w) PROVE HoldInv'
  BY <1>5 DEF ReadSettings
<1>6. ASSUME NEW w \in Workers, InsertSettings(w) PROVE HoldInv'
  BY <1>6 DEF InsertSettings
<1>7. ASSUME NEW w \in Workers, Chunk(w) PROVE HoldInv'
  BY <1>7 DEF Chunk
<1>8. ASSUME NEW w \in Workers, Embed(w) PROVE HoldInv'
  BY <1>8 DEF Embed
<1>9. ASSUME NEW w \in Workers, MarkReady(w) PROVE HoldInv'
  BY <1>9 DEF MarkReady
<1>10. ASSUME NEW w \in Workers, Fail(w) PROVE HoldInv'
  BY <1>10 DEF Fail
<1>11. ASSUME NEW w \in Workers, CommitJob(w) PROVE HoldInv'
  BY <1>11 DEF CommitJob, EndJob, Release, CommitInsert
<1>12. ASSUME NEW w \in Workers, ClaimDeleted(w) PROVE HoldInv'
  BY <1>12 DEF ClaimDeleted, Raise, EndJob, Release
<1>13. ASSUME NEW w \in Workers, InsertConflict(w) PROVE HoldInv'
  BY <1>13 DEF InsertConflict, Raise, EndJob, Release
<1>14. ASSUME NEW w \in Workers, Deadlocked(w) PROVE HoldInv'
  BY <1>14 DEF Deadlocked, Raise, EndJob, Release
<1>15. ASSUME NEW w \in Workers, JobError(w) PROVE HoldInv'
  BY <1>15 DEF JobError, Raise, EndJob, Release
<1>16. ASSUME NEW w \in Workers, Crash(w) PROVE HoldInv'
  BY <1>16 DEF Crash, EndJob, Release
<1>17. ASSUME NEW r \in Requests, NEW s \in Sources, Create(r, s) PROVE HoldInv'
  BY <1>17 DEF Create
<1>18. ASSUME NEW r \in Requests, NEW s \in Sources, ReindexPending(r, s) PROVE HoldInv'
  BY <1>18 DEF ReindexPending, Enqueue
<1>19. ASSUME NEW r \in Requests, NEW s \in Sources, Reindex(r, s) PROVE HoldInv'
  BY <1>19 DEF Reindex
<1>20. ASSUME NEW r \in Requests, NEW k \in Kinds, OpenSettings(r, k) PROVE HoldInv'
  BY <1>20 DEF OpenSettings, Current
<1>21. ASSUME NEW r \in Requests, NEW S \in SUBSET Sources, Delete(r, S) PROVE HoldInv'
  BY <1>21 DEF Delete
<1>22. ASSUME NEW r \in Requests, AddSettings(r) PROVE HoldInv'
  BY <1>22 DEF AddSettings
<1>23. ASSUME NEW r \in Requests, SelectBulk(r) PROVE HoldInv'
  BY <1>23 DEF SelectBulk
<1>24. ASSUME NEW r \in Requests, Mark(r) PROVE HoldInv'
  BY <1>24 DEF Mark, Enqueue
<1>25. ASSUME NEW r \in Requests, CommitCreate(r) PROVE HoldInv'
  BY <1>25 DEF CommitCreate, EndRequest, Release
<1>26. ASSUME NEW r \in Requests, CommitMark(r) PROVE HoldInv'
  BY <1>26 DEF CommitMark, EndRequest, Release, CommitInsert
<1>27. ASSUME NEW r \in Requests, CommitDelete(r) PROVE HoldInv'
  BY <1>27 DEF CommitDelete, EndRequest, Release
<1>28. ASSUME NEW r \in Requests, CommitRead(r) PROVE HoldInv'
  BY <1>28 DEF CommitRead, EndRequest, Release, CommitInsert
<1>29. ASSUME NEW r \in Requests, Rollback(r) PROVE HoldInv'
  BY <1>29 DEF Rollback, EndRequest, Release
<1>30. ASSUME NEW r \in Requests, NEW m \in Models, Edit(r, m, "model") PROVE HoldInv'
  BY <1>30 DEF Edit
<1>31. ASSUME NEW r \in Requests, NEW c \in Chunkings, Edit(r, c, "chunking") PROVE HoldInv'
  BY <1>31 DEF Edit
<1>32. ASSUME NEW r \in Requests, CommitEdit(r, "model") PROVE HoldInv'
  BY <1>32 DEF CommitEdit, EndRequest, Release
<1>33. ASSUME NEW r \in Requests, CommitEdit(r, "chunking") PROVE HoldInv'
  BY <1>33 DEF CommitEdit, EndRequest, Release
<1>34. CASE UNCHANGED vars
  BY <1>34 DEF vars
<1>35. QED
  BY <1>1, <1>2, <1>3, <1>4, <1>5, <1>6, <1>7, <1>8, <1>9, <1>10, <1>11,
     <1>12, <1>13, <1>14, <1>15, <1>16, <1>17, <1>18, <1>19, <1>20, <1>21,
     <1>22, <1>23, <1>24, <1>25, <1>26, <1>27, <1>28, <1>29, <1>30, <1>31,
     <1>32, <1>33, <1>34
     DEF Next, JobStep, Fault, Arrive, RequestStep

(* A source that is locked or pending keeps what was promised: a job that  *)
(* is taken is on its way, a crash puts it back, an error is an outcome,   *)
(* and only the job that holds the row's lock reports anything else.       *)
LEMMA PromiseKept ==
  ASSUME TypeOK, LockInv, [Next]_vars, NEW s \in Sources, Promised(s), Exists(s)
  PROVE  Promised(s)' \/ \E w \in Workers : CommitJob(w) /\ jsrc[w] = s
<1> USE ConstantsAssumption DEF TypeOK, dbVars, lockVars, arqVars, jobVars, reqVars, faults, LockInv,
        Promised, Outstanding
<1>1. ASSUME NEW w \in Workers, NEW d \in Sources, TakeMissing(w, d) PROVE Promised(s)' \/ \E v \in Workers : CommitJob(v) /\ jsrc[v] = s
  BY <1>1 DEF TakeMissing
<1>2. ASSUME NEW w \in Workers, NEW d \in Sources, Take(w, d) PROVE Promised(s)' \/ \E v \in Workers : CommitJob(v) /\ jsrc[v] = s
  BY <1>2 DEF Take
<1>3. ASSUME NEW w \in Workers, Claim(w) PROVE Promised(s)' \/ \E v \in Workers : CommitJob(v) /\ jsrc[v] = s
  BY <1>3 DEF Claim
<1>4. ASSUME NEW w \in Workers, Clear(w) PROVE Promised(s)' \/ \E v \in Workers : CommitJob(v) /\ jsrc[v] = s
  BY <1>4 DEF Clear
<1>5. ASSUME NEW w \in Workers, ReadSettings(w) PROVE Promised(s)' \/ \E v \in Workers : CommitJob(v) /\ jsrc[v] = s
  BY <1>5 DEF ReadSettings
<1>6. ASSUME NEW w \in Workers, InsertSettings(w) PROVE Promised(s)' \/ \E v \in Workers : CommitJob(v) /\ jsrc[v] = s
  BY <1>6 DEF InsertSettings
<1>7. ASSUME NEW w \in Workers, Chunk(w) PROVE Promised(s)' \/ \E v \in Workers : CommitJob(v) /\ jsrc[v] = s
  BY <1>7 DEF Chunk
<1>8. ASSUME NEW w \in Workers, Embed(w) PROVE Promised(s)' \/ \E v \in Workers : CommitJob(v) /\ jsrc[v] = s
  BY <1>8 DEF Embed
<1>9. ASSUME NEW w \in Workers, MarkReady(w) PROVE Promised(s)' \/ \E v \in Workers : CommitJob(v) /\ jsrc[v] = s
  BY <1>9 DEF MarkReady
<1>10. ASSUME NEW w \in Workers, Fail(w) PROVE Promised(s)' \/ \E v \in Workers : CommitJob(v) /\ jsrc[v] = s
  BY <1>10 DEF Fail
<1>11. ASSUME NEW w \in Workers, CommitJob(w) PROVE Promised(s)' \/ \E v \in Workers : CommitJob(v) /\ jsrc[v] = s
  <2>1. CASE jsrc[w] = s
    BY <1>11, <2>1
  <2>2. CASE jsrc[w] # s
    <3>1. queue' = queue /\ outcome'[s] = outcome[s]
      BY <1>11, <2>2 DEF CommitJob
    <3>2. \A v \in Workers : jsrc[v] = s => jsrc'[v] = s /\ jpc'[v] = jpc[v]
      BY <1>11, <2>2 DEF CommitJob, EndJob
    <3>3. QED
      BY <3>1, <3>2
  <2>3. QED
    BY <2>1, <2>2
<1>12. ASSUME NEW w \in Workers, ClaimDeleted(w) PROVE Promised(s)' \/ \E v \in Workers : CommitJob(v) /\ jsrc[v] = s
  BY <1>12 DEF ClaimDeleted, Raise, EndJob, Release
<1>13. ASSUME NEW w \in Workers, InsertConflict(w) PROVE Promised(s)' \/ \E v \in Workers : CommitJob(v) /\ jsrc[v] = s
  BY <1>13 DEF InsertConflict, Raise, EndJob, Release
<1>14. ASSUME NEW w \in Workers, Deadlocked(w) PROVE Promised(s)' \/ \E v \in Workers : CommitJob(v) /\ jsrc[v] = s
  BY <1>14 DEF Deadlocked, Raise, EndJob, Release
<1>15. ASSUME NEW w \in Workers, JobError(w) PROVE Promised(s)' \/ \E v \in Workers : CommitJob(v) /\ jsrc[v] = s
  BY <1>15 DEF JobError, Raise, EndJob, Release
<1>16. ASSUME NEW w \in Workers, Crash(w) PROVE Promised(s)' \/ \E v \in Workers : CommitJob(v) /\ jsrc[v] = s
  BY <1>16 DEF Crash, EndJob, Release
<1>17. ASSUME NEW r \in Requests, NEW d \in Sources, Create(r, d) PROVE Promised(s)' \/ \E v \in Workers : CommitJob(v) /\ jsrc[v] = s
  BY <1>17 DEF Create, Enqueue
<1>18. ASSUME NEW r \in Requests, NEW d \in Sources, ReindexPending(r, d) PROVE Promised(s)' \/ \E v \in Workers : CommitJob(v) /\ jsrc[v] = s
  BY <1>18 DEF ReindexPending, Enqueue
<1>19. ASSUME NEW r \in Requests, NEW d \in Sources, Reindex(r, d) PROVE Promised(s)' \/ \E v \in Workers : CommitJob(v) /\ jsrc[v] = s
  BY <1>19 DEF Reindex
<1>20. ASSUME NEW r \in Requests, NEW k \in Kinds, OpenSettings(r, k) PROVE Promised(s)' \/ \E v \in Workers : CommitJob(v) /\ jsrc[v] = s
  BY <1>20 DEF OpenSettings, Current
<1>21. ASSUME NEW r \in Requests, NEW S \in SUBSET Sources, Delete(r, S) PROVE Promised(s)' \/ \E v \in Workers : CommitJob(v) /\ jsrc[v] = s
  BY <1>21 DEF Delete
<1>22. ASSUME NEW r \in Requests, AddSettings(r) PROVE Promised(s)' \/ \E v \in Workers : CommitJob(v) /\ jsrc[v] = s
  BY <1>22 DEF AddSettings
<1>23. ASSUME NEW r \in Requests, SelectBulk(r) PROVE Promised(s)' \/ \E v \in Workers : CommitJob(v) /\ jsrc[v] = s
  BY <1>23 DEF SelectBulk
<1>24. ASSUME NEW r \in Requests, Mark(r) PROVE Promised(s)' \/ \E v \in Workers : CommitJob(v) /\ jsrc[v] = s
  BY <1>24 DEF Mark, Enqueue
<1>25. ASSUME NEW r \in Requests, CommitCreate(r) PROVE Promised(s)' \/ \E v \in Workers : CommitJob(v) /\ jsrc[v] = s
  BY <1>25 DEF CommitCreate, EndRequest, Release
<1>26. ASSUME NEW r \in Requests, CommitMark(r) PROVE Promised(s)' \/ \E v \in Workers : CommitJob(v) /\ jsrc[v] = s
  BY <1>26 DEF CommitMark, EndRequest, Release, CommitInsert
<1>27. ASSUME NEW r \in Requests, CommitDelete(r) PROVE Promised(s)' \/ \E v \in Workers : CommitJob(v) /\ jsrc[v] = s
  BY <1>27 DEF CommitDelete, EndRequest, Release
<1>28. ASSUME NEW r \in Requests, CommitRead(r) PROVE Promised(s)' \/ \E v \in Workers : CommitJob(v) /\ jsrc[v] = s
  BY <1>28 DEF CommitRead, EndRequest, Release, CommitInsert
<1>29. ASSUME NEW r \in Requests, Rollback(r) PROVE Promised(s)' \/ \E v \in Workers : CommitJob(v) /\ jsrc[v] = s
  BY <1>29 DEF Rollback, EndRequest, Release
<1>30. ASSUME NEW r \in Requests, NEW m \in Models, Edit(r, m, "model") PROVE Promised(s)' \/ \E v \in Workers : CommitJob(v) /\ jsrc[v] = s
  BY <1>30 DEF Edit
<1>31. ASSUME NEW r \in Requests, NEW c \in Chunkings, Edit(r, c, "chunking") PROVE Promised(s)' \/ \E v \in Workers : CommitJob(v) /\ jsrc[v] = s
  BY <1>31 DEF Edit
<1>32. ASSUME NEW r \in Requests, CommitEdit(r, "model") PROVE Promised(s)' \/ \E v \in Workers : CommitJob(v) /\ jsrc[v] = s
  BY <1>32 DEF CommitEdit, EndRequest, Release
<1>33. ASSUME NEW r \in Requests, CommitEdit(r, "chunking") PROVE Promised(s)' \/ \E v \in Workers : CommitJob(v) /\ jsrc[v] = s
  BY <1>33 DEF CommitEdit, EndRequest, Release
<1>34. CASE UNCHANGED vars
  BY <1>34 DEF vars
<1>35. QED
  BY <1>1, <1>2, <1>3, <1>4, <1>5, <1>6, <1>7, <1>8, <1>9, <1>10, <1>11,
     <1>12, <1>13, <1>14, <1>15, <1>16, <1>17, <1>18, <1>19, <1>20, <1>21,
     <1>22, <1>23, <1>24, <1>25, <1>26, <1>27, <1>28, <1>29, <1>30, <1>31,
     <1>32, <1>33, <1>34
     DEF Next, JobStep, Fault, Arrive, RequestStep

(* A marked row was marked under its lock and has kept it, or is marked by *)
(* this step, which queues its job.                                        *)
LEMMA MarkOrigin ==
  ASSUME TypeOK, HoldInv, [Next]_vars, NEW p \in Requests, NEW s \in Sources,
         rpc'[p] = "marked", lock'[s] = p
  PROVE  (rpc[p] = "marked" /\ lock[s] = p) \/ queue'[s] > 0
<1> USE ConstantsAssumption DEF TypeOK, dbVars, lockVars, arqVars, jobVars, reqVars, faults, HoldInv
<1>1. ASSUME NEW w \in Workers, NEW d \in Sources, TakeMissing(w, d) PROVE (rpc[p] = "marked" /\ lock[s] = p) \/ queue'[s] > 0
  BY <1>1 DEF TakeMissing
<1>2. ASSUME NEW w \in Workers, NEW d \in Sources, Take(w, d) PROVE (rpc[p] = "marked" /\ lock[s] = p) \/ queue'[s] > 0
  BY <1>2 DEF Take
<1>3. ASSUME NEW w \in Workers, Claim(w) PROVE (rpc[p] = "marked" /\ lock[s] = p) \/ queue'[s] > 0
  BY <1>3 DEF Claim
<1>4. ASSUME NEW w \in Workers, Clear(w) PROVE (rpc[p] = "marked" /\ lock[s] = p) \/ queue'[s] > 0
  BY <1>4 DEF Clear
<1>5. ASSUME NEW w \in Workers, ReadSettings(w) PROVE (rpc[p] = "marked" /\ lock[s] = p) \/ queue'[s] > 0
  BY <1>5 DEF ReadSettings
<1>6. ASSUME NEW w \in Workers, InsertSettings(w) PROVE (rpc[p] = "marked" /\ lock[s] = p) \/ queue'[s] > 0
  BY <1>6 DEF InsertSettings
<1>7. ASSUME NEW w \in Workers, Chunk(w) PROVE (rpc[p] = "marked" /\ lock[s] = p) \/ queue'[s] > 0
  BY <1>7 DEF Chunk
<1>8. ASSUME NEW w \in Workers, Embed(w) PROVE (rpc[p] = "marked" /\ lock[s] = p) \/ queue'[s] > 0
  BY <1>8 DEF Embed
<1>9. ASSUME NEW w \in Workers, MarkReady(w) PROVE (rpc[p] = "marked" /\ lock[s] = p) \/ queue'[s] > 0
  BY <1>9 DEF MarkReady
<1>10. ASSUME NEW w \in Workers, Fail(w) PROVE (rpc[p] = "marked" /\ lock[s] = p) \/ queue'[s] > 0
  BY <1>10 DEF Fail
<1>11. ASSUME NEW w \in Workers, CommitJob(w) PROVE (rpc[p] = "marked" /\ lock[s] = p) \/ queue'[s] > 0
  BY <1>11 DEF CommitJob, EndJob, Release, CommitInsert
<1>12. ASSUME NEW w \in Workers, ClaimDeleted(w) PROVE (rpc[p] = "marked" /\ lock[s] = p) \/ queue'[s] > 0
  BY <1>12 DEF ClaimDeleted, Raise, EndJob, Release
<1>13. ASSUME NEW w \in Workers, InsertConflict(w) PROVE (rpc[p] = "marked" /\ lock[s] = p) \/ queue'[s] > 0
  BY <1>13 DEF InsertConflict, Raise, EndJob, Release
<1>14. ASSUME NEW w \in Workers, Deadlocked(w) PROVE (rpc[p] = "marked" /\ lock[s] = p) \/ queue'[s] > 0
  BY <1>14 DEF Deadlocked, Raise, EndJob, Release
<1>15. ASSUME NEW w \in Workers, JobError(w) PROVE (rpc[p] = "marked" /\ lock[s] = p) \/ queue'[s] > 0
  BY <1>15 DEF JobError, Raise, EndJob, Release
<1>16. ASSUME NEW w \in Workers, Crash(w) PROVE (rpc[p] = "marked" /\ lock[s] = p) \/ queue'[s] > 0
  BY <1>16 DEF Crash, EndJob, Release
<1>17. ASSUME NEW r \in Requests, NEW d \in Sources, Create(r, d) PROVE (rpc[p] = "marked" /\ lock[s] = p) \/ queue'[s] > 0
  BY <1>17 DEF Create, Enqueue
<1>18. ASSUME NEW r \in Requests, NEW d \in Sources, ReindexPending(r, d) PROVE (rpc[p] = "marked" /\ lock[s] = p) \/ queue'[s] > 0
  BY <1>18 DEF ReindexPending, Enqueue
<1>19. ASSUME NEW r \in Requests, NEW d \in Sources, Reindex(r, d) PROVE (rpc[p] = "marked" /\ lock[s] = p) \/ queue'[s] > 0
  BY <1>19 DEF Reindex
<1>20. ASSUME NEW r \in Requests, NEW k \in Kinds, OpenSettings(r, k) PROVE (rpc[p] = "marked" /\ lock[s] = p) \/ queue'[s] > 0
  BY <1>20 DEF OpenSettings, Current
<1>21. ASSUME NEW r \in Requests, NEW S \in SUBSET Sources, Delete(r, S) PROVE (rpc[p] = "marked" /\ lock[s] = p) \/ queue'[s] > 0
  BY <1>21 DEF Delete
<1>22. ASSUME NEW r \in Requests, AddSettings(r) PROVE (rpc[p] = "marked" /\ lock[s] = p) \/ queue'[s] > 0
  BY <1>22 DEF AddSettings
<1>23. ASSUME NEW r \in Requests, SelectBulk(r) PROVE (rpc[p] = "marked" /\ lock[s] = p) \/ queue'[s] > 0
  BY <1>23 DEF SelectBulk
<1>24. ASSUME NEW r \in Requests, Mark(r) PROVE (rpc[p] = "marked" /\ lock[s] = p) \/ queue'[s] > 0
  BY <1>24 DEF Mark, Enqueue
<1>25. ASSUME NEW r \in Requests, CommitCreate(r) PROVE (rpc[p] = "marked" /\ lock[s] = p) \/ queue'[s] > 0
  BY <1>25 DEF CommitCreate, EndRequest, Release
<1>26. ASSUME NEW r \in Requests, CommitMark(r) PROVE (rpc[p] = "marked" /\ lock[s] = p) \/ queue'[s] > 0
  BY <1>26 DEF CommitMark, EndRequest, Release, CommitInsert
<1>27. ASSUME NEW r \in Requests, CommitDelete(r) PROVE (rpc[p] = "marked" /\ lock[s] = p) \/ queue'[s] > 0
  BY <1>27 DEF CommitDelete, EndRequest, Release
<1>28. ASSUME NEW r \in Requests, CommitRead(r) PROVE (rpc[p] = "marked" /\ lock[s] = p) \/ queue'[s] > 0
  BY <1>28 DEF CommitRead, EndRequest, Release, CommitInsert
<1>29. ASSUME NEW r \in Requests, Rollback(r) PROVE (rpc[p] = "marked" /\ lock[s] = p) \/ queue'[s] > 0
  BY <1>29 DEF Rollback, EndRequest, Release
<1>30. ASSUME NEW r \in Requests, NEW m \in Models, Edit(r, m, "model") PROVE (rpc[p] = "marked" /\ lock[s] = p) \/ queue'[s] > 0
  BY <1>30 DEF Edit
<1>31. ASSUME NEW r \in Requests, NEW c \in Chunkings, Edit(r, c, "chunking") PROVE (rpc[p] = "marked" /\ lock[s] = p) \/ queue'[s] > 0
  BY <1>31 DEF Edit
<1>32. ASSUME NEW r \in Requests, CommitEdit(r, "model") PROVE (rpc[p] = "marked" /\ lock[s] = p) \/ queue'[s] > 0
  BY <1>32 DEF CommitEdit, EndRequest, Release
<1>33. ASSUME NEW r \in Requests, CommitEdit(r, "chunking") PROVE (rpc[p] = "marked" /\ lock[s] = p) \/ queue'[s] > 0
  BY <1>33 DEF CommitEdit, EndRequest, Release
<1>34. CASE UNCHANGED vars
  BY <1>34 DEF vars
<1>35. QED
  BY <1>1, <1>2, <1>3, <1>4, <1>5, <1>6, <1>7, <1>8, <1>9, <1>10, <1>11,
     <1>12, <1>13, <1>14, <1>15, <1>16, <1>17, <1>18, <1>19, <1>20, <1>21,
     <1>22, <1>23, <1>24, <1>25, <1>26, <1>27, <1>28, <1>29, <1>30, <1>31,
     <1>32, <1>33, <1>34
     DEF Next, JobStep, Fault, Arrive, RequestStep

(* From the marking to its commit, what was promised is kept.              *)
LEMMA MarkedStep ==
  TypeOK /\ LockInv /\ HoldInv /\ MarkedInv /\ [Next]_vars => MarkedInv'
<1> SUFFICES ASSUME TypeOK, LockInv, HoldInv, MarkedInv, [Next]_vars,
                    NEW p \in Requests, NEW s \in Sources, rpc'[p] = "marked", lock'[s] = p
             PROVE  Promised(s)'
  BY DEF MarkedInv
<1>1. CASE queue'[s] > 0
  BY <1>1 DEF Promised, Outstanding
<1>2. CASE rpc[p] = "marked" /\ lock[s] = p
  <2>1. Promised(s) /\ Exists(s)
    BY <1>2, ConstantsAssumption DEF MarkedInv, LockInv
  <2>2. ASSUME NEW w \in Workers, CommitJob(w), jsrc[w] = s PROVE FALSE
    BY <1>2, <2>2, ConstantsAssumption DEF CommitJob, LockInv, Writing
  <2>3. QED
    BY <2>1, <2>2, PromiseKept
<1>3. QED
  BY <1>1, <1>2, MarkOrigin

(* A row becomes pending when its marking commits, and stops being so      *)
(* before its job reports.                                                 *)
LEMMA PendingStep ==
  TypeOK /\ LockInv /\ HoldInv /\ MarkedInv /\ PendingHasAJob /\ [Next]_vars => PendingHasAJob'
<1> SUFFICES ASSUME TypeOK, LockInv, HoldInv, MarkedInv, PendingHasAJob, [Next]_vars,
                    NEW s \in Sources, row'[s] = "pending"
             PROVE  Promised(s)'
  BY DEF PendingHasAJob, Promised, Outstanding
<1>1. ASSUME NEW w \in Workers, CommitJob(w) PROVE row[s] = "pending" /\ jsrc[w] # s
  BY <1>1 DEF CommitJob, TypeOK
<1>2. ASSUME NEW r \in Requests, CommitMark(r), lock[s] = r PROVE Promised(s) /\ Exists(s)
  BY <1>2, ConstantsAssumption DEF CommitMark, MarkedInv, LockInv
<1>3. ASSUME NEW r \in Requests, CommitMark(r), lock[s] # r PROVE row[s] = "pending"
  BY <1>3 DEF CommitMark, TypeOK
<1>4. ASSUME NEW r \in Requests, CommitDelete(r) \/ CommitCreate(r) \/ Rollback(r)
      PROVE  row[s] = "pending"
  BY <1>4 DEF CommitDelete, CommitCreate, Rollback, HoldInv, TypeOK
<1>5. CASE row[s] = "pending"
  <2>1. Promised(s) /\ Exists(s)
    BY <1>5 DEF PendingHasAJob, Promised, Outstanding, Exists, Live
  <2>2. ASSUME NEW w \in Workers, CommitJob(w), jsrc[w] = s PROVE FALSE
    BY <1>1, <2>2
  <2>3. QED
    BY <2>1, <2>2, PromiseKept
<1>6. ASSUME NEW r \in Requests, CommitMark(r), lock[s] = r PROVE Promised(s)'
  <2>1. ASSUME NEW w \in Workers, CommitJob(w), jsrc[w] = s PROVE FALSE
    BY <1>6, <2>1, JobsLeaveRequests DEF CommitMark, EndRequest, JobStep, reqVars, TypeOK
  <2>2. QED
    BY <1>2, <1>6, <2>1, PromiseKept
<1>7. QED
  BY <1>1, <1>3, <1>4, <1>5, <1>6, OnlyCommitsWrite DEF Written

(* A source that reindexing left pending has a job to come, or its last    *)
(* job raised: no race, crash or rollback tears the two apart.  Creation   *)
(* is excluded because it does tear them apart.                            *)
THEOREM ReindexingQueues ==
  ASSUME "create" \notin Kinds PROVE Spec => []PendingHasAJob
<1>1. Init => QueuedInv
  BY ConstantsAssumption DEF Init, QueuedInv, HoldInv, MarkedInv, PendingHasAJob
<1>2. IInv /\ QueuedInv /\ [Next]_vars => QueuedInv'
  BY HoldStep, MarkedStep, PendingStep DEF QueuedInv, IInv
<1>3. QueuedInv => PendingHasAJob
  BY DEF QueuedInv
<1>4. QED
  BY Invariance, <1>1, <1>2, <1>3, PTL DEF Spec
=============================================================================
