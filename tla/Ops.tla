-------------------------------- MODULE Ops ---------------------------------
(***************************************************************************)
(* The switch of a managed service, zk2/ops: a row with what a super-admin *)
(* asked for and what the host's agent saw; requests, the agent's reports  *)
(* and a loop in each process that read it, run its time out and keep the  *)
(* process's own flag, which says whether to trace; and the agent itself,  *)
(* scripts/ops-agent.py, which closes the gap on the host.                 *)
(*                                                                         *)
(* Each reader is one READ COMMITTED transaction.  A request, and a        *)
(* report, is answered before its transaction commits.                     *)
(***************************************************************************)
EXTENDS Integers

CONSTANTS
    Requests,       \* slots for requests of super-admins
    Hours,          \* what "for N hours" may be
    MaxHour,        \* bound: the clock
    MaxRequests,    \* bound: requests
    MaxMishaps      \* bound: failures, restarts, containers that die

ASSUME OpsAssumption ==
    /\ Hours \subseteq Nat \ {0} /\ {MaxHour, MaxRequests, MaxMishaps} \subseteq Nat
    /\ Requests \cap {"api", "worker", "report", "nobody"} = {}

Procs == {"api", "worker"}              \* each has its loop, follow_langfuse_switch
Transactions == Requests \cup Procs \cup {"report"}
Nobody == "nobody"

VARIABLES
    row,            \* the committed row of managed_services
    lock,           \* who holds the lock of the row
    tx,             \* each transaction: [pc, seen, put, ask, claimed]; claimed
                    \* is the audit entry ops.service_auto_off it commits
    off,            \* per process: _langfuse_switched_off
    now,            \* the hour; 0 as an off_at is NULL
    containers,     \* what runs on the host
    agent,          \* [pc, observed, told], one turn of its main loop
    action,         \* the compose command it has started: [want, ends]
    failed,         \* a compose command failed less than a minute ago
    requests, mishaps

opsVars == <<row, lock, tx, off, now, containers, agent, action, failed, requests, mishaps>>

ManagedService ==
    [desired : {"on", "off"}, offAt : Nat,
     observed : {"", "running", "stopped", "partial", "starting", "stopping", "error"}]

Nothing == <<>>     \* no column to write
Idle == [pc |-> "idle", seen |-> Nothing, put |-> Nothing, ask |-> Nothing, claimed |-> FALSE]
NoAction == [want |-> "", ends |-> ""]
AtRest == [pc |-> "idle", observed |-> "", told |-> ""]

\* The service runs, was switched on for a time, and all agree on it.
OpsInit ==
    /\ \E h \in Hours : row = [desired |-> "on", offAt |-> 1 + h, observed |-> "running"]
    /\ lock = Nobody /\ tx = [t \in Transactions |-> Idle]
    /\ off = [p \in Procs |-> FALSE] /\ now = 1
    /\ containers = "running" /\ agent = AtRest /\ action = NoAction /\ failed = FALSE
    /\ requests = 0 /\ mishaps = 0
-----------------------------------------------------------------------------
(***************************************************************************)
(* load_services, the start of every transaction.                          *)
(***************************************************************************)
\* A record with some of its columns set, and others added.
Updated(r, values) ==
    [column \in (DOMAIN r) \cup (DOMAIN values) |->
        IF column \in DOMAIN values THEN values[column] ELSE r[column]]

Expired(r) == r.desired = "on" /\ r.offAt # 0 /\ r.offAt <= now

SwitchedOff == [desired |-> "off", offAt |-> 0]

traces_wanted(service) == service.desired = "on" /\ service.observed # "stopped"

\* What a transaction uses of the row it read: a loop whether to trace, a report
\* what to answer, a request the row.
Kept(t, service) ==
    IF t \in Procs THEN [wanted |-> traces_wanted(service)]
    ELSE IF t = "report" THEN [desired |-> service.desired] ELSE service

Loaded(t, ask) ==
    /\ tx[t].pc = "idle"
    /\ tx' = [tx EXCEPT ![t] =
                 [pc |-> "loaded", ask |-> ask, claimed |-> Expired(row),
                  seen |-> Kept(t, IF Expired(row) THEN Updated(row, SwitchedOff) ELSE row),
                  put |-> IF Expired(row) THEN SwitchedOff ELSE Nothing]]

\* Mutant of expire_auto_off: the row is read, and then updated whatever it is by then.
ExpireSeen(t, ask) == Loaded(t, ask) /\ UNCHANGED lock

\* The conditional UPDATE waits for the lock and is evaluated again after it.
expire_auto_off(t, ask) ==
    /\ Expired(row) => lock = Nobody
    /\ Loaded(t, ask)
    /\ lock' = IF Expired(row) THEN t ELSE lock

Host == <<now, containers, action, failed>>

\* The columns whose value is not the one that was loaded.
Changed(values, seen) ==
    [column \in {c \in DOMAIN values : c \in DOMAIN seen => values[c] # seen[c]} |-> values[column]]

\* The flush: an UPDATE of the changed columns, which takes the lock; changed_at, or
\* observed_at, always is one of them.
Flush(t, values) ==
    /\ tx[t].pc = "loaded" /\ lock \in {Nobody, t}
    /\ lock' = t
    /\ tx' = [tx EXCEPT ![t].pc = "flushed", ![t].seen = Nothing,
                        ![t].put = Updated(@, Changed(values, tx[t].seen))]
-----------------------------------------------------------------------------
(***************************************************************************)
(* The super-admin: list_services and switch_service.                      *)
(***************************************************************************)
AskList == [on |-> "", offAt |-> 0]
Asks == {AskList, [on |-> "off", offAt |-> 0], [on |-> "on", offAt |-> 0]}
        \cup {[on |-> "on", offAt |-> now + h] : h \in Hours}

Arrives(q) ==
    /\ requests < MaxRequests /\ requests' = requests + 1
    /\ \E ask \in Asks : expire_auto_off(q, ask)
    /\ UNCHANGED <<row, off, agent, Host, mishaps>>

Chosen(q) == [desired |-> tx[q].ask.on, offAt |-> tx[q].ask.offAt]

list_services(q) ==
    /\ tx[q].pc = "loaded" /\ tx[q].ask = AskList
    /\ tx' = [tx EXCEPT ![q].pc = "flushed", ![q].seen = Nothing]
    /\ UNCHANGED <<row, lock, off, agent, Host, requests, mishaps>>

switch(q) ==
    /\ tx[q].ask # AskList
    /\ Flush(q, Chosen(q))
    /\ off' = [off EXCEPT !["api"] = ~ traces_wanted(Updated(tx[q].seen, Chosen(q)))]
    /\ UNCHANGED <<row, agent, Host, requests, mishaps>>
-----------------------------------------------------------------------------
(***************************************************************************)
(* The agent's report, and its answer: the state as this transaction sees  *)
(* it.                                                                     *)
(***************************************************************************)
record_reports ==
    /\ Flush("report", tx["report"].ask)
    /\ off' = [off EXCEPT !["api"] = ~ traces_wanted(Updated(tx["report"].seen, tx["report"].ask))]
    /\ agent' = IF agent.pc = "asks"
                THEN [agent EXCEPT !.pc = "told", !.told = tx["report"].seen.desired] ELSE agent
    /\ UNCHANGED <<row, Host, requests, mishaps>>
-----------------------------------------------------------------------------
(***************************************************************************)
(* follow_langfuse_switch, in each process.                                *)
(***************************************************************************)
Follow(p) ==
    /\ expire_auto_off(p, Nothing)
    /\ UNCHANGED <<row, off, agent, Host, requests, mishaps>>

\* Mutant of FollowSync: a loop switches its process's export off, and never on again.
FollowSyncOff(p) ==
    /\ tx[p].pc = "committed"
    /\ off' = [off EXCEPT ![p] = @ \/ ~ tx[p].seen.wanted]
    /\ tx' = [tx EXCEPT ![p] = Idle]
    /\ UNCHANGED <<row, lock, agent, Host, requests, mishaps>>

FollowSync(p) ==
    /\ tx[p].pc = "committed"
    /\ off' = [off EXCEPT ![p] = ~ tx[p].seen.wanted]
    /\ tx' = [tx EXCEPT ![p] = Idle]
    /\ UNCHANGED <<row, lock, agent, Host, requests, mishaps>>
-----------------------------------------------------------------------------
(***************************************************************************)
(* The end of a transaction; a loop goes on with what it read.             *)
(***************************************************************************)
Ready(t) == tx[t].pc = (IF t \in Procs THEN "loaded" ELSE "flushed")
Unlocked(t) == lock' = IF lock = t THEN Nobody ELSE lock

Commit(t) ==
    /\ Ready(t)
    /\ row' = Updated(row, tx[t].put)
    /\ tx' = [tx EXCEPT ![t] = IF t \in Procs THEN [Idle EXCEPT !.pc = "committed", !.seen = tx[t].seen]
                             ELSE Idle]
    /\ Unlocked(t)
    /\ UNCHANGED <<off, agent, Host, requests, mishaps>>

Mishap == mishaps < MaxMishaps /\ mishaps' = mishaps + 1

\* The agent's turn is over when the report it waits for is.
WithoutAnswer(ended) ==
    agent' = IF "report" \in ended /\ agent.pc = "asks" THEN AtRest ELSE agent

\* The database refuses: rolled back, and answered 500 if it is not answered yet.
Rollback(t) ==
    /\ Mishap /\ tx[t].pc \in {"loaded", "flushed"}
    /\ tx' = [tx EXCEPT ![t] = Idle] /\ Unlocked(t) /\ WithoutAnswer({t})
    /\ UNCHANGED <<row, off, Host, requests>>

\* A process that starts again has its flag as at first, and its loop.
Restart(p) ==
    LET lost == IF p = "worker" THEN {"worker"} ELSE Transactions \ {"worker"} IN
    /\ Mishap
    /\ off' = [off EXCEPT ![p] = FALSE]
    /\ tx' = [t \in Transactions |-> IF t \in lost THEN Idle ELSE tx[t]]
    /\ lock' = IF lock \in lost THEN Nobody ELSE lock
    /\ WithoutAnswer(lost)
    /\ UNCHANGED <<row, Host, requests>>
-----------------------------------------------------------------------------
(***************************************************************************)
(* The agent's loop, and docker compose.                                   *)
(***************************************************************************)
transition == IF action.want = "on" THEN "starting" ELSE "stopping"

\* What a turn finds, a command still running, one that failed, or the containers,
\* and reports: with it the report's transaction begins.
Report ==
    LET note == failed \/ action.ends = "failed"
        seen == IF action.ends = "going" THEN transition ELSE IF note THEN "error" ELSE containers
    IN  /\ agent.pc = "idle"
        /\ expire_auto_off("report", [observed |-> seen])
        /\ failed' = note
        /\ agent' = [AtRest EXCEPT !.pc = "asks", !.observed = seen]
        /\ action' = IF action.ends = "going" THEN action ELSE NoAction
        /\ UNCHANGED <<row, off, now, containers, requests, mishaps>>

MinutePasses ==
    /\ failed /\ failed' = FALSE
    /\ UNCHANGED <<row, lock, tx, off, now, containers, agent, action, requests, mishaps>>

Matches(state, want) == state = (IF want = "on" THEN "running" ELSE "stopped")

Act ==
    /\ agent.pc = "told"
    /\ agent' = AtRest
    /\ action' = IF \/ agent.observed \in {"starting", "stopping", "error"}
                    \/ Matches(agent.observed, agent.told)
                 THEN action ELSE [want |-> agent.told, ends |-> "going"]
    /\ UNCHANGED <<row, lock, tx, off, now, containers, failed, requests, mishaps>>

ComposeWorks ==
    /\ action.ends = "going"
    /\ containers' = (IF action.want = "on" THEN "running" ELSE "stopped")
    /\ action' = NoAction
    /\ UNCHANGED <<row, lock, tx, off, now, agent, failed, requests, mishaps>>

\* It fails, or is killed after a quarter of an hour.
ComposeFails ==
    /\ Mishap /\ action.ends = "going"
    /\ containers' \in {containers, "partial"}
    /\ action' = [want |-> "", ends |-> "failed"]
    /\ UNCHANGED <<row, lock, tx, off, now, agent, failed, requests>>

ContainerDies ==
    /\ Mishap /\ containers = "running"
    /\ containers' = "partial"
    /\ UNCHANGED <<row, lock, tx, off, now, agent, action, failed, requests>>

\* systemd starts it again; the command it ran is gone with it.
AgentRestarts ==
    /\ Mishap
    /\ agent' = AtRest /\ action' = NoAction /\ failed' = FALSE
    /\ containers' \in (IF action.ends = "going" THEN {containers, "partial"} ELSE {containers})
    /\ UNCHANGED <<row, lock, tx, off, now, requests>>

Hour ==
    /\ now < MaxHour /\ now' = now + 1
    /\ UNCHANGED <<row, lock, tx, off, containers, agent, action, failed, requests, mishaps>>
-----------------------------------------------------------------------------
OpsNext ==
    \/ \E q \in Requests : Arrives(q) \/ list_services(q) \/ switch(q)
    \/ Report \/ record_reports \/ MinutePasses
    \/ \E p \in Procs : Follow(p) \/ FollowSync(p) \/ Restart(p)
    \/ \E t \in Transactions : Commit(t) \/ Rollback(t)
    \/ Act \/ ComposeWorks \/ ComposeFails \/ ContainerDies \/ AgentRestarts \/ Hour

OpsSpec == OpsInit /\ [][OpsNext]_opsVars

\* The loops run for ever, a handler returns and its transaction ends, a compose
\* command ends.  Nothing is assumed of super-admins and of the clock.
Fairness ==
    /\ \A q \in Requests : WF_opsVars(list_services(q)) /\ WF_opsVars(switch(q))
    /\ \A p \in Procs : WF_opsVars(Follow(p)) /\ WF_opsVars(FollowSync(p))
    /\ \A t \in Transactions : WF_opsVars(Commit(t))
    /\ WF_opsVars(record_reports)
    /\ WF_opsVars(Report) /\ WF_opsVars(Act) /\ WF_opsVars(MinutePasses) /\ WF_opsVars(ComposeWorks)

FairSpec == OpsSpec /\ Fairness
-----------------------------------------------------------------------------
OpsTypeOK ==
    /\ row \in ManagedService /\ lock \in Transactions \cup {Nobody}
    /\ off \in [Procs -> BOOLEAN] /\ containers \in {"running", "stopped", "partial"}

(***************************************************************************)
(* _expire_auto_off: the api and the worker checking at the same moment    *)
(* do not both write the audit entry.  An entry ops.service_auto_off is    *)
(* committed only by the step that ends a time which had run out.          *)
(***************************************************************************)
AutoOffIsEarned ==
    [][\A t \in Transactions : tx[t].claimed /\ Commit(t) => Expired(row)]_opsVars

(***************************************************************************)
(* Once the super-admins and the mishaps are over, everything comes to     *)
(* agree: no time that has run out is left running, with nobody looking at *)
(* the page; the host runs what is asked for and the row says so; and each *)
(* process traces if and only if traces are wanted.                        *)
(***************************************************************************)
Settled ==
    /\ ~ Expired(row)
    /\ Matches(containers, row.desired) /\ row.observed = containers
    /\ \A p \in Procs : off[p] = ~ traces_wanted(row)
Settles == <>[]Settled

(***************************************************************************)
(* switch: what a super-admin asked for is in the row when the transaction *)
(* that records it, and its audit entry, commits.                          *)
(***************************************************************************)
ChoiceRecorded ==
    [][\A q \in Requests :
          (Commit(q) /\ tx[q].ask # AskList) => row'.desired = tx[q].ask.on /\ row'.offAt = tx[q].ask.offAt]_opsVars
=============================================================================
