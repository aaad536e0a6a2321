------------------------------- MODULE Quota -------------------------------
(***************************************************************************)
(* The allowance of one organization on the deployment's provider keys:    *)
(* rows of usage_events in PostgreSQL are the count, a Redis counter with  *)
(* an expiry caches their sum, and every call that would run on a shared   *)
(* key asks the counter first.                                             *)
(*                                                                         *)
(* A call here is one chat turn or one ingest job with its transaction;    *)
(* every await on Redis, PostgreSQL or the provider is a place where the   *)
(* others run.                                                             *)
(***************************************************************************)
EXTENDS Integers, FiniteSets, FiniteSetsExt

CONSTANTS
    Calls,          \* turns and jobs of the organization in flight together
    Sizes,          \* tokens a call may take
    Limit,          \* SYSTEM_KEY_TOKEN_LIMIT
    NoCounter,      \* no counter in Redis
    MaxCharged,     \* bound: tokens charged to the shared keys
    MaxExpiries,    \* bound: expiries of the counter
    MaxLosses,      \* bound: calls whose row is rolled back or never written
    MaxKeyEdits     \* bound: provider keys added or removed

ASSUME QuotaAssumption ==
    /\ IsFiniteSet(Calls) /\ Sizes \subseteq Nat \ {0}
    /\ {Limit, MaxCharged, MaxExpiries, MaxLosses, MaxKeyEdits} \subseteq Nat
    /\ NoCounter \notin Nat

VARIABLES
    recorded,   \* committed: the sum of tokens with key_source = 'system'
    counter,    \* Redis: quota:system-tokens, or NoCounter
    expiring,   \* Redis: whether that key has an expiry
    ownKey,     \* the organization has a key of its own
    pc, held, size, payer,  \* call: position, sum it read, tokens, key it used
    spent,      \* history: tokens the deployment's keys really paid for
    charged,    \* history: tokens of the rows written for them
    expiries, losses, keyEdits

redisVars == <<counter, expiring>>
callVars  == <<pc, held, size, payer>>
history   == <<spent, charged>>
bounds    == <<expiries, losses, keyEdits>>
quotaVars == <<recorded, redisVars, ownKey, callVars, history, bounds>>

\* _resolve_key: the organization's key if it has one, else the deployment's.
KeyNow == IF ownKey THEN "org" ELSE "system"

\* Allowance.exhausted, with the deployment lending its keys.
Exhausted(used) == used >= Limit

Go(c, to) == pc' = [pc EXCEPT ![c] = to]
Finish(c) ==
    /\ pc' = [pc EXCEPT ![c] = "idle"]
    /\ held' = [held EXCEPT ![c] = 0]
    /\ size' = [size EXCEPT ![c] = 0]
    /\ payer' = [payer EXCEPT ![c] = "system"]
-----------------------------------------------------------------------------
QuotaInit ==
    /\ recorded = 0
    /\ counter \in {NoCounter, 0}
    /\ expiring = (counter # NoCounter)
    /\ ownKey \in BOOLEAN
    /\ pc = [c \in Calls |-> "idle"]
    /\ held = [c \in Calls |-> 0]
    /\ size = [c \in Calls |-> 0]
    /\ payer = [c \in Calls |-> "system"]
    /\ spent = 0 /\ charged = 0
    /\ expiries = 0 /\ losses = 0 /\ keyEdits = 0

-----------------------------------------------------------------------------
(* Slips in the code below that no specification uses.                     *)

\* The row commits first, and the counter is brought in step with it after.
RecordCommitted(c) ==
    /\ pc[c] = "answered" /\ ~ownKey /\ charged + size[c] <= MaxCharged
    /\ payer' = [payer EXCEPT ![c] = "org"]
    /\ charged' = charged + size[c]
    /\ recorded' = recorded + size[c]
    /\ Go(c, "inserted")
    /\ UNCHANGED <<redisVars, ownKey, held, size, spent, bounds>>

\* The counter is set to the sum of the rows this transaction sees.
IncrResumming(c) ==
    /\ pc[c] = "counting"
    /\ counter' = recorded + size[c]
    /\ UNCHANGED expiring
    /\ Go(c, "committing")
    /\ UNCHANGED <<recorded, ownKey, held, size, payer, history, bounds>>

-----------------------------------------------------------------------------
(* Before the call: require_key, ensure_system_key_allowed, tokens_used    *)

UseOwnKey(c) ==
    /\ pc[c] = "idle" /\ ownKey
    /\ payer' = [payer EXCEPT ![c] = "org"]
    /\ Go(c, "calling")
    /\ UNCHANGED <<recorded, redisVars, ownKey, held, size, history, bounds>>

\* The counter is there. At the limit the call is refused and nothing changes.
Hit(c) ==
    /\ pc[c] = "idle" /\ ~ownKey
    /\ counter # NoCounter /\ ~ Exhausted(counter)
    /\ payer' = [payer EXCEPT ![c] = "system"]
    /\ Go(c, "calling")
    /\ UNCHANGED <<recorded, redisVars, ownKey, held, size, history, bounds>>

Miss(c) ==
    /\ pc[c] = "idle" /\ ~ownKey
    /\ counter = NoCounter
    /\ payer' = [payer EXCEPT ![c] = "system"]
    /\ Go(c, "missed")
    /\ UNCHANGED <<recorded, redisVars, ownKey, held, size, history, bounds>>

SumRows(c) ==
    /\ pc[c] = "missed"
    /\ held' = [held EXCEPT ![c] = recorded]
    /\ Go(c, "filling")
    /\ UNCHANGED <<recorded, redisVars, ownKey, size, payer, history, bounds>>

\* SET with COUNTER_TTL_SECONDS, whatever the counter has become meanwhile.
Fill(c) ==
    /\ pc[c] = "filling"
    /\ counter' = held[c]
    /\ expiring' = TRUE
    /\ IF ~ Exhausted(held[c])
       THEN Go(c, "calling") /\ held' = [held EXCEPT ![c] = 0] /\ UNCHANGED <<size, payer>>
       ELSE Finish(c)
    /\ UNCHANGED <<recorded, ownKey, history, bounds>>

\* The settings page, which only looks; a call cancelled or refused by the
\* provider before it cost anything.
Leave(c) ==
    /\ pc[c] \in {"missed", "filling", "calling"}
    /\ Finish(c)
    /\ UNCHANGED <<recorded, redisVars, ownKey, history, bounds>>

-----------------------------------------------------------------------------
(* The call, and its usage_events row                                      *)

Call(c, n) ==
    /\ pc[c] = "calling"
    /\ size' = [size EXCEPT ![c] = n]
    /\ spent' = IF payer[c] = "system" THEN spent + n ELSE spent
    /\ Go(c, "answered")
    /\ UNCHANGED <<recorded, redisVars, ownKey, held, payer, charged, bounds>>

\* key_source_for resolves the key again, as it is now, for the row.
Record(c) ==
    /\ pc[c] = "answered" /\ charged + size[c] <= MaxCharged
    /\ payer' = [payer EXCEPT ![c] = KeyNow]
    /\ charged' = IF ownKey THEN charged ELSE charged + size[c]
    /\ Go(c, IF ownKey THEN "committing" ELSE "inserted")
    /\ UNCHANGED <<recorded, redisVars, ownKey, held, size, spent, bounds>>

\* record_system_tokens: EXISTS, then INCRBY. A key that expired in between is
\* created by INCRBY, without an expiry.
Exists(c) ==
    /\ pc[c] = "inserted"
    /\ Go(c, IF counter = NoCounter THEN "committing" ELSE "counting")
    /\ UNCHANGED <<recorded, redisVars, ownKey, held, size, payer, history, bounds>>

Incr(c) ==
    /\ pc[c] = "counting"
    /\ counter' = size[c] + (IF counter = NoCounter THEN 0 ELSE counter)
    /\ expiring' = (counter # NoCounter /\ expiring)
    /\ Go(c, "committing")
    /\ UNCHANGED <<recorded, ownKey, held, size, payer, history, bounds>>

Commit(c) ==
    /\ pc[c] = "committing"
    /\ recorded' = IF payer[c] = "system" THEN recorded + size[c] ELSE recorded
    /\ Finish(c)
    /\ UNCHANGED <<redisVars, ownKey, history, bounds>>

\* The turn or the job fails after the provider answered: before its row, as a
\* failed pipeline, a test run or an evaluation do, or rolling the row back.
Lose(c) ==
    /\ pc[c] \in {"answered", "inserted", "counting", "committing"}
    /\ losses < MaxLosses
    /\ losses' = losses + 1
    /\ Finish(c)
    /\ UNCHANGED <<recorded, redisVars, ownKey, history, expiries, keyEdits>>

-----------------------------------------------------------------------------
Expire ==
    /\ counter # NoCounter /\ expiring /\ expiries < MaxExpiries
    /\ counter' = NoCounter
    /\ expiring' = FALSE
    /\ expiries' = expiries + 1
    /\ UNCHANGED <<recorded, ownKey, callVars, history, losses, keyEdits>>

EditKey ==
    /\ keyEdits < MaxKeyEdits
    /\ ownKey' = ~ownKey
    /\ keyEdits' = keyEdits + 1
    /\ UNCHANGED <<recorded, redisVars, callVars, history, expiries, losses>>

QuotaNext ==
    \/ \E c \in Calls :
          \/ UseOwnKey(c) \/ Hit(c) \/ Miss(c) \/ SumRows(c) \/ Fill(c) \/ Leave(c)
          \/ \E n \in Sizes : Call(c, n)
          \/ Record(c) \/ Exists(c) \/ Incr(c) \/ Commit(c) \/ Lose(c)
    \/ Expire \/ EditKey

QuotaSpec == QuotaInit /\ [][QuotaNext]_quotaVars
-----------------------------------------------------------------------------
(* Properties *)

Paid == {"answered", "inserted", "counting", "committing"}

\* Every variable keeps its shape, and only a counter that is there expires.
QuotaTypeOK ==
    /\ recorded \in Nat /\ spent \in Nat /\ charged \in 0 .. MaxCharged
    /\ counter \in Nat \cup {NoCounter}
    /\ expiring \in BOOLEAN /\ (expiring => counter # NoCounter)
    /\ ownKey \in BOOLEAN
    /\ pc \in [Calls -> {"idle", "missed", "filling", "calling"} \cup Paid]
    /\ held \in [Calls -> Nat]
    /\ size \in [Calls -> Sizes \cup {0}]
    /\ \A c \in Calls : pc[c] \in Paid => size[c] \in Sizes
    /\ payer \in [Calls -> {"org", "system"}]
    /\ expiries \in 0 .. MaxExpiries
    /\ losses \in 0 .. MaxLosses
    /\ keyEdits \in 0 .. MaxKeyEdits

\* No call is counted twice, once by its INCRBY and once in a sum another call
\* reads: an organization is not refused for tokens it never took. It rests on
\* the increment coming before the commit that shows the row to SUM.
CountedOnce == counter # NoCounter => counter <= charged

\* What the calls of a set took together.
Total(tokens, S) == MapThenSumSet(LAMBDA c : tokens[c], S)

\* Rows whose increment is behind them and whose commit is to come.
Pending == {c \in Calls : pc[c] = "committing" /\ payer[c] = "system"}
InStep ==
    /\ counter # NoCounter
    /\ \A c \in Calls : pc[c] \notin {"missed", "filling"}
    /\ counter >= recorded + Total(size, Pending)

\* A counter in step with the rows, with nobody about to overwrite it, stays
\* in step until it expires, however calls increment, commit and roll back.
StaysInStep == [][(InStep /\ counter' # NoCounter) => InStep']_quotaVars

\* Lending the keys has a bounded cost per organization (ADR-0013): the limit,
\* and what the calls already admitted take.
BoundedCost == spent < Limit + Cardinality(Calls) * Max(Sizes)
=============================================================================
