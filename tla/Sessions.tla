------------------------------ MODULE Sessions ------------------------------
(***************************************************************************)
(* Signing in to one account from one address: the rate limit and the      *)
(* lockout counters in Redis that stand before the password, the sessions  *)
(* in PostgreSQL whose refresh token is rotated on use, and magic links.   *)
(*                                                                         *)
(* Every Redis command and every transaction of a request is a step of its *)
(* own; the process may die between any two.  A session is its number, in  *)
(* the order of the commits; its token's hash, the passwords and the clock *)
(* are left out: what expires does so by a step of its own.                *)
(***************************************************************************)
EXTENDS Integers, Sequences, FiniteSets

CONSTANTS
    Requests,     \* requests in flight together
    LoginLimit,   \* RATE_LIMIT_LOGIN_PER_MIN
    Threshold,    \* LOCKOUT_THRESHOLD
    MaxRequests,  \* bound: requests made altogether
    MaxSessions,  \* bound: sessions and links
    MaxExpiries,  \* bound: windows, sessions and links that expire
    MaxCrashes    \* bound: deaths of the process

ASSUME SessionsAssumption ==
    /\ IsFiniteSet(Requests)
    /\ {MaxRequests, MaxSessions, MaxExpiries, MaxCrashes} \subseteq Nat
    /\ {LoginLimit, Threshold} \subseteq Nat \ {0}

VARIABLES
    pc,        \* where each request is
    subject,   \* the counter a failed login is at: account or address
    source,    \* the session or link a request has read; 0 for none
    logins,    \* Redis, rl:login:ip:*: [count, clock]; a count of 0 is no key
    failures,  \* Redis, lockout:*, for the account and for the address
    sessions,  \* rows of sessions: [status, root, link]
    links,     \* rows of magic_links: live, used or expired
    raced,     \* history: sources two requests held at once, and the roots of those
    looked,    \* history: passwords refused since the account's counter was gone
    admitted,  \* history: logins let through since the rate counter was gone
    unclocked, \* history: a process died between the INCR that locks and its EXPIRE
    made, expiries, crashes

redis   == <<logins, failures>>
rows    == <<sessions, links>>
history == <<raced, looked, admitted, unclocked>>
bounds  == <<made, expiries, crashes>>
vars    == <<pc, subject, source, redis, rows, history, bounds>>

\* Rows of PostgreSQL.
Session   == [status : {"live", "revoked", "expired"}, root : 1..MaxSessions, link : 0..MaxSessions]
MagicLink == {"live", "used", "expired"}

\* Keys of Redis.
Subjects == {"account", "address"}
NoKey    == [count |-> 0, clock |-> FALSE]
Incr(key)   == [key EXCEPT !.count = @ + 1]
Expire(key) == [key EXCEPT !.clock = key.count > 0]

Go(r, from, to) == pc[r] = from /\ pc' = [pc EXCEPT ![r] = to]
End(r) == /\ pc' = [pc EXCEPT ![r] = "idle"]
          /\ source' = [source EXCEPT ![r] = 0]
          /\ subject' = [subject EXCEPT ![r] = "account"]

Init ==
    /\ pc = [r \in Requests |-> "idle"] /\ source = [r \in Requests |-> 0]
    /\ subject = [r \in Requests |-> "account"]
    /\ logins = NoKey /\ failures = [s \in Subjects |-> NoKey]
    /\ sessions = <<>> /\ links = <<>>
    /\ raced = {} /\ looked = 0 /\ admitted = 0 /\ unclocked = FALSE
    /\ made = 0 /\ expiries = 0 /\ crashes = 0

Begin(r, to) ==
    /\ made < MaxRequests /\ made' = made + 1
    /\ Go(r, "idle", to)
    /\ UNCHANGED <<expiries, crashes>>
-----------------------------------------------------------------------------
(***************************************************************************)
(* authenticate_user.                                                      *)
(***************************************************************************)
login(r) ==
    /\ Begin(r, "rate")
    /\ UNCHANGED <<subject, source, redis, rows, history>>

\* rate_limit.hit: INCR, EXPIRE on the first of a window, then the limit.
Hit(r) ==
    /\ pc[r] = "rate"
    /\ logins' = Incr(logins)
    /\ IF logins'.count = 1 THEN Go(r, "rate", "rate_clock") /\ UNCHANGED <<subject, source, admitted>>
       ELSE IF logins'.count > LoginLimit THEN End(r) /\ UNCHANGED admitted
       ELSE Go(r, "rate", "locked?") /\ admitted' = admitted + 1 /\ UNCHANGED <<subject, source>>
    /\ UNCHANGED <<failures, rows, raced, looked, unclocked, bounds>>

HitClock(r) ==
    /\ Go(r, "rate_clock", "locked?")
    /\ logins' = Expire(logins)
    /\ admitted' = admitted + 1
    /\ UNCHANGED <<subject, source, failures, rows, raced, looked, unclocked, bounds>>

\* Mutant of assert_not_locked: locked above the threshold, not at it.
AssertAbove(r) ==
    /\ pc[r] = "locked?"
    /\ IF failures[subject[r]].count > Threshold THEN End(r)
       ELSE IF subject[r] = "account"
            THEN subject' = [subject EXCEPT ![r] = "address"] /\ UNCHANGED <<pc, source>>
            ELSE Go(r, "locked?", "password") /\ subject' = [subject EXCEPT ![r] = "account"]
                 /\ UNCHANGED source
    /\ UNCHANGED <<redis, rows, history, bounds>>

\* assert_not_locked: the account's counter, then the address's.
assert_not_locked(r) ==
    /\ pc[r] = "locked?"
    /\ IF failures[subject[r]].count >= Threshold THEN End(r)
       ELSE IF subject[r] = "account"
            THEN subject' = [subject EXCEPT ![r] = "address"] /\ UNCHANGED <<pc, source>>
            ELSE Go(r, "locked?", "password") /\ subject' = [subject EXCEPT ![r] = "account"]
                 /\ UNCHANGED source
    /\ UNCHANGED <<redis, rows, history, bounds>>

\* An unknown email, an inactive user or a wrong password: all count.
WrongPassword(r) ==
    /\ Go(r, "password", "failed")
    /\ looked' = looked + 1
    /\ UNCHANGED <<subject, source, redis, rows, raced, admitted, unclocked, bounds>>

\* Both counters are done: UnauthorizedError, and the audit row is rolled back.
NextSubject(r) ==
    IF subject[r] = "account"
    THEN /\ pc' = [pc EXCEPT ![r] = "failed"]
         /\ subject' = [subject EXCEPT ![r] = "address"] /\ UNCHANGED source
    ELSE End(r)

\* Mutant of record_failure: the clock is set by the first failure only.
RecordFirst(r) ==
    /\ pc[r] = "failed"
    /\ failures' = [failures EXCEPT ![subject[r]] = Incr(@)]
    /\ IF failures'[subject[r]].count = 1
       THEN Go(r, "failed", "fail_clock") /\ UNCHANGED <<subject, source>>
       ELSE NextSubject(r)
    /\ UNCHANGED <<logins, rows, history, bounds>>

record_failure(r) ==
    /\ pc[r] = "failed"
    /\ failures' = [failures EXCEPT ![subject[r]] = Incr(@)]
    /\ IF failures'[subject[r]].count \in {1, Threshold}
       THEN Go(r, "failed", "fail_clock") /\ UNCHANGED <<subject, source>>
       ELSE NextSubject(r)
    /\ UNCHANGED <<logins, rows, history, bounds>>

FailClock(r) ==
    /\ pc[r] = "fail_clock"
    /\ failures' = [failures EXCEPT ![subject[r]] = Expire(@)]
    /\ NextSubject(r)
    /\ UNCHANGED <<logins, rows, history, bounds>>

\* The right password clears both counters before anything is committed.
clear(r) ==
    /\ Go(r, "password", "issue")
    /\ failures' = [s \in Subjects |-> NoKey]
    /\ looked' = 0
    /\ UNCHANGED <<subject, source, logins, rows, raced, admitted, unclocked, bounds>>
-----------------------------------------------------------------------------
(***************************************************************************)
(* Sessions.  A session that follows no other is a root, named by itself.  *)
(***************************************************************************)
Live(t) == sessions[t].status = "live"
RootOf(t) == sessions[t].root
Add(rowsNow, root, link) ==
    Append(rowsNow, [status |-> "live", root |-> IF root = 0 THEN Len(rowsNow) + 1 ELSE root,
                     link |-> link])

\* issue_tokens and the commit of a login with a password.
issue_tokens(r) ==
    /\ pc[r] = "issue" /\ Len(sessions) < MaxSessions
    /\ sessions' = Add(sessions, 0, 0)
    /\ End(r)
    /\ UNCHANGED <<redis, links, history, bounds>>

\* Another request holds the same row, read before this one has committed.
Holders(at, t) == {q \in Requests : pc[q] = at /\ source[q] = t}

ReadSession(r) ==
    /\ Begin(r, "refresh")
    /\ \E t \in DOMAIN sessions :
        /\ Live(t)
        /\ source' = [source EXCEPT ![r] = t]
        /\ raced' = IF Holders("refresh", t) # {} THEN raced \cup {RootOf(t)} ELSE raced
    /\ UNCHANGED <<subject, redis, rows, looked, admitted, unclocked>>

\* Mutant of refresh_tokens: the old session is left as it is.
RefreshKeeping(r) ==
    /\ pc[r] = "refresh" /\ Len(sessions) < MaxSessions
    /\ sessions' = Add(sessions, RootOf(source[r]), 0)
    /\ End(r)
    /\ UNCHANGED <<redis, links, history, bounds>>

\* What was read is not read again: the row is revoked and its heir committed.
refresh_tokens(r) ==
    /\ pc[r] = "refresh" /\ Len(sessions) < MaxSessions
    /\ sessions' = Add([sessions EXCEPT ![source[r]].status = "revoked"], RootOf(source[r]), 0)
    /\ End(r)
    /\ UNCHANGED <<redis, links, history, bounds>>

\* One UPDATE; a refresh that has read the session does not notice.
logout(r) ==
    /\ \E t \in DOMAIN sessions :
        /\ sessions' = [sessions EXCEPT ![t].status = "revoked"]
        /\ raced' = IF Holders("refresh", t) # {} THEN raced \cup {RootOf(t)} ELSE raced
    /\ made < MaxRequests /\ made' = made + 1 /\ pc[r] = "idle"
    /\ UNCHANGED <<pc, subject, source, redis, links, looked, admitted, unclocked,
                   expiries, crashes>>
-----------------------------------------------------------------------------
(***************************************************************************)
(* Magic links.  The mail leaves before the row is committed.              *)
(***************************************************************************)
send_magic_link(r) ==
    /\ Begin(r, "mailed")
    /\ Len(links) < MaxSessions
    /\ UNCHANGED <<subject, source, redis, rows, history>>

StoreLink(r) ==
    /\ pc[r] = "mailed" /\ Len(links) < MaxSessions
    /\ links' = Append(links, "live")
    /\ End(r)
    /\ UNCHANGED <<redis, sessions, history, bounds>>

ReadLink(r) ==
    /\ Begin(r, "link")
    /\ \E l \in DOMAIN links :
        /\ links[l] = "live"
        /\ source' = [source EXCEPT ![r] = l]
        /\ raced' = IF Holders("link", l) # {} THEN raced \cup {-l} ELSE raced
    /\ UNCHANGED <<subject, redis, rows, looked, admitted, unclocked>>

consume_magic_link(r) ==
    /\ pc[r] = "link" /\ Len(sessions) < MaxSessions
    /\ links' = [links EXCEPT ![source[r]] = "used"]
    /\ sessions' = Add(sessions, 0, source[r])
    /\ End(r)
    /\ UNCHANGED <<redis, history, bounds>>
-----------------------------------------------------------------------------
(***************************************************************************)
(* Around the requests.                                                    *)
(***************************************************************************)
\* A commit, a mail or a query fails: the transaction is rolled back.
Rollback(r) ==
    /\ pc[r] \in {"issue", "refresh", "link", "mailed"} /\ End(r)
    /\ UNCHANGED <<redis, rows, history, bounds>>

Elapses == expiries < MaxExpiries /\ expiries' = expiries + 1 /\ UNCHANGED <<made, crashes>>

WindowEnds ==
    /\ Elapses /\ logins.clock
    /\ logins' = NoKey /\ admitted' = 0
    /\ UNCHANGED <<pc, subject, source, failures, rows, raced, looked, unclocked>>

LockEnds(s) ==
    /\ Elapses /\ failures[s].clock
    /\ failures' = [failures EXCEPT ![s] = NoKey]
    /\ looked' = IF s = "account" THEN 0 ELSE looked
    /\ UNCHANGED <<pc, subject, source, logins, rows, raced, admitted, unclocked>>

RowExpires ==
    /\ Elapses
    /\ \/ \E t \in DOMAIN sessions : Live(t)
             /\ sessions' = [sessions EXCEPT ![t].status = "expired"] /\ UNCHANGED links
       \/ \E l \in DOMAIN links : links[l] = "live"
             /\ links' = [links EXCEPT ![l] = "expired"] /\ UNCHANGED sessions
    /\ UNCHANGED <<pc, subject, source, redis, history>>

\* Every request of the process is lost; Redis keeps what it was told.
Crash ==
    /\ crashes < MaxCrashes /\ crashes' = crashes + 1
    /\ pc' = [r \in Requests |-> "idle"] /\ source' = [r \in Requests |-> 0]
    /\ subject' = [r \in Requests |-> "account"]
    /\ unclocked' = (unclocked \/ \E r \in Requests :
                        pc[r] = "fail_clock" /\ failures[subject[r]].count >= Threshold)
    /\ UNCHANGED <<redis, rows, raced, looked, admitted, made, expiries>>

Next ==
    \/ \E r \in Requests :
        \/ login(r) \/ Hit(r) \/ HitClock(r) \/ assert_not_locked(r) \/ WrongPassword(r)
        \/ record_failure(r) \/ FailClock(r) \/ clear(r) \/ issue_tokens(r)
        \/ ReadSession(r) \/ refresh_tokens(r) \/ logout(r)
        \/ send_magic_link(r) \/ StoreLink(r) \/ ReadLink(r) \/ consume_magic_link(r)
        \/ Rollback(r)
    \/ WindowEnds \/ (\E s \in Subjects : LockEnds(s)) \/ RowExpires \/ Crash

Spec == Init /\ [][Next]_vars
-----------------------------------------------------------------------------
TypeOK ==
    /\ pc \in [Requests -> {"idle", "rate", "rate_clock", "locked?", "password", "failed",
                            "fail_clock", "issue", "refresh", "mailed", "link"}]
    /\ subject \in [Requests -> Subjects] /\ source \in [Requests -> 0..MaxSessions]
    /\ logins \in [count : Nat, clock : BOOLEAN]
    /\ failures \in [Subjects -> [count : Nat, clock : BOOLEAN]]
    /\ sessions \in Seq(Session) /\ links \in Seq(MagicLink)
    /\ looked \in Nat /\ admitted \in Nat /\ unclocked \in BOOLEAN

(***************************************************************************)
(* However often it is refreshed, a sign-in has at most one session that   *)
(* is live, and a link signs in once, unless two requests held the same    *)
(* token at the same time: what is read is not locked.                     *)
(***************************************************************************)
OneLiveSession ==
    /\ \A t, u \in DOMAIN sessions :
          RootOf(t) = RootOf(u) /\ RootOf(t) \notin raced /\ Live(t) /\ Live(u) => t = u
    /\ \A t, u \in DOMAIN sessions :
          sessions[t].link = sessions[u].link /\ sessions[t].link # 0
            /\ -sessions[t].link \notin raced => t = u

(***************************************************************************)
(* The limits hold although each is a read, or an INCR, with other         *)
(* requests in between: no more logins per window than the limit, and no   *)
(* more refused passwords than the threshold, but for those that were      *)
(* being looked at together and those a crash kept from being counted.     *)
(***************************************************************************)
LimitsHold ==
    /\ admitted <= LoginLimit
    /\ looked < Threshold + Cardinality(Requests) * (1 + crashes)

(***************************************************************************)
(* A lock has an expiry, or a request is about to set it: also when a      *)
(* process died after the first failure of the window and left the counter *)
(* without one.  Only a death within the two commands that lock is fatal.  *)
(***************************************************************************)
LockHasClock ==
    unclocked \/ \A s \in Subjects :
        failures[s].count >= Threshold =>
            failures[s].clock \/ \E r \in Requests : pc[r] = "fail_clock" /\ subject[r] = s
=============================================================================
