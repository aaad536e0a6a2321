--------------------------- MODULE SessionsProofs ---------------------------
(***************************************************************************)
(* Proofs about Sessions, for any number of requests and any limits.       *)
(***************************************************************************)
EXTENDS Sessions, FiniteSetTheorems, TLAPS

(***************************************************************************)
(* Type correctness, with what TypeOK leaves to the step that needs it:    *)
(* a request in the middle of a refresh, or of a link, has read a row.     *)
(***************************************************************************)
Typed ==
    /\ TypeOK
    /\ Len(sessions) <= MaxSessions /\ Len(links) <= MaxSessions
    /\ made \in Nat /\ expiries \in Nat /\ crashes \in Nat
    /\ \A t \in 1..Len(sessions) : sessions[t].root <= t /\ sessions[t].link <= Len(links)
    /\ \A r \in Requests : /\ pc[r] = "refresh" => source[r] \in 1..Len(sessions)
                           /\ pc[r] = "link" => source[r] \in 1..Len(links)

LEMMA Limits ==
    /\ IsFiniteSet(Requests) /\ MaxSessions \in Nat /\ MaxRequests \in Nat
    /\ LoginLimit \in Nat /\ LoginLimit >= 1 /\ Threshold \in Nat /\ Threshold >= 1
BY SessionsAssumption

\* What the commands of Redis make of a counter.
Key == [count : Nat, clock : BOOLEAN]

LEMMA KeyCommands ==
    ASSUME NEW key \in Key
    PROVE  /\ key.count \in Nat /\ key.clock \in BOOLEAN
           /\ Incr(key) \in Key /\ Incr(key).count = key.count + 1 /\ Incr(key).clock = key.clock
           /\ Expire(key) \in Key /\ Expire(key).count = key.count
           /\ Expire(key).clock <=> key.count > 0
           /\ NoKey \in Key /\ NoKey.count = 0 /\ ~ NoKey.clock
<1>1. Expire(key) = [count |-> key.count, clock |-> key.count > 0]
  BY DEF Key, Expire
<1>2. Expire(key) \in Key
  BY <1>1, (key.count > 0) \in BOOLEAN DEF Key
<1> QED  BY <1>2 DEF Key, Incr, Expire, NoKey

\* The rows after one more is added, with a new root or under an old one.
LEMMA AddedSession ==
    ASSUME NEW s \in Seq(Session), Len(s) < MaxSessions,
           NEW root \in 0..Len(s), NEW link \in 0..MaxSessions
    PROVE  /\ Add(s, root, link) \in Seq(Session)
           /\ Len(Add(s, root, link)) = Len(s) + 1
           /\ \A t \in 1..Len(s) : Add(s, root, link)[t] = s[t]
           /\ Add(s, root, link)[Len(s) + 1].status = "live"
           /\ Add(s, root, link)[Len(s) + 1].root = IF root = 0 THEN Len(s) + 1 ELSE root
           /\ Add(s, root, link)[Len(s) + 1].link = link
<1> DEFINE row == [status |-> "live", root |-> IF root = 0 THEN Len(s) + 1 ELSE root, link |-> link]
<1>1. Len(s) \in Nat  OBVIOUS
<1>2. row \in Session  BY <1>1, Limits DEF Session
<1>3. Add(s, root, link) = Append(s, row)  BY DEF Add
<1>5. row.status = "live" /\ row.root = (IF root = 0 THEN Len(s) + 1 ELSE root) /\ row.link = link
  OBVIOUS
<1> HIDE DEF row
<1>4. /\ Append(s, row) \in Seq(Session) /\ Len(Append(s, row)) = Len(s) + 1
      /\ \A t \in 1..Len(s) : Append(s, row)[t] = s[t]
      /\ Append(s, row)[Len(s) + 1] = row
  BY <1>1, <1>2
<1> QED  BY <1>3, <1>4, <1>5

\* The rows after one was revoked, or has expired: its root and its link stay.
Ends(s, t, status) == [s EXCEPT ![t].status = status]

LEMMA EndedSession ==
    ASSUME NEW s \in Seq(Session), NEW t \in 1..Len(s), NEW status \in {"revoked", "expired"}
    PROVE  /\ Ends(s, t, status) \in Seq(Session)
           /\ Len(Ends(s, t, status)) = Len(s)
           /\ \A u \in 1..Len(s) :
                 /\ Ends(s, t, status)[u].root = s[u].root
                 /\ Ends(s, t, status)[u].link = s[u].link
                 /\ Ends(s, t, status)[u].status = IF u = t THEN status ELSE s[u].status
<1>1. s[t] \in Session /\ DOMAIN s = 1..Len(s) /\ Len(s) \in Nat  OBVIOUS
<1> DEFINE row == [s[t] EXCEPT !.status = status]
<1>2. row \in Session /\ row.root = s[t].root /\ row.link = s[t].link /\ row.status = status
  BY <1>1 DEF Session
<1>3. Ends(s, t, status) = [s EXCEPT ![t] = row]  BY <1>1 DEF Session, Ends
<1> HIDE DEF row
<1>4. [s EXCEPT ![t] = row] \in Seq(Session) /\ Len([s EXCEPT ![t] = row]) = Len(s)  BY <1>1, <1>2
<1>5. \A u \in 1..Len(s) : [s EXCEPT ![t] = row][u] = IF u = t THEN row ELSE s[u]  OBVIOUS
<1> QED  BY <1>2, <1>3, <1>4, <1>5

\* The rows after a refresh.
LEMMA RefreshedSession ==
    ASSUME NEW s \in Seq(Session), Len(s) < MaxSessions, NEW t \in 1..Len(s),
           s[t].root <= t, NEW after, after = Add(Ends(s, t, "revoked"), s[t].root, 0)
    PROVE  /\ after \in Seq(Session) /\ Len(after) = Len(s) + 1
           /\ \A u \in 1..Len(s) : /\ after[u].root = s[u].root /\ after[u].link = s[u].link
                                   /\ after[u].status = IF u = t THEN "revoked" ELSE s[u].status
           /\ after[Len(s) + 1].status = "live"
           /\ after[Len(s) + 1].root = s[t].root
           /\ after[Len(s) + 1].link = 0
<1>0. s[t] \in Session
  OBVIOUS
<1>1. s[t].root \in 1..MaxSessions
  BY <1>0 DEF Session
<1> DEFINE old == Ends(s, t, "revoked")
<1>2. /\ old \in Seq(Session) /\ Len(old) = Len(s)
      /\ \A u \in 1..Len(s) : /\ old[u].root = s[u].root /\ old[u].link = s[u].link
                              /\ old[u].status = IF u = t THEN "revoked" ELSE s[u].status
  BY EndedSession
<1>3. after = Add(old, s[t].root, 0)
  OBVIOUS
<1> HIDE DEF old
<1>4. s[t].root \in 0..Len(old) /\ s[t].root # 0 /\ 0 \in 0..MaxSessions
  BY <1>1, <1>2, Limits
<1>5. /\ after \in Seq(Session) /\ Len(after) = Len(old) + 1
      /\ \A u \in 1..Len(old) : after[u] = old[u]
      /\ after[Len(old) + 1].status = "live"
      /\ after[Len(old) + 1].root = s[t].root
      /\ after[Len(old) + 1].link = 0
  <2>1. PICK root : root = s[t].root
    OBVIOUS
  <2>2. old \in Seq(Session) /\ Len(old) < MaxSessions /\ root \in 0..Len(old) /\ root # 0
    BY <1>2, <1>4, <2>1
  <2>3. 0 \in 0..MaxSessions /\ after = Add(old, root, 0)
    BY <1>3, <1>4, <2>1

  <2>4. /\ Add(old, root, 0) \in Seq(Session) /\ Len(Add(old, root, 0)) = Len(old) + 1
        /\ \A u \in 1..Len(old) : Add(old, root, 0)[u] = old[u]
        /\ Add(old, root, 0)[Len(old) + 1].status = "live"
        /\ Add(old, root, 0)[Len(old) + 1].root = root
        /\ Add(old, root, 0)[Len(old) + 1].link = 0
    BY <2>2, <2>3, AddedSession
  <2> QED  BY <2>1, <2>3, <2>4
<1>6. after \in Seq(Session) /\ Len(after) = Len(s) + 1
  BY <1>2, <1>5
<1>7. \A u \in 1..Len(s) : after[u] = old[u]
  BY <1>2, <1>5
<1>8. /\ after[Len(s) + 1].status = "live" /\ after[Len(s) + 1].root = s[t].root
      /\ after[Len(s) + 1].link = 0
  <2> QED  BY <1>2, <1>5
<1>9. \A u \in 1..Len(s) : /\ after[u].root = s[u].root /\ after[u].link = s[u].link
                            /\ after[u].status = IF u = t THEN "revoked" ELSE s[u].status
  BY <1>2, <1>7
<1> QED  BY <1>6, <1>8, <1>9

\* What a request comes to when it ends.
LEMMA Ended ==
    ASSUME Typed, NEW r \in Requests, End(r)
    PROVE  /\ pc' = [pc EXCEPT ![r] = "idle"] /\ pc'[r] = "idle"
           /\ subject' \in [Requests -> Subjects] /\ source' \in [Requests -> 0..MaxSessions]
           /\ \A q \in Requests : /\ pc'[q] = "refresh" => pc[q] = "refresh" /\ source'[q] = source[q]
                                  /\ pc'[q] = "link" => pc[q] = "link" /\ source'[q] = source[q]
BY Limits DEF Typed, TypeOK, End, Subjects

(***************************************************************************)
(* Every step keeps the types: Redis first, then the rows.                 *)
(***************************************************************************)
\* What a step that reads and writes no row has to show.
LEMMA TypedQuiet ==
    ASSUME Typed, UNCHANGED <<sessions, links>>,
           pc' \in [Requests -> {"idle", "rate", "rate_clock", "locked?", "password", "failed",
                                 "fail_clock", "issue", "refresh", "mailed", "link"}],
           subject' \in [Requests -> Subjects], source' \in [Requests -> 0..MaxSessions],
           \A q \in Requests : /\ pc'[q] = "refresh" => pc[q] = "refresh" /\ source'[q] = source[q]
                               /\ pc'[q] = "link" => pc[q] = "link" /\ source'[q] = source[q],
           logins' \in Key, failures' \in [Subjects -> Key],
           looked' \in Nat, admitted' \in Nat, unclocked' \in BOOLEAN,
           made' \in Nat, expiries' \in Nat, crashes' \in Nat
    PROVE  Typed'
BY DEF Typed, TypeOK, Key

LEMMA TypedRedis ==
    ASSUME Typed, NEW r \in Requests,
           \/ login(r) \/ Hit(r) \/ HitClock(r) \/ assert_not_locked(r) \/ WrongPassword(r)
           \/ record_failure(r) \/ FailClock(r) \/ clear(r)
    PROVE  Typed'
<1>a. /\ pc \in [Requests -> {"idle", "rate", "rate_clock", "locked?", "password", "failed",
                              "fail_clock", "issue", "refresh", "mailed", "link"}]
      /\ subject \in [Requests -> Subjects] /\ source \in [Requests -> 0..MaxSessions]
      /\ logins \in Key /\ failures \in [Subjects -> Key]
      /\ looked \in Nat /\ admitted \in Nat /\ unclocked \in BOOLEAN
      /\ made \in Nat /\ expiries \in Nat /\ crashes \in Nat
  BY DEF Typed, TypeOK, Key
<1>b. "account" \in Subjects /\ "address" \in Subjects
  BY DEF Subjects
<1>1. CASE login(r)
  BY <1>1, <1>a, TypedQuiet DEF login, Begin, Go, rows, redis, history
<1>2. CASE Hit(r)
  <2>1. logins' \in Key  BY <1>2, <1>a, KeyCommands DEF Hit
  <2>2. CASE End(r)
    BY <1>2, <1>a, <2>1, <2>2, Ended, TypedQuiet DEF Hit, rows, bounds
  <2>3. CASE ~ End(r)
    BY <1>2, <1>a, <2>1, <2>3, TypedQuiet DEF Hit, Go, rows, bounds
  <2> QED  BY <2>2, <2>3
<1>3. CASE HitClock(r)
  <2>1. logins' \in Key  BY <1>3, <1>a, KeyCommands DEF HitClock
  <2> QED  BY <1>3, <1>a, <2>1, TypedQuiet DEF HitClock, Go, rows, bounds
<1>4. CASE assert_not_locked(r)
  <2>1. CASE End(r)
    BY <1>4, <1>a, <2>1, Ended, TypedQuiet DEF assert_not_locked, rows, redis, history, bounds
  <2>2. CASE ~ End(r)
    BY <1>4, <1>a, <1>b, <2>2, TypedQuiet DEF assert_not_locked, Go, rows, redis, history, bounds
  <2> QED  BY <2>1, <2>2
<1>5. CASE WrongPassword(r)
  BY <1>5, <1>a, TypedQuiet DEF WrongPassword, Go, rows, redis, bounds
<1>6. CASE record_failure(r)
  <2>1. failures' \in [Subjects -> Key]
    BY <1>6, <1>a, KeyCommands DEF record_failure
  <2>2. CASE End(r)
    BY <1>6, <1>a, <2>1, <2>2, Ended, TypedQuiet DEF record_failure, rows, history, bounds
  <2>3. CASE ~ End(r)
    BY <1>6, <1>a, <1>b, <2>1, <2>3, TypedQuiet
       DEF record_failure, NextSubject, Go, rows, history, bounds
  <2> QED  BY <2>2, <2>3
<1>7. CASE FailClock(r)
  <2>1. failures' \in [Subjects -> Key]
    BY <1>7, <1>a, KeyCommands DEF FailClock
  <2>2. CASE End(r)
    BY <1>7, <1>a, <2>1, <2>2, Ended, TypedQuiet DEF FailClock, rows, history, bounds
  <2>3. CASE ~ End(r)
    BY <1>7, <1>a, <1>b, <2>1, <2>3, TypedQuiet DEF FailClock, NextSubject, rows, history, bounds
  <2> QED  BY <2>2, <2>3
<1>8. CASE clear(r)
  BY <1>8, <1>a, KeyCommands, TypedQuiet DEF clear, Go, rows, bounds
<1> QED  BY <1>1, <1>2, <1>3, <1>4, <1>5, <1>6, <1>7, <1>8

\* What a step that adds a session, or ends one, has to show.
LEMMA TypedRow ==
    ASSUME Typed, Len(sessions') = Len(sessions) \/ Len(sessions') = Len(sessions) + 1,
           \A t \in 1..Len(sessions) : /\ sessions'[t].root = sessions[t].root
                                       /\ sessions'[t].link = sessions[t].link,
           Len(sessions') = Len(sessions) + 1 =>
              /\ sessions'[Len(sessions) + 1].root <= Len(sessions) + 1
              /\ sessions'[Len(sessions) + 1].link <= Len(links'),
           Len(links') = Len(links)
    PROVE  /\ \A t \in 1..Len(sessions') : sessions'[t].root <= t /\ sessions'[t].link <= Len(links')
           /\ \A t \in 1..Len(sessions) : t \in 1..Len(sessions')
<1>1. \A t \in 1..Len(sessions) : sessions[t].root <= t /\ sessions[t].link <= Len(links)
  BY DEF Typed
<1>2. Len(sessions) \in Nat
  BY DEF Typed, TypeOK
<1>3. \A t \in 1..Len(sessions') : sessions'[t].root <= t /\ sessions'[t].link <= Len(links')
  BY <1>1, <1>2
<1>4. \A t \in 1..Len(sessions) : t \in 1..Len(sessions')
  BY <1>2
<1> QED  BY <1>3, <1>4

\* What else such a step has to show, when a request ends with it.
LEMMA TypedEnds ==
    ASSUME Typed, NEW r \in Requests, End(r), UNCHANGED <<redis, history, bounds>>,
           sessions' \in Seq(Session), links' \in Seq(MagicLink),
           Len(sessions') <= MaxSessions, Len(links') <= MaxSessions,
           \A t \in 1..Len(sessions') : sessions'[t].root <= t /\ sessions'[t].link <= Len(links'),
           \A t \in 1..Len(sessions) : t \in 1..Len(sessions'),
           \A l \in 1..Len(links) : l \in 1..Len(links')
    PROVE  Typed'
<1>1. \A q \in Requests : /\ pc'[q] = "refresh" => source'[q] \in 1..Len(sessions')
                          /\ pc'[q] = "link" => source'[q] \in 1..Len(links')
  BY Ended DEF Typed
<1>2. /\ pc' \in [Requests -> {"idle", "rate", "rate_clock", "locked?", "password", "failed",
                               "fail_clock", "issue", "refresh", "mailed", "link"}]
      /\ subject' \in [Requests -> Subjects] /\ source' \in [Requests -> 0..MaxSessions]
  <2>1. pc \in [Requests -> {"idle", "rate", "rate_clock", "locked?", "password", "failed",
                             "fail_clock", "issue", "refresh", "mailed", "link"}]
    BY DEF Typed, TypeOK
  <2> QED  BY <2>1, Ended
<1>3. /\ logins' \in Key /\ failures' \in [Subjects -> Key]
      /\ looked' \in Nat /\ admitted' \in Nat /\ unclocked' \in BOOLEAN
  BY DEF Typed, TypeOK, Key, redis, history
<1>4. TypeOK'
  BY <1>2, <1>3 DEF TypeOK, Key
<1> QED  BY <1>1, <1>4 DEF Typed, bounds

LEMMA Held ==
    ASSUME Typed, NEW r \in Requests, NEW t \in 1..Len(sessions)
    PROVE  /\ sessions[t] \in Session
           /\ sessions[t].root \in 1..MaxSessions /\ sessions[t].root <= t
           /\ sessions[t].link \in 0..MaxSessions /\ sessions[t].link <= Len(links)
           /\ pc[r] = "refresh" => source[r] \in 1..Len(sessions)
           /\ pc[r] = "link" => source[r] \in 1..Len(links) /\ source[r] \in 0..MaxSessions
<1>1. sessions \in Seq(Session) /\ source[r] \in 0..MaxSessions
  BY DEF Typed, TypeOK
<1>2. sessions[t] \in Session
  BY <1>1
<1>3. sessions[t].root \in 1..MaxSessions /\ sessions[t].link \in 0..MaxSessions
  BY <1>2 DEF Session
<1> QED  BY <1>1, <1>2, <1>3 DEF Typed

LEMMA TypedRows ==
    ASSUME Typed, NEW r \in Requests,
           issue_tokens(r) \/ refresh_tokens(r) \/ logout(r) \/ consume_magic_link(r)
    PROVE  Typed'
<1>a. /\ sessions \in Seq(Session) /\ links \in Seq(MagicLink)
      /\ Len(sessions) \in Nat /\ Len(links) \in Nat
      /\ Len(sessions) <= MaxSessions /\ Len(links) <= MaxSessions
  BY DEF Typed, TypeOK
<1>1. CASE issue_tokens(r)
  <2>1. sessions' = Add(sessions, 0, 0) /\ Len(sessions) < MaxSessions
        /\ End(r) /\ UNCHANGED <<redis, links, history, bounds>>
    BY <1>1 DEF issue_tokens
  <2>2. /\ sessions' \in Seq(Session) /\ Len(sessions') = Len(sessions) + 1
        /\ \A t \in 1..Len(sessions) : sessions'[t] = sessions[t]
        /\ sessions'[Len(sessions) + 1].root = Len(sessions) + 1
        /\ sessions'[Len(sessions) + 1].link = 0
    BY <2>1, <1>a, Limits, AddedSession
  <2>3. /\ \A t \in 1..Len(sessions') : sessions'[t].root <= t /\ sessions'[t].link <= Len(links')
        /\ \A t \in 1..Len(sessions) : t \in 1..Len(sessions')
    BY <2>1, <2>2, <1>a, Limits, TypedRow
  <2> QED  BY <2>1, <2>2, <2>3, <1>a, Limits, TypedEnds
<1>2. CASE refresh_tokens(r)
  <2>1. PICK t \in 1..Len(sessions) : t = source[r]
    BY <1>2 DEF refresh_tokens, Typed
  <2>2. /\ sessions' = Add(Ends(sessions, t, "revoked"), sessions[t].root, 0)
        /\ Len(sessions) < MaxSessions /\ End(r) /\ UNCHANGED <<redis, links, history, bounds>>
    BY <1>2, <2>1 DEF refresh_tokens, RootOf, Ends
  <2>3. sessions[t].root <= t
    BY DEF Typed
  <2>4. /\ sessions' \in Seq(Session) /\ Len(sessions') = Len(sessions) + 1
        /\ \A u \in 1..Len(sessions) : /\ sessions'[u].root = sessions[u].root
                                       /\ sessions'[u].link = sessions[u].link
        /\ sessions'[Len(sessions) + 1].root = sessions[t].root
        /\ sessions'[Len(sessions) + 1].link = 0
    BY <2>2, <2>3, <1>a, RefreshedSession
  <2>5. sessions[t].root \in 1..MaxSessions
    BY Held
  <2>6. /\ \A u \in 1..Len(sessions') : sessions'[u].root <= u /\ sessions'[u].link <= Len(links')
        /\ \A u \in 1..Len(sessions) : u \in 1..Len(sessions')
    BY <2>2, <2>3, <2>4, <2>5, <1>a, Limits, TypedRow
  <2> QED  BY <2>2, <2>4, <2>6, <1>a, Limits, TypedEnds
<1>3. CASE logout(r)
  <2>d. DOMAIN sessions = 1..Len(sessions)
    BY <1>a
  <2>1. PICK t \in 1..Len(sessions) : sessions' = Ends(sessions, t, "revoked")
    BY <1>3, <2>d DEF logout, Ends
  <2>2. /\ sessions' \in Seq(Session) /\ Len(sessions') = Len(sessions)
        /\ \A u \in 1..Len(sessions) : sessions'[u].root = sessions[u].root /\ sessions'[u].link = sessions[u].link
    BY <2>1, <1>a, EndedSession
  <2>3. /\ UNCHANGED <<pc, subject, source, redis, links, looked, admitted, unclocked, expiries, crashes>>
        /\ made' = made + 1
    BY <1>3 DEF logout
  <2>4. \A u \in 1..Len(sessions') : sessions'[u].root <= u /\ sessions'[u].link <= Len(links')
    BY <2>2, <2>3, <1>a, TypedRow
  <2>5. TypeOK'
    BY <2>2, <2>3 DEF Typed, TypeOK, redis
  <2> QED  BY <2>2, <2>3, <2>4, <2>5 DEF Typed
<1>4. CASE consume_magic_link(r)
  <2>1. PICK l \in 1..Len(links) : l = source[r]
    BY <1>4 DEF consume_magic_link, Typed
  <2>2. links' \in Seq(MagicLink) /\ Len(links') = Len(links)
    BY <1>4, <2>1, <1>a DEF consume_magic_link, MagicLink
  <2>3. /\ Len(sessions) < MaxSessions /\ End(r) /\ UNCHANGED <<redis, history, bounds>>
        /\ sessions' = Add(sessions, 0, l)
    BY <1>4, <2>1 DEF consume_magic_link
  <2>4. /\ sessions' \in Seq(Session) /\ Len(sessions') = Len(sessions) + 1
        /\ \A t \in 1..Len(sessions) : sessions'[t] = sessions[t]
        /\ sessions'[Len(sessions) + 1].root = Len(sessions) + 1
        /\ sessions'[Len(sessions) + 1].link = l
    BY <2>3, <1>a, Limits, AddedSession
  <2>5. /\ \A t \in 1..Len(sessions') : sessions'[t].root <= t /\ sessions'[t].link <= Len(links')
        /\ \A t \in 1..Len(sessions) : t \in 1..Len(sessions')
    BY <2>2, <2>3, <2>4, <1>a, Limits, TypedRow
  <2> QED  BY <2>2, <2>3, <2>4, <2>5, <1>a, Limits, TypedEnds
<1> QED  BY <1>1, <1>2, <1>3, <1>4

LEMMA TypedReads ==
    ASSUME Typed, NEW r \in Requests,
           \/ ReadSession(r) \/ send_magic_link(r) \/ StoreLink(r) \/ ReadLink(r) \/ Rollback(r)
    PROVE  Typed'
<1>a. /\ sessions \in Seq(Session) /\ links \in Seq(MagicLink)
      /\ Len(sessions) \in Nat /\ Len(links) \in Nat
      /\ Len(sessions) <= MaxSessions /\ Len(links) <= MaxSessions
  BY DEF Typed, TypeOK
<1>d. DOMAIN sessions = 1..Len(sessions) /\ DOMAIN links = 1..Len(links)
  BY <1>a
<1>1. CASE ReadSession(r)
  <2>1. PICK t \in 1..Len(sessions) : source' = [source EXCEPT ![r] = t]
    BY <1>1, <1>d DEF ReadSession
  <2>2. t \in 0..MaxSessions
    BY <1>a, Limits
  <2> QED  BY <1>1, <2>1, <2>2 DEF ReadSession, Begin, Go, Typed, TypeOK, redis, rows
<1>2. CASE send_magic_link(r)
  BY <1>2 DEF send_magic_link, Begin, Go, Typed, TypeOK, redis, rows, history
<1>3. CASE StoreLink(r)
  <2>1. links' \in Seq(MagicLink) /\ Len(links') = Len(links) + 1
    BY <1>3, <1>a DEF StoreLink, MagicLink
  <2>2. Len(links) < MaxSessions /\ End(r) /\ UNCHANGED <<redis, sessions, history, bounds>>
    BY <1>3 DEF StoreLink
  <2>3. \A t \in 1..Len(sessions) : sessions[t].root <= t /\ sessions[t].link \in 0..MaxSessions
                                    /\ sessions[t].link <= Len(links)
    BY Held
  <2>4. \A t \in 1..Len(sessions') : sessions'[t].root <= t /\ sessions'[t].link <= Len(links')
    BY <2>1, <2>2, <2>3, <1>a, Limits
  <2>5. \A l \in 1..Len(links) : l \in 1..Len(links')
    BY <1>a, <2>1
  <2> QED  BY <2>1, <2>2, <2>4, <2>5, <1>a, Limits, TypedEnds
<1>4. CASE ReadLink(r)
  <2>1. PICK l \in 1..Len(links) : source' = [source EXCEPT ![r] = l]
    BY <1>4, <1>d DEF ReadLink
  <2>2. l \in 0..MaxSessions
    BY <1>a, Limits
  <2> QED  BY <1>4, <2>1, <2>2 DEF ReadLink, Begin, Go, Typed, TypeOK, redis, rows
<1>5. CASE Rollback(r)
  <2>1. End(r) /\ UNCHANGED <<redis, rows, history, bounds>>
    BY <1>5 DEF Rollback
  <2>2. \A t \in 1..Len(sessions) : sessions[t].root <= t /\ sessions[t].link <= Len(links)
    BY Held
  <2> QED  BY <2>1, <2>2, <1>a, TypedEnds DEF rows
<1> QED  BY <1>1, <1>2, <1>3, <1>4, <1>5

LEMMA TypedTime ==
    ASSUME Typed, WindowEnds \/ (\E s \in Subjects : LockEnds(s)) \/ RowExpires \/ Crash
    PROVE  Typed'
<1>a. /\ sessions \in Seq(Session) /\ links \in Seq(MagicLink)
      /\ Len(sessions) \in Nat /\ Len(links) \in Nat
  BY DEF Typed, TypeOK
<1>d. DOMAIN sessions = 1..Len(sessions) /\ DOMAIN links = 1..Len(links)
  BY <1>a
<1>1. CASE WindowEnds
  BY <1>1 DEF WindowEnds, Elapses, NoKey, Typed, TypeOK, rows
<1>2. ASSUME NEW s \in Subjects, LockEnds(s)  PROVE Typed'
  BY <1>2 DEF LockEnds, Elapses, NoKey, Typed, TypeOK, rows
<1>3. CASE RowExpires
  <2>1. ASSUME NEW t \in 1..Len(sessions), UNCHANGED links,
               sessions' = Ends(sessions, t, "expired")
        PROVE  Typed'
    <3> DEFINE after == Ends(sessions, t, "expired")
    <3>0. /\ after \in Seq(Session) /\ Len(after) = Len(sessions)
          /\ \A u \in 1..Len(sessions) : after[u].root = sessions[u].root /\ after[u].link = sessions[u].link
      <4>1. PICK s \in Seq(Session) : s = sessions
        BY <1>a
      <4>2. PICK to \in {"revoked", "expired"} : to = "expired"
        OBVIOUS
      <4>3. /\ Ends(s, t, to) \in Seq(Session) /\ Len(Ends(s, t, to)) = Len(s)
            /\ \A u \in 1..Len(s) : Ends(s, t, to)[u].root = s[u].root /\ Ends(s, t, to)[u].link = s[u].link
        BY <2>1, <4>1, EndedSession
      <4> QED  BY <4>1, <4>2, <4>3
    <3>a. sessions' = after
      BY <2>1
    <3> HIDE DEF after
    <3>1. /\ sessions' \in Seq(Session) /\ Len(sessions') = Len(sessions)
          /\ \A u \in 1..Len(sessions) : sessions'[u].root = sessions[u].root /\ sessions'[u].link = sessions[u].link
      BY <3>0, <3>a
    <3>2. /\ \A u \in 1..Len(sessions') : sessions'[u].root <= u /\ sessions'[u].link <= Len(links')
          /\ \A u \in 1..Len(sessions) : u \in 1..Len(sessions')
      BY <2>1, <3>1, <1>a, TypedRow DEF Typed
    <3>3. /\ UNCHANGED <<pc, subject, source, logins, failures, looked, admitted, unclocked, made, crashes>>
          /\ expiries' \in Nat
      BY <1>3 DEF RowExpires, Elapses, Typed, redis, history
    <3>4. TypeOK'
      BY <2>1, <3>1, <3>3 DEF Typed, TypeOK
    <3>5. Len(sessions') <= MaxSessions /\ Len(links') <= MaxSessions
      BY <2>1, <3>1 DEF Typed
    <3>6. \A r \in Requests : /\ pc'[r] = "refresh" => source'[r] \in 1..Len(sessions')
                              /\ pc'[r] = "link" => source'[r] \in 1..Len(links')
      BY <2>1, <3>1, <3>3 DEF Typed
    <3>7. made' \in Nat /\ crashes' \in Nat
      BY <3>3 DEF Typed
    <3> QED  BY <3>2, <3>3, <3>4, <3>5, <3>6, <3>7 DEF Typed
  <2>2. ASSUME NEW l \in 1..Len(links), UNCHANGED sessions, links' = [links EXCEPT ![l] = "expired"]
        PROVE  Typed'
    <3>1. links' \in Seq(MagicLink) /\ Len(links') = Len(links)
      BY <2>2, <1>a DEF MagicLink
    <3> QED  BY <1>3, <2>2, <3>1, <1>a DEF RowExpires, Elapses, Typed, TypeOK, redis, history
  <2> QED  BY <1>3, <1>d, <2>1, <2>2 DEF RowExpires, Ends
<1>4. CASE Crash
  <2>1. /\ logins \in Key /\ failures \in [Subjects -> Key] /\ looked \in Nat /\ admitted \in Nat
        /\ made \in Nat /\ expiries \in Nat /\ crashes \in Nat
    BY DEF Typed, TypeOK, Key
  <2>2. unclocked' \in BOOLEAN
    BY <1>4, Zenon DEF Crash
  <2>3. /\ pc' = [r \in Requests |-> "idle"] /\ source' = [r \in Requests |-> 0]
        /\ subject' = [r \in Requests |-> "account"] /\ crashes' = crashes + 1
        /\ UNCHANGED <<logins, failures, sessions, links, looked, admitted, made, expiries>>
    BY <1>4 DEF Crash, redis, rows
  <2>4. /\ pc' \in [Requests -> {"idle", "rate", "rate_clock", "locked?", "password", "failed",
                                 "fail_clock", "issue", "refresh", "mailed", "link"}]
        /\ subject' \in [Requests -> Subjects] /\ source' \in [Requests -> 0..MaxSessions]
        /\ \A r \in Requests : pc'[r] = "idle"
    BY <2>3, Limits DEF Subjects
  <2> QED  BY <2>1, <2>2, <2>3, <2>4, TypedQuiet
<1> QED  BY <1>1, <1>2, <1>3, <1>4

\* The same for every step of the specification.
LEMMA TypedNext == Typed /\ [Next]_vars => Typed'
<1> SUFFICES ASSUME Typed, [Next]_vars  PROVE Typed'
  OBVIOUS
<1>1. CASE UNCHANGED vars
  BY <1>1 DEF vars, redis, rows, history, bounds, Typed, TypeOK
<1>2. CASE Next
  BY <1>2, TypedRedis, TypedRows, TypedReads, TypedTime DEF Next
<1> QED  BY <1>1, <1>2

(***************************************************************************)
(* Requests, counters and rows have their types, and what a request holds  *)
(* in the middle of a refresh or of a link is a row there is.              *)
(***************************************************************************)
THEOREM TypeCorrect == Spec => []Typed
<1>1. ASSUME Init  PROVE Typed
  <2>1. /\ logins \in Key /\ failures \in [Subjects -> Key]
    BY <1>1 DEF Init, NoKey, Key
  <2>2. /\ pc = [r \in Requests |-> "idle"] /\ source = [r \in Requests |-> 0]
        /\ subject = [r \in Requests |-> "account"] /\ sessions = <<>> /\ links = <<>>
        /\ looked = 0 /\ admitted = 0 /\ unclocked = FALSE /\ made = 0 /\ expiries = 0 /\ crashes = 0
    BY <1>1 DEF Init
  <2>s. sessions \in Seq(Session) /\ links \in Seq(MagicLink)
    BY <2>2
  <2>t. /\ pc \in [Requests -> {"idle", "rate", "rate_clock", "locked?", "password", "failed",
                                "fail_clock", "issue", "refresh", "mailed", "link"}]
        /\ subject \in [Requests -> Subjects] /\ source \in [Requests -> 0..MaxSessions]
    BY <2>2, Limits DEF Subjects
  <2>3. TypeOK
    BY <2>1, <2>2, <2>s, <2>t DEF TypeOK, Key
  <2>4. Len(sessions) = 0 /\ Len(links) = 0
    BY <2>2
  <2> QED  BY <2>2, <2>3, <2>4, Limits DEF Typed
<1> QED  BY <1>1, TypedNext, PTL DEF Spec
-----------------------------------------------------------------------------
(***************************************************************************)
(* Locks and limits.                                                       *)
(***************************************************************************)
\* The part of the types that counting needs.
LEMMA Counters ==
    ASSUME Typed
    PROVE  /\ logins \in Key /\ failures \in [Subjects -> Key] /\ subject \in [Requests -> Subjects]
           /\ looked \in Nat /\ admitted \in Nat /\ crashes \in Nat /\ unclocked \in BOOLEAN
           /\ pc \in [Requests -> {"idle", "rate", "rate_clock", "locked?", "password", "failed",
                                   "fail_clock", "issue", "refresh", "mailed", "link"}]
           /\ "account" \in Subjects /\ "address" \in Subjects
BY DEF Typed, TypeOK, Key, Subjects

\* A step that neither counts, nor sets a clock, nor loses a request.
LEMMA LockQuiet ==
    ASSUME LockHasClock, UNCHANGED <<failures, unclocked>>,
           \A q \in Requests : pc[q] = "fail_clock" => pc'[q] = "fail_clock" /\ subject'[q] = subject[q]
    PROVE  LockHasClock'
BY DEF LockHasClock

\* Each step keeps a lock from being left without a clock.
LEMMA LockNext ==
    ASSUME Typed, LockHasClock, [Next]_vars
    PROVE  LockHasClock'
<1>a. /\ failures \in [Subjects -> Key] /\ subject \in [Requests -> Subjects]
      /\ pc \in [Requests -> {"idle", "rate", "rate_clock", "locked?", "password", "failed",
                              "fail_clock", "issue", "refresh", "mailed", "link"}]
  BY Counters
<1>1. ASSUME NEW r \in Requests, record_failure(r)  PROVE LockHasClock'
  <2>1. pc[r] = "failed" /\ UNCHANGED unclocked
    BY <1>1 DEF record_failure, history
  <2>2. PICK s \in Subjects : s = subject[r]
    BY <1>a
  <2>3. failures' = [failures EXCEPT ![s] = Incr(failures[s])]
    BY <1>1, <2>2, <1>a DEF record_failure
  <2>4. failures'[s].count = failures[s].count + 1 /\ failures'[s].clock = failures[s].clock
        /\ failures[s].count \in Nat
    BY <2>3, <1>a, KeyCommands
  <2>5. \A q \in Requests : q # r => pc'[q] = pc[q] /\ subject'[q] = subject[q]
    BY <1>1, <1>a DEF record_failure, NextSubject, Go, End
  <2>6. failures'[s].count = Threshold => pc'[r] = "fail_clock" /\ subject'[r] = s
    BY <1>1, <2>2, <1>a DEF record_failure, Go
  <2>7. ASSUME NEW u \in Subjects, ~ unclocked, failures'[u].count >= Threshold
        PROVE  failures'[u].clock \/ \E q \in Requests : pc'[q] = "fail_clock" /\ subject'[q] = u
    <3>1. CASE u = s /\ failures'[s].count = Threshold
      BY <2>6, <3>1
    <3>2. CASE u = s /\ failures'[s].count # Threshold
      <4>1. failures[s].count >= Threshold
        BY <2>4, <2>7, <3>2, Limits
      <4> QED  BY <4>1, <2>1, <2>4, <2>5, <2>7, <3>2 DEF LockHasClock
    <3>3. CASE u # s
      <4>1. failures'[u] = failures[u]
        BY <2>3, <3>3, <1>a
      <4> QED  BY <4>1, <2>1, <2>5, <2>7 DEF LockHasClock
    <3> QED  BY <3>1, <3>2, <3>3
  <2> QED  BY <2>1, <2>7 DEF LockHasClock
<1>2. ASSUME NEW r \in Requests, FailClock(r)  PROVE LockHasClock'
  <2>1. pc[r] = "fail_clock" /\ UNCHANGED unclocked
    BY <1>2 DEF FailClock, history
  <2>2. PICK s \in Subjects : s = subject[r]
    BY <1>a
  <2>3. failures' = [failures EXCEPT ![s] = Expire(failures[s])]
    BY <1>2, <2>2, <1>a DEF FailClock
  <2>4. failures'[s].count = failures[s].count /\ (failures'[s].clock <=> failures[s].count > 0)
        /\ failures[s].count \in Nat
    BY <2>3, <1>a, KeyCommands
  <2>5. \A q \in Requests : q # r => pc'[q] = pc[q] /\ subject'[q] = subject[q]
    BY <1>2, <1>a DEF FailClock, NextSubject, End
  <2>6. ASSUME NEW u \in Subjects, ~ unclocked, failures'[u].count >= Threshold
        PROVE  failures'[u].clock \/ \E q \in Requests : pc'[q] = "fail_clock" /\ subject'[q] = u
    <3>1. CASE u = s
      BY <2>4, <2>6, <3>1, Limits
    <3>2. CASE u # s
      <4>1. failures'[u] = failures[u]
        BY <2>3, <3>2, <1>a
      <4> QED  BY <4>1, <2>1, <2>2, <2>5, <2>6, <3>2 DEF LockHasClock
    <3> QED  BY <3>1, <3>2
  <2> QED  BY <2>1, <2>6 DEF LockHasClock
<1>3. ASSUME NEW r \in Requests, clear(r)  PROVE LockHasClock'
  <2>1. \A u \in Subjects : failures'[u].count = 0
    BY <1>3 DEF clear, NoKey
  <2> QED  BY <2>1, Limits DEF LockHasClock
<1>4. ASSUME NEW s \in Subjects, LockEnds(s)  PROVE LockHasClock'
  <2>1. /\ failures'[s].count = 0 /\ UNCHANGED <<pc, subject, unclocked>>
        /\ \A u \in Subjects : u # s => failures'[u] = failures[u]
    BY <1>4, <1>a DEF LockEnds, NoKey
  <2> QED  BY <2>1, Limits DEF LockHasClock
<1>5. CASE Crash
  <2>1. UNCHANGED failures
    BY <1>5 DEF Crash, redis
  <2>2. unclocked' <=> (unclocked \/ \E r \in Requests :
                           pc[r] = "fail_clock" /\ failures[subject[r]].count >= Threshold)
    BY <1>5, Zenon DEF Crash
  <2>3. unclocked' \/ \A s \in Subjects : failures[s].count >= Threshold => failures[s].clock
    BY <2>2 DEF LockHasClock
  <2> QED  BY <2>1, <2>3 DEF LockHasClock
<1>6. ASSUME NEW r \in Requests,
             \/ login(r) \/ Hit(r) \/ HitClock(r) \/ assert_not_locked(r) \/ WrongPassword(r)
      PROVE  LockHasClock'
  <2>1. UNCHANGED <<failures, unclocked>>
    BY <1>6 DEF login, Hit, HitClock, assert_not_locked, WrongPassword, redis, history
  <2>2. pc[r] # "fail_clock" /\ \A q \in Requests : q # r => pc'[q] = pc[q] /\ subject'[q] = subject[q]
    BY <1>6, <1>a DEF login, Hit, HitClock, assert_not_locked, WrongPassword, Begin, Go, End
  <2> QED  BY <2>1, <2>2, LockQuiet
<1>7. ASSUME NEW r \in Requests,
             \/ issue_tokens(r) \/ ReadSession(r) \/ refresh_tokens(r) \/ logout(r)
             \/ send_magic_link(r) \/ StoreLink(r) \/ ReadLink(r) \/ consume_magic_link(r)
             \/ Rollback(r)
      PROVE  LockHasClock'
  <2>1. UNCHANGED <<failures, unclocked>>
    BY <1>7 DEF issue_tokens, ReadSession, refresh_tokens, logout, send_magic_link, StoreLink,
                ReadLink, consume_magic_link, Rollback, redis, history
  <2>2. pc[r] # "fail_clock" /\ \A q \in Requests : q # r => pc'[q] = pc[q] /\ subject'[q] = subject[q]
    BY <1>7, <1>a DEF issue_tokens, ReadSession, refresh_tokens, logout, send_magic_link, StoreLink,
                ReadLink, consume_magic_link, Rollback, Begin, Go, End
  <2> QED  BY <2>1, <2>2, LockQuiet
<1>8. CASE WindowEnds \/ RowExpires \/ UNCHANGED vars
  BY <1>8, LockQuiet DEF WindowEnds, RowExpires, vars, redis, history
<1> QED  BY <1>1, <1>2, <1>3, <1>4, <1>5, <1>6, <1>7, <1>8 DEF Next

(***************************************************************************)
(* Whoever is locked out is let in again after a time: the counter that    *)
(* locks has an expiry, or a request is about to set it, unless a process  *)
(* died between the two commands.                                          *)
(***************************************************************************)
THEOREM LocksExpire == Spec => []LockHasClock
<1>1. Init => LockHasClock
  BY Limits DEF Init, NoKey, LockHasClock
<1>2. Typed /\ LockHasClock /\ [Next]_vars => LockHasClock'
  BY LockNext
<1> QED  BY <1>1, <1>2, TypeCorrect, PTL DEF Spec

(***************************************************************************)
(* The rate limit: what was let through was counted first, and at most one *)
(* request has a window to set the clock of.                               *)
(***************************************************************************)
RateInv ==
    /\ logins.count = 0 => ~ logins.clock
    /\ admitted <= logins.count /\ admitted <= LoginLimit
    /\ \A r \in Requests : pc[r] = "rate_clock" =>
          /\ ~ logins.clock /\ logins.count >= 1
          /\ admitted + 1 <= logins.count /\ admitted + 1 <= LoginLimit
          /\ \A q \in Requests : pc[q] = "rate_clock" => q = r

\* Each step keeps to the rate limit.
LEMMA RateNext ==
    ASSUME Typed, RateInv, [Next]_vars
    PROVE  RateInv'
<1>a. /\ logins \in Key /\ admitted \in Nat
      /\ pc \in [Requests -> {"idle", "rate", "rate_clock", "locked?", "password", "failed",
                              "fail_clock", "issue", "refresh", "mailed", "link"}]
  BY Counters
<1>b. logins.count \in Nat /\ Incr(logins).count = logins.count + 1 /\ Incr(logins).clock = logins.clock
      /\ Expire(logins).count = logins.count /\ (Expire(logins).clock <=> logins.count > 0)
  BY <1>a, KeyCommands
<1>1. ASSUME NEW r \in Requests, Hit(r)  PROVE RateInv'
  <2>1. /\ pc[r] = "rate" /\ logins'.count = logins.count + 1 /\ logins'.clock = logins.clock
        /\ \A q \in Requests : q # r => pc'[q] = pc[q]
    BY <1>1, <1>a, <1>b DEF Hit, Go, End
  <2>2. CASE logins'.count = 1
    <3>1. pc'[r] = "rate_clock" /\ admitted' = admitted /\ logins.count = 0
      BY <1>1, <1>a, <1>b, <2>1, <2>2 DEF Hit, Go
    <3>2. admitted = 0 /\ ~ logins.clock /\ \A q \in Requests : pc[q] # "rate_clock"
      BY <1>a, <3>1 DEF RateInv
    <3> QED  BY <2>1, <2>2, <3>1, <3>2, Limits DEF RateInv
  <2>3. CASE logins'.count > LoginLimit /\ logins'.count # 1
    <3>1. pc'[r] # "rate_clock" /\ admitted' = admitted
      BY <1>1, <1>a, <2>1, <2>3 DEF Hit, End
    <3> QED  BY <1>a, <1>b, <2>1, <3>1 DEF RateInv
  <2>4. CASE ~ (logins'.count > LoginLimit) /\ logins'.count # 1
    <3>1. pc'[r] # "rate_clock" /\ admitted' = admitted + 1
      BY <1>1, <1>a, <2>1, <2>4 DEF Hit, Go
    <3>2. admitted' <= logins'.count /\ admitted' <= LoginLimit
      BY <1>a, <1>b, <2>1, <2>4, <3>1, Limits DEF RateInv
    <3>3. \A q \in Requests : pc'[q] = "rate_clock" =>
             /\ ~ logins'.clock /\ logins'.count >= 1
             /\ admitted' + 1 <= logins'.count /\ admitted' + 1 <= LoginLimit
      BY <1>a, <1>b, <2>1, <2>4, <3>1, Limits DEF RateInv
    <3> QED  BY <1>a, <1>b, <2>1, <3>1, <3>2, <3>3 DEF RateInv
  <2> QED  BY <2>2, <2>3, <2>4
<1>2. ASSUME NEW r \in Requests, HitClock(r)  PROVE RateInv'
  <2>1. /\ pc[r] = "rate_clock" /\ logins'.count = logins.count /\ admitted' = admitted + 1
        /\ (logins'.clock <=> logins.count > 0)
    BY <1>2, <1>b DEF HitClock, Go
  <2>2. pc'[r] # "rate_clock" /\ \A q \in Requests : q # r => pc'[q] = pc[q]
    BY <1>2, <1>a DEF HitClock, Go
  <2> QED  BY <1>a, <1>b, <2>1, <2>2 DEF RateInv
<1>3. CASE WindowEnds
  <2>1. logins.clock /\ logins'.count = 0 /\ ~ logins'.clock /\ admitted' = 0 /\ pc' = pc
    BY <1>3 DEF WindowEnds, NoKey
  <2> QED  BY <2>1, Limits DEF RateInv
<1>4. ASSUME UNCHANGED <<logins, admitted>>,
             \A q \in Requests : pc'[q] = "rate_clock" => pc[q] = "rate_clock"
      PROVE  RateInv'
  BY <1>4 DEF RateInv
<1>5. ASSUME NEW r \in Requests,
             \/ login(r) \/ assert_not_locked(r) \/ WrongPassword(r) \/ record_failure(r)
             \/ FailClock(r) \/ clear(r) \/ issue_tokens(r) \/ ReadSession(r)
      PROVE  RateInv'
  BY <1>5, <1>4, <1>a DEF login, assert_not_locked, WrongPassword, record_failure, FailClock,
     NextSubject, clear, issue_tokens, ReadSession, Begin, Go, End, redis, history
<1>6. ASSUME NEW r \in Requests,
             \/ refresh_tokens(r) \/ logout(r) \/ send_magic_link(r) \/ StoreLink(r)
             \/ ReadLink(r) \/ consume_magic_link(r) \/ Rollback(r)
      PROVE  RateInv'
  BY <1>6, <1>4, <1>a DEF refresh_tokens, logout, send_magic_link, StoreLink, ReadLink,
     consume_magic_link, Rollback, Begin, Go, End, redis, history
<1>7. CASE (\E s \in Subjects : LockEnds(s)) \/ RowExpires \/ Crash \/ UNCHANGED vars
  BY <1>7, <1>4, <1>a DEF LockEnds, RowExpires, Crash, vars, redis, history
<1> QED  BY <1>1, <1>2, <1>3, <1>5, <1>6, <1>7 DEF Next

(***************************************************************************)
(* The lockout.  A request is past the account's counter, or was refused   *)
(* and has not been counted; what a crash lost, it lost of those.          *)
(***************************************************************************)
Passed  == {r \in Requests : pc[r] = "password" \/ (pc[r] = "locked?" /\ subject[r] = "address")}
Refused == {r \in Requests : pc[r] = "failed" /\ subject[r] = "account"}
Lost    == Cardinality(Requests) * crashes

LookInv ==
    /\ \A r \in Requests : pc[r] \in {"idle", "rate", "rate_clock", "password"} => subject[r] = "account"
    /\ looked <= failures["account"].count + Cardinality(Refused) + Lost
    /\ looked + Cardinality(Passed) <= (Threshold - 1) + Cardinality(Requests) + Lost

\* Sets of requests are counted like numbers.
LEMMA Counting ==
    ASSUME NEW S \in SUBSET Requests, NEW T \in SUBSET Requests
    PROVE  /\ Cardinality(S) \in Nat /\ Cardinality(Requests) \in Nat
           /\ Cardinality(S) <= Cardinality(Requests)
           /\ \A r \in Requests : /\ r \notin S => Cardinality(S \cup {r}) = Cardinality(S) + 1
                                  /\ r \in S => Cardinality(S \ {r}) = Cardinality(S) - 1
                                  /\ Cardinality(S \ {r}) <= Cardinality(S)
           /\ S \cap T = {} => Cardinality(S) + Cardinality(T) <= Cardinality(Requests)
<1>1. IsFiniteSet(Requests) /\ IsFiniteSet(S) /\ IsFiniteSet(T)
  BY Limits, FS_Subset
<1>2. Cardinality(S) \in Nat /\ Cardinality(T) \in Nat /\ Cardinality(Requests) \in Nat
  BY <1>1, FS_CardinalityType
<1>3. Cardinality(S) <= Cardinality(Requests)
  BY <1>1, FS_Subset
<1>4. \A r \in Requests : /\ r \notin S => Cardinality(S \cup {r}) = Cardinality(S) + 1
                          /\ r \in S => Cardinality(S \ {r}) = Cardinality(S) - 1
  BY <1>1, FS_AddElement, FS_RemoveElement
<1>5. \A r \in Requests : Cardinality(S \ {r}) <= Cardinality(S)
  <2> TAKE r \in Requests
  <2>1. S \ {r} \subseteq S
    OBVIOUS
  <2> QED  BY <1>1, <2>1, FS_Subset
<1>6. ASSUME S \cap T = {}  PROVE Cardinality(S) + Cardinality(T) <= Cardinality(Requests)
  <2>1. Cardinality(S \cup T) = Cardinality(S) + Cardinality(T) - Cardinality(S \cap T)
    BY <1>1, FS_Union
  <2>2. Cardinality(S \cap T) = 0
    BY <1>6, FS_EmptySet
  <2>3. S \cup T \subseteq Requests
    OBVIOUS
  <2>4. Cardinality(S \cup T) <= Cardinality(Requests)
    BY <1>1, <2>3, FS_Subset
  <2> QED  BY <1>2, <2>1, <2>2, <2>4
<1> QED  BY <1>2, <1>3, <1>4, <1>5, <1>6

LEMMA Losses ==
    ASSUME Typed
    PROVE  /\ Lost \in Nat
           /\ UNCHANGED crashes => Lost' = Lost
           /\ crashes' = crashes + 1 => Lost' = Lost + Cardinality(Requests)
<1>1. crashes \in Nat /\ Cardinality(Requests) \in Nat
  BY Counters, Counting
<1>2. \A n, c \in Nat : n * c \in Nat /\ n * (c + 1) = n * c + n
  OBVIOUS
<1> QED  BY <1>1, <1>2 DEF Lost

\* A step with which no password is looked at, and no refusal is counted.
LEMMA LookQuiet ==
    ASSUME Typed, LookInv, UNCHANGED <<looked, failures, crashes>>, NEW r \in Requests,
           \A q \in Requests : q # r => pc'[q] = pc[q] /\ subject'[q] = subject[q],
           pc'[r] \in {"idle", "rate", "rate_clock", "password"} => subject'[r] = "account",
           r \in Refused' <=> r \in Refused,
           r \in Passed' => r \in Passed
    PROVE  LookInv'
<1>1. Refused' = Refused /\ Passed' \subseteq Passed /\ Passed \subseteq Requests
  BY DEF Refused, Passed
<1>2. Cardinality(Passed') <= Cardinality(Passed) /\ Cardinality(Passed') \in Nat
  <2>1. IsFiniteSet(Passed)
    BY <1>1, Limits, FS_Subset
  <2> QED  BY <1>1, <2>1, FS_Subset, FS_CardinalityType
<1>3. Cardinality(Passed) \in Nat /\ Cardinality(Requests) \in Nat
  BY <1>1, Counting
<1>4. \A q \in Requests : pc'[q] \in {"idle", "rate", "rate_clock", "password"} => subject'[q] = "account"
  BY DEF LookInv
<1>5. looked \in Nat /\ Lost \in Nat /\ Lost' = Lost
  BY Counters, Losses
<1>6. looked' + Cardinality(Passed') <= (Threshold - 1) + Cardinality(Requests) + Lost'
  BY <1>2, <1>3, <1>5, Limits DEF LookInv
<1> QED  BY <1>1, <1>4, <1>5, <1>6 DEF LookInv

\* Each step keeps to the bound on the passwords that are looked at.
LEMMA LookNext ==
    ASSUME Typed, LookInv, [Next]_vars
    PROVE  LookInv'
<1>a. /\ failures \in [Subjects -> Key] /\ subject \in [Requests -> Subjects]
      /\ looked \in Nat /\ crashes \in Nat /\ "account" \in Subjects /\ "address" \in Subjects
      /\ pc \in [Requests -> {"idle", "rate", "rate_clock", "locked?", "password", "failed",
                              "fail_clock", "issue", "refresh", "mailed", "link"}]
  BY Counters
<1>b. /\ Cardinality(Requests) \in Nat /\ Cardinality(Passed) \in Nat /\ Cardinality(Refused) \in Nat
      /\ Cardinality(Passed) + Cardinality(Refused) <= Cardinality(Requests)
      /\ Lost \in Nat /\ failures["account"].count \in Nat /\ Threshold \in Nat /\ Threshold >= 1
  <2>1. Passed \subseteq Requests /\ Refused \subseteq Requests /\ Passed \cap Refused = {}
    BY DEF Passed, Refused
  <2>2. Cardinality(Requests) \in Nat /\ Cardinality(Passed) \in Nat /\ Cardinality(Refused) \in Nat
        /\ Cardinality(Passed) + Cardinality(Refused) <= Cardinality(Requests)
    BY <2>1, Counting
  <2>3. failures["account"].count \in Nat
    BY <1>a, KeyCommands
  <2> QED  BY <2>2, <2>3, Losses, Limits
<1>1. ASSUME NEW r \in Requests, assert_not_locked(r)  PROVE LookInv'
  <2>1. /\ pc[r] = "locked?" /\ UNCHANGED <<failures, looked, crashes>>
        /\ \A q \in Requests : q # r => pc'[q] = pc[q] /\ subject'[q] = subject[q]
    BY <1>1, <1>a DEF assert_not_locked, Go, End, redis, history, bounds
  <2>2. CASE subject[r] = "account" /\ ~ (failures["account"].count >= Threshold)
    <3>1. pc'[r] = "locked?" /\ subject'[r] = "address"
      BY <1>1, <1>a, <2>1, <2>2 DEF assert_not_locked
    <3>2. r \notin Passed /\ Passed' = Passed \cup {r} /\ Refused' = Refused
      BY <2>1, <2>2, <3>1 DEF Passed, Refused
    <3>3. Passed \subseteq Requests /\ Passed' \subseteq Requests /\ Passed' \cap Refused' = {}
          /\ Refused \subseteq Requests
      BY DEF Passed, Refused
    <3>4. Cardinality(Passed') + Cardinality(Refused) <= Cardinality(Requests) /\ Cardinality(Passed') \in Nat
      BY <3>2, <3>3, Counting
    <3>5. looked <= (Threshold - 1) + Cardinality(Refused) + Lost
      BY <1>a, <1>b, <2>2 DEF LookInv
    <3>6. Lost' = Lost
      BY <2>1, Losses
    <3>7. looked' + Cardinality(Passed') <= (Threshold - 1) + Cardinality(Requests) + Lost'
      BY <1>a, <1>b, <2>1, <3>4, <3>5, <3>6
    <3> QED  BY <2>1, <3>1, <3>2, <3>6, <3>7 DEF LookInv
  <2>3. CASE ~ (subject[r] = "account" /\ ~ (failures["account"].count >= Threshold))
    <3>1. \/ pc'[r] = "idle" /\ subject'[r] = "account"
          \/ pc'[r] = "password" /\ subject'[r] = "account" /\ subject[r] = "address"
      BY <1>1, <1>a, <2>1, <2>3 DEF assert_not_locked, Go, End, Subjects
    <3> QED  BY <2>1, <3>1, LookQuiet DEF Passed, Refused
  <2> QED  BY <2>2, <2>3
<1>2. ASSUME NEW r \in Requests, WrongPassword(r)  PROVE LookInv'
  <2>1. /\ pc[r] = "password" /\ pc'[r] = "failed" /\ UNCHANGED <<failures, subject, crashes>>
        /\ looked' = looked + 1 /\ \A q \in Requests : q # r => pc'[q] = pc[q]
    BY <1>2, <1>a DEF WrongPassword, Go, redis, bounds
  <2>2. subject[r] = "account"
    BY <2>1 DEF LookInv
  <2>3. /\ r \in Passed /\ Passed' = Passed \ {r}
        /\ r \notin Refused /\ Refused' = Refused \cup {r}
    BY <2>1, <2>2 DEF Passed, Refused
  <2>4. Passed \subseteq Requests /\ Refused \subseteq Requests
    BY DEF Passed, Refused
  <2>5. Cardinality(Passed') = Cardinality(Passed) - 1 /\ Cardinality(Refused') = Cardinality(Refused) + 1
    BY <2>3, <2>4, Counting
  <2>6. Lost' = Lost
    BY <2>1, Losses
  <2>7. looked' <= failures'["account"].count + Cardinality(Refused') + Lost'
    BY <1>a, <1>b, <2>1, <2>5, <2>6 DEF LookInv
  <2>8. looked' + Cardinality(Passed') <= (Threshold - 1) + Cardinality(Requests) + Lost'
    BY <1>a, <1>b, <2>1, <2>5, <2>6 DEF LookInv
  <2> QED  BY <2>1, <2>7, <2>8 DEF LookInv
<1>3. ASSUME NEW r \in Requests, record_failure(r)  PROVE LookInv'
  <2>1. /\ pc[r] = "failed" /\ UNCHANGED <<looked, crashes>>
        /\ \A q \in Requests : q # r => pc'[q] = pc[q] /\ subject'[q] = subject[q]
    BY <1>3, <1>a DEF record_failure, NextSubject, Go, End, history, bounds
  <2>2. \/ pc'[r] = "fail_clock"
        \/ pc'[r] = "failed" /\ subject'[r] = "address"
        \/ pc'[r] = "idle" /\ subject'[r] = "account"
    BY <1>3, <1>a DEF record_failure, NextSubject, Go, End
  <2>3. r \notin Passed /\ Passed' = Passed /\ Refused' = Refused \ {r}
    BY <2>1, <2>2 DEF Passed, Refused
  <2>4. Lost' = Lost /\ Refused \subseteq Requests
    BY <2>1, Losses DEF Refused
  <2>5. CASE subject[r] = "account"
    <3>1. failures'["account"].count = failures["account"].count + 1
      BY <1>3, <1>a, <2>5, KeyCommands DEF record_failure
    <3>2. r \in Refused
      BY <2>1, <2>5 DEF Refused
    <3>3. Cardinality(Refused') = Cardinality(Refused) - 1
      BY <2>3, <2>4, <3>2, Counting
    <3>4. looked' <= failures'["account"].count + Cardinality(Refused') + Lost'
      BY <1>a, <1>b, <2>1, <2>4, <3>1, <3>3 DEF LookInv
    <3> QED  BY <2>1, <2>2, <2>3, <2>4, <3>4 DEF LookInv
  <2>6. CASE subject[r] # "account"
    <3>1. failures'["account"] = failures["account"]
      BY <1>3, <1>a, <2>6 DEF record_failure
    <3>2. Refused' = Refused
      BY <2>3, <2>6 DEF Refused
    <3> QED  BY <2>1, <2>2, <2>3, <2>4, <3>1, <3>2 DEF LookInv
  <2> QED  BY <2>5, <2>6
<1>4. ASSUME NEW r \in Requests, FailClock(r)  PROVE LookInv'
  <2>1. /\ pc[r] = "fail_clock" /\ UNCHANGED <<looked, crashes>>
        /\ \A q \in Requests : q # r => pc'[q] = pc[q] /\ subject'[q] = subject[q]
    BY <1>4, <1>a DEF FailClock, NextSubject, End, history, bounds
  <2>2. \/ pc'[r] = "failed" /\ subject'[r] = "address"
        \/ pc'[r] = "idle" /\ subject'[r] = "account"
    BY <1>4, <1>a DEF FailClock, NextSubject, End
  <2>3. Passed' = Passed /\ Refused' = Refused
    BY <2>1, <2>2 DEF Passed, Refused
  <2>4. failures'["account"].count = failures["account"].count
    BY <1>4, <1>a, KeyCommands DEF FailClock
  <2>5. Lost' = Lost
    BY <2>1, Losses
  <2> QED  BY <2>1, <2>2, <2>3, <2>4, <2>5 DEF LookInv
<1>5. ASSUME NEW r \in Requests, clear(r)  PROVE LookInv'
  <2>1. /\ pc[r] = "password" /\ pc'[r] = "issue" /\ UNCHANGED <<subject, crashes>>
        /\ looked' = 0 /\ failures'["account"].count = 0
        /\ \A q \in Requests : q # r => pc'[q] = pc[q]
    BY <1>5, <1>a DEF clear, Go, NoKey, bounds
  <2>2. Passed' \subseteq Requests /\ Refused' = Refused
    BY <2>1 DEF Passed, Refused
  <2>3. Cardinality(Passed') <= Cardinality(Requests) /\ Cardinality(Passed') \in Nat
    BY <2>2, Counting
  <2>4. Lost' = Lost
    BY <2>1, Losses
  <2>5. /\ looked' <= failures'["account"].count + Cardinality(Refused') + Lost'
        /\ looked' + Cardinality(Passed') <= (Threshold - 1) + Cardinality(Requests) + Lost'
    BY <1>b, <2>1, <2>2, <2>3, <2>4
  <2> QED  BY <2>1, <2>5 DEF LookInv
<1>6. ASSUME NEW s \in Subjects, LockEnds(s)  PROVE LookInv'
  <2>1. UNCHANGED <<pc, subject, crashes>>
    BY <1>6 DEF LockEnds, Elapses
  <2>2. Passed' = Passed /\ Refused' = Refused /\ Lost' = Lost
    BY <2>1, Losses DEF Passed, Refused
  <2>3. CASE s = "account"
    <3>1. looked' = 0 /\ failures'["account"].count = 0
      BY <1>6, <2>3, <1>a DEF LockEnds, NoKey
    <3> QED  BY <1>b, <2>1, <2>2, <3>1 DEF LookInv
  <2>4. CASE s # "account"
    <3>1. looked' = looked /\ failures'["account"] = failures["account"]
      BY <1>6, <2>4, <1>a DEF LockEnds
    <3> QED  BY <2>1, <2>2, <3>1 DEF LookInv
  <2> QED  BY <2>3, <2>4
<1>7. CASE Crash
  <2>1. /\ \A q \in Requests : pc'[q] = "idle" /\ subject'[q] = "account"
        /\ crashes' = crashes + 1 /\ UNCHANGED <<looked, failures>>
    BY <1>7 DEF Crash, redis
  <2>2. Passed' = {} /\ Refused' = {} /\ Cardinality(Passed') = 0 /\ Cardinality(Refused') = 0
    BY <2>1, FS_EmptySet DEF Passed, Refused
  <2>3. Lost' = Lost + Cardinality(Requests)
    BY <2>1, Losses
  <2>4. /\ looked' <= failures'["account"].count + Cardinality(Refused') + Lost'
        /\ looked' + Cardinality(Passed') <= (Threshold - 1) + Cardinality(Requests) + Lost'
    BY <1>a, <1>b, <2>1, <2>2, <2>3 DEF LookInv
  <2> QED  BY <2>1, <2>4 DEF LookInv
<1>8. ASSUME NEW r \in Requests,
             \/ login(r) \/ Hit(r) \/ HitClock(r) \/ issue_tokens(r) \/ ReadSession(r)
      PROVE  LookInv'
  <2>1. /\ UNCHANGED <<looked, failures, crashes>>
        /\ \A q \in Requests : q # r => pc'[q] = pc[q] /\ subject'[q] = subject[q]
    BY <1>8, <1>a DEF login, Hit, HitClock, issue_tokens, ReadSession, Begin, Go, End, redis, history, bounds
  <2>2. /\ pc[r] \in {"idle", "rate", "rate_clock", "issue"}
        /\ pc'[r] \in {"idle", "rate", "rate_clock", "locked?", "refresh"}
        /\ subject'[r] \in {subject[r], "account"}
        /\ pc'[r] = "idle" => subject'[r] = "account"
        /\ pc'[r] \in {"rate", "rate_clock", "locked?"} => pc[r] # "issue"
    BY <1>8, <1>a DEF login, Hit, HitClock, issue_tokens, ReadSession, Begin, Go, End
  <2>3. pc[r] # "issue" => subject[r] = "account"
    BY <2>2 DEF LookInv
  <2> QED  BY <2>1, <2>2, <2>3, LookQuiet DEF Passed, Refused
<1>9. ASSUME NEW r \in Requests,
             \/ refresh_tokens(r) \/ logout(r) \/ send_magic_link(r) \/ StoreLink(r)
             \/ ReadLink(r) \/ consume_magic_link(r) \/ Rollback(r)
      PROVE  LookInv'
  <2>1. /\ UNCHANGED <<looked, failures, crashes>>
        /\ \A q \in Requests : q # r => pc'[q] = pc[q] /\ subject'[q] = subject[q]
    BY <1>9, <1>a DEF refresh_tokens, logout, send_magic_link, StoreLink, ReadLink,
       consume_magic_link, Rollback, Begin, Go, End, redis, history, bounds
  <2>2. /\ pc[r] \in {"idle", "issue", "refresh", "link", "mailed"}
        /\ pc'[r] \in {"idle", "mailed", "link"}
        /\ pc'[r] = "idle" => subject'[r] = "account" \/ (pc[r] = "idle" /\ subject' = subject)
    BY <1>9, <1>a DEF refresh_tokens, logout, send_magic_link, StoreLink, ReadLink,
       consume_magic_link, Rollback, Begin, Go, End
  <2>3. pc[r] = "idle" => subject[r] = "account"
    BY DEF LookInv
  <2> QED  BY <2>1, <2>2, <2>3, LookQuiet DEF Passed, Refused
<1>10. CASE WindowEnds \/ RowExpires \/ UNCHANGED vars
  <2>1. UNCHANGED <<pc, subject, looked, failures, crashes>>
    BY <1>10 DEF WindowEnds, RowExpires, Elapses, vars, redis, history, bounds
  <2>2. Passed' = Passed /\ Refused' = Refused /\ Lost' = Lost
    BY <2>1, Losses DEF Passed, Refused
  <2> QED  BY <2>1, <2>2 DEF LookInv
<1> QED  BY <1>1, <1>2, <1>3, <1>4, <1>5, <1>6, <1>7, <1>8, <1>9, <1>10 DEF Next

(***************************************************************************)
(* No more logins are let through in a window than the limit, and no more  *)
(* passwords are refused than the threshold, but for one per request in    *)
(* flight and per request that a crash has lost: for any number of         *)
(* requests between the commands of each other.                            *)
(***************************************************************************)
THEOREM LimitsAreKept == Spec => []LimitsHold
<1>1. ASSUME Init  PROVE RateInv /\ LookInv
  <2>1. /\ logins = NoKey /\ failures["account"].count = 0 /\ looked = 0 /\ admitted = 0 /\ crashes = 0
        /\ \A r \in Requests : pc[r] = "idle" /\ subject[r] = "account"
    BY <1>1 DEF Init, NoKey, Subjects
  <2>2. Passed = {} /\ Refused = {} /\ Cardinality(Passed) = 0 /\ Cardinality(Refused) = 0
    BY <2>1, FS_EmptySet DEF Passed, Refused
  <2>3. Cardinality(Requests) \in Nat /\ \A n \in Nat : n * 0 = 0
    BY Counting
  <2>4. RateInv
    BY <2>1, Limits DEF RateInv, NoKey
  <2>5. LookInv
    BY <2>1, <2>2, <2>3, Limits DEF LookInv, Lost
  <2> QED  BY <2>4, <2>5
<1>2. Typed /\ RateInv /\ LookInv /\ [Next]_vars => RateInv' /\ LookInv'
  BY RateNext, LookNext
<1>3. ASSUME Typed, RateInv, LookInv  PROVE LimitsHold
  <2>1. looked \in Nat /\ crashes \in Nat /\ Lost \in Nat
    BY <1>3, Counters, Losses
  <2>2. Passed \subseteq Requests
    BY DEF Passed
  <2>3. Cardinality(Passed) \in Nat /\ Cardinality(Requests) \in Nat
    BY <2>2, Counting
  <2>4. \A n, c \in Nat : n * (1 + c) = n + n * c
    OBVIOUS
  <2>5. Cardinality(Requests) * (1 + crashes) = Cardinality(Requests) + Lost
    BY <2>1, <2>3, <2>4 DEF Lost
  <2>6. looked < Threshold + Cardinality(Requests) * (1 + crashes)
    BY <1>3, <2>1, <2>3, <2>5, Limits DEF LookInv
  <2> QED  BY <1>3, <2>6 DEF RateInv, LimitsHold
<1> QED  BY <1>1, <1>2, <1>3, TypeCorrect, PTL DEF Spec
-----------------------------------------------------------------------------
(***************************************************************************)
(* Rotation.  A request in the middle of a refresh holds the only session  *)
(* of its sign-in that may be live, and nobody else holds one of the same; *)
(* a request in the middle of a link has no session of that link before    *)
(* it; and a link that has signed in is no longer live.                    *)
(***************************************************************************)
RefreshInv ==
    /\ \A t, u \in 1..Len(sessions) :
          /\ sessions[t].root = sessions[u].root /\ sessions[t].root \notin raced
          /\ sessions[t].status = "live" /\ sessions[u].status = "live"
          => t = u
    /\ \A r \in Requests : pc[r] = "refresh" /\ sessions[source[r]].root \notin raced =>
          /\ \A u \in 1..Len(sessions) :
                sessions[u].root = sessions[source[r]].root /\ sessions[u].status = "live" => u = source[r]
          /\ \A q \in Requests :
                pc[q] = "refresh" /\ sessions[source[q]].root = sessions[source[r]].root => q = r

LinkInv ==
    /\ \A t, u \in 1..Len(sessions) :
          sessions[t].link = sessions[u].link /\ sessions[t].link # 0
            /\ -sessions[t].link \notin raced => t = u
    /\ \A t \in 1..Len(sessions) : sessions[t].link # 0 => links[sessions[t].link] # "live"
    /\ \A r \in Requests : pc[r] = "link" /\ -source[r] \notin raced =>
          /\ \A t \in 1..Len(sessions) : sessions[t].link # source[r]
          /\ \A q \in Requests : pc[q] = "link" /\ source[q] = source[r] => q = r

\* No request comes to hold a row that it did not hold.
NoNewHolder ==
    \A q \in Requests : /\ pc'[q] = "refresh" => pc[q] = "refresh" /\ source'[q] = source[q]
                        /\ pc'[q] = "link" => pc[q] = "link" /\ source'[q] = source[q]

\* A step after which no session is live that was not.
LEMMA RefreshQuiet ==
    ASSUME Typed, RefreshInv, NoNewHolder, raced \subseteq raced',
           Len(sessions') = Len(sessions),
           \A u \in 1..Len(sessions) : /\ sessions'[u].root = sessions[u].root
                                       /\ sessions'[u].status = "live" => sessions[u].status = "live"
    PROVE  RefreshInv'
<1>1. \A r \in Requests : pc[r] = "refresh" => source[r] \in 1..Len(sessions)
  BY DEF Typed
<1> QED  BY <1>1 DEF RefreshInv, NoNewHolder

LEMMA LinkQuiet ==
    ASSUME Typed, LinkInv, NoNewHolder, raced \subseteq raced',
           Len(sessions') = Len(sessions),
           \A u \in 1..Len(sessions) : sessions'[u].link = sessions[u].link,
           \A l \in 1..Len(links) : links'[l] = "live" => links[l] = "live"
    PROVE  LinkInv'
<1>1. \A t \in 1..Len(sessions) : sessions[t].link # 0 => sessions[t].link \in 1..Len(links)
  <2> TAKE t \in 1..Len(sessions)
  <2>1. sessions \in Seq(Session) /\ Len(links) \in Nat
    BY DEF Typed, TypeOK
  <2>2. sessions[t] \in Session
    BY <2>1
  <2>3. sessions[t].link \in 0..MaxSessions
    BY <2>2 DEF Session
  <2> QED  BY <2>1, <2>3, Limits DEF Typed
<1> QED  BY <1>1 DEF LinkInv, NoNewHolder

\* What the rows and the requests in flight are, for the proofs of rotation.
LEMMA Rows ==
    ASSUME Typed
    PROVE  /\ sessions \in Seq(Session) /\ links \in Seq(MagicLink)
           /\ Len(sessions) \in Nat /\ Len(links) \in Nat
           /\ DOMAIN sessions = 1..Len(sessions) /\ DOMAIN links = 1..Len(links)
           /\ pc \in [Requests -> {"idle", "rate", "rate_clock", "locked?", "password", "failed",
                                   "fail_clock", "issue", "refresh", "mailed", "link"}]
           /\ source \in [Requests -> 0..MaxSessions]
           /\ \A t \in 1..Len(sessions) :
                 /\ sessions[t].root \in 1..MaxSessions /\ sessions[t].root <= t
                 /\ sessions[t].link \in 0..MaxSessions /\ sessions[t].link <= Len(links)
           /\ \A r \in Requests : /\ pc[r] = "refresh" => source[r] \in 1..Len(sessions)
                                  /\ pc[r] = "link" => source[r] \in 1..Len(links)
<1>1. /\ sessions \in Seq(Session) /\ links \in Seq(MagicLink)
      /\ pc \in [Requests -> {"idle", "rate", "rate_clock", "locked?", "password", "failed",
                              "fail_clock", "issue", "refresh", "mailed", "link"}]
      /\ source \in [Requests -> 0..MaxSessions]
  BY DEF Typed, TypeOK
<1>2. /\ Len(sessions) \in Nat /\ Len(links) \in Nat
      /\ DOMAIN sessions = 1..Len(sessions) /\ DOMAIN links = 1..Len(links)
  BY <1>1
<1>3. ASSUME NEW t \in 1..Len(sessions)
      PROVE  /\ sessions[t].root \in 1..MaxSessions /\ sessions[t].root <= t
             /\ sessions[t].link \in 0..MaxSessions /\ sessions[t].link <= Len(links)
  <2>1. sessions[t] \in Session
    BY <1>1
  <2>2. sessions[t].root \in 1..MaxSessions /\ sessions[t].link \in 0..MaxSessions
    BY <2>1 DEF Session
  <2> QED  BY <2>2 DEF Typed
<1>4. \A r \in Requests : /\ pc[r] = "refresh" => source[r] \in 1..Len(sessions)
                          /\ pc[r] = "link" => source[r] \in 1..Len(links)
  BY DEF Typed
<1> QED  BY <1>1, <1>2, <1>3, <1>4

\* What a request that ends leaves of the others.
LEMMA EndHolds ==
    ASSUME Typed, NEW r \in Requests, End(r)
    PROVE  /\ pc'[r] = "idle" /\ NoNewHolder
           /\ \A q \in Requests : q # r => pc'[q] = pc[q] /\ source'[q] = source[q]
BY Rows DEF End, NoNewHolder

\* The steps that neither read a row to hold it nor write one.
LEMMA Bystanders ==
    ASSUME Typed, NEW r \in Requests,
           \/ login(r) \/ Hit(r) \/ HitClock(r) \/ assert_not_locked(r) \/ WrongPassword(r)
           \/ record_failure(r) \/ FailClock(r) \/ clear(r) \/ send_magic_link(r) \/ Rollback(r)
    PROVE  NoNewHolder /\ UNCHANGED <<sessions, links, raced>>
<1>1. CASE login(r) \/ Hit(r) \/ HitClock(r) \/ assert_not_locked(r) \/ WrongPassword(r)
  BY <1>1, Rows DEF login, Hit, HitClock, assert_not_locked, WrongPassword, Begin, Go, End,
                    NoNewHolder, rows, history
<1>2. CASE record_failure(r) \/ FailClock(r) \/ clear(r) \/ send_magic_link(r) \/ Rollback(r)
  BY <1>2, Rows DEF record_failure, FailClock, NextSubject, clear, send_magic_link, Rollback,
                    Begin, Go, End, NoNewHolder, rows, history
<1> QED  BY <1>1, <1>2

\* Time, a crash and a step of nobody leave the holders alone too.
LEMMA Elapsing ==
    ASSUME Typed,
           WindowEnds \/ (\E s \in Subjects : LockEnds(s)) \/ RowExpires \/ Crash \/ UNCHANGED vars
    PROVE  /\ NoNewHolder /\ UNCHANGED raced /\ Len(sessions') = Len(sessions)
           /\ \A u \in 1..Len(sessions) :
                 /\ sessions'[u].root = sessions[u].root /\ sessions'[u].link = sessions[u].link
                 /\ sessions'[u].status = "live" => sessions[u].status = "live"
           /\ \A l \in 1..Len(links) : links'[l] = "live" => links[l] = "live"
<1>1. CASE WindowEnds \/ (\E s \in Subjects : LockEnds(s)) \/ UNCHANGED vars
  BY <1>1 DEF WindowEnds, LockEnds, vars, rows, history, NoNewHolder
<1>2. CASE Crash
  BY <1>2 DEF Crash, rows, NoNewHolder
<1>3. CASE RowExpires
  <2>1. NoNewHolder /\ UNCHANGED raced
    BY <1>3 DEF RowExpires, history, NoNewHolder
  <2>2. ASSUME NEW t \in 1..Len(sessions), UNCHANGED links, sessions' = Ends(sessions, t, "expired")
        PROVE  /\ Len(sessions') = Len(sessions)
               /\ \A u \in 1..Len(sessions) :
                     /\ sessions'[u].root = sessions[u].root /\ sessions'[u].link = sessions[u].link
                     /\ sessions'[u].status = "live" => sessions[u].status = "live"
    <3> DEFINE after == Ends(sessions, t, "expired")
    <3>1. /\ Len(after) = Len(sessions)
          /\ \A u \in 1..Len(sessions) :
                /\ after[u].root = sessions[u].root /\ after[u].link = sessions[u].link
                /\ after[u].status = IF u = t THEN "expired" ELSE sessions[u].status
      BY Rows, EndedSession
    <3> QED  BY <2>2, <3>1
  <2>3. ASSUME NEW l \in 1..Len(links), UNCHANGED sessions, links' = [links EXCEPT ![l] = "expired"]
        PROVE  \A k \in 1..Len(links) : links'[k] = "live" => links[k] = "live"
    BY <2>3, Rows
  <2> QED  BY <1>3, <2>1, <2>2, <2>3, Rows DEF RowExpires, Ends
<1> QED  BY <1>1, <1>2, <1>3

\* A row revoked by a logout.
LEMMA LoggedOut ==
    ASSUME Typed, NEW r \in Requests, logout(r)
    PROVE  /\ NoNewHolder /\ raced \subseteq raced' /\ Len(sessions') = Len(sessions) /\ UNCHANGED links
           /\ \A u \in 1..Len(sessions) :
                 /\ sessions'[u].root = sessions[u].root /\ sessions'[u].link = sessions[u].link
                 /\ sessions'[u].status = "live" => sessions[u].status = "live"
<1>1. PICK t \in 1..Len(sessions) :
         /\ sessions' = Ends(sessions, t, "revoked")
         /\ raced' = IF Holders("refresh", t) # {} THEN raced \cup {RootOf(t)} ELSE raced
  BY Rows DEF logout, Ends
<1>2. /\ Len(sessions') = Len(sessions)
      /\ \A u \in 1..Len(sessions) :
            /\ sessions'[u].root = sessions[u].root /\ sessions'[u].link = sessions[u].link
            /\ sessions'[u].status = IF u = t THEN "revoked" ELSE sessions[u].status
  BY <1>1, Rows, EndedSession
<1> QED  BY <1>1, <1>2 DEF logout, NoNewHolder

\* A session that no other led to.
LEMMA RefreshFresh ==
    ASSUME Typed, RefreshInv, NEW r \in Requests, End(r), UNCHANGED raced,
           Len(sessions') = Len(sessions) + 1,
           \A t \in 1..Len(sessions) : sessions'[t] = sessions[t],
           sessions'[Len(sessions) + 1].root = Len(sessions) + 1
    PROVE  RefreshInv'
<1> DEFINE new == Len(sessions) + 1
<1>1. /\ \A t \in 1..Len(sessions) : sessions[t].root \in Int /\ sessions[t].root < new
      /\ \A t \in 1..new : t \in 1..Len(sessions) \/ t = new
      /\ Len(sessions') = new
  BY Rows
<1>2. NoNewHolder /\ \A q \in Requests : pc[q] = "refresh" => source[q] \in 1..Len(sessions)
  BY EndHolds, Rows
<1>3. ASSUME NEW t \in 1..new, NEW u \in 1..new,
             sessions'[t].root = sessions'[u].root, sessions'[t].root \notin raced',
             sessions'[t].status = "live", sessions'[u].status = "live"
      PROVE  t = u
  <2>1. CASE t \in 1..Len(sessions) /\ u \in 1..Len(sessions)
    BY <1>3, <2>1 DEF RefreshInv
  <2>2. CASE t = new \/ u = new
    BY <1>1, <1>3, <2>2
  <2> QED  BY <1>1, <2>1, <2>2
<1>4. ASSUME NEW q \in Requests, pc'[q] = "refresh", sessions'[source'[q]].root \notin raced'
      PROVE  /\ \A u \in 1..new :
                   sessions'[u].root = sessions'[source'[q]].root /\ sessions'[u].status = "live" => u = source'[q]
             /\ \A p \in Requests :
                   pc'[p] = "refresh" /\ sessions'[source'[p]].root = sessions'[source'[q]].root => p = q
  <2>1. pc[q] = "refresh" /\ source'[q] = source[q] /\ source[q] \in 1..Len(sessions)
        /\ sessions'[source'[q]] = sessions[source[q]] /\ sessions[source[q]].root \notin raced
    BY <1>2, <1>4 DEF NoNewHolder
  <2>2. ASSUME NEW u \in 1..new, sessions'[u].root = sessions'[source'[q]].root, sessions'[u].status = "live"
        PROVE  u = source'[q]
    BY <1>1, <2>1, <2>2 DEF RefreshInv
  <2>3. ASSUME NEW p \in Requests, pc'[p] = "refresh", sessions'[source'[p]].root = sessions'[source'[q]].root
        PROVE  p = q
    <3>1. pc[p] = "refresh" /\ sessions'[source'[p]] = sessions[source[p]]
      BY <1>2, <2>3 DEF NoNewHolder
    <3> QED  BY <2>1, <2>3, <3>1 DEF RefreshInv
  <2> QED  BY <2>2, <2>3
<1> QED  BY <1>1, <1>3, <1>4 DEF RefreshInv

\* Of two requests that hold a session of one sign-in, the second one races.
LEMMA RefreshRead ==
    ASSUME Typed, RefreshInv, NEW r \in Requests, ReadSession(r)
    PROVE  RefreshInv'
<1>1. PICK t \in 1..Len(sessions) :
         /\ sessions[t].status = "live" /\ source' = [source EXCEPT ![r] = t]
         /\ raced' = IF Holders("refresh", t) # {} THEN raced \cup {sessions[t].root} ELSE raced
  BY Rows DEF ReadSession, Live, RootOf
<1>2. /\ pc[r] = "idle" /\ pc' = [pc EXCEPT ![r] = "refresh"] /\ sessions' = sessions
  BY DEF ReadSession, Begin, Go, rows
<1>3. /\ pc'[r] = "refresh" /\ source'[r] = t /\ raced \subseteq raced'
      /\ \A q \in Requests : q # r => pc'[q] = pc[q] /\ source'[q] = source[q]
      /\ \A q \in Requests : pc[q] = "refresh" => q # r /\ source[q] \in 1..Len(sessions)
  BY <1>1, <1>2, Rows
<1>4. ASSUME sessions[t].root \notin raced', NEW q \in Requests, pc[q] = "refresh",
             sessions[source[q]].root = sessions[t].root
      PROVE  FALSE
  <2>1. t = source[q]
    BY <1>1, <1>3, <1>4 DEF RefreshInv
  <2>2. q \in Holders("refresh", t)
    BY <1>4, <2>1 DEF Holders
  <2> QED  BY <1>1, <1>4, <2>2
<1>5. ASSUME NEW q \in Requests, pc'[q] = "refresh", sessions[source'[q]].root \notin raced'
      PROVE  /\ \A u \in 1..Len(sessions) :
                   sessions[u].root = sessions[source'[q]].root /\ sessions[u].status = "live" => u = source'[q]
             /\ \A p \in Requests :
                   pc'[p] = "refresh" /\ sessions[source'[p]].root = sessions[source'[q]].root => p = q
  <2>1. CASE q = r
    <3>1. \A u \in 1..Len(sessions) :
             sessions[u].root = sessions[t].root /\ sessions[u].status = "live" => u = t
      BY <1>1, <1>3, <1>5, <2>1 DEF RefreshInv
    <3>2. \A p \in Requests : pc'[p] = "refresh" /\ p # r => sessions[source'[p]].root # sessions[t].root
      BY <1>3, <1>4, <1>5, <2>1
    <3> QED  BY <1>3, <2>1, <3>1, <3>2
  <2>2. CASE q # r
    <3>1. pc[q] = "refresh" /\ source'[q] = source[q] /\ sessions[source[q]].root \notin raced
      BY <1>3, <1>5, <2>2
    <3>2. sessions[source[q]].root # sessions[t].root
      BY <1>3, <1>4, <1>5, <2>2, <3>1
    <3> QED  BY <1>3, <2>2, <3>1, <3>2 DEF RefreshInv
  <2> QED  BY <2>1, <2>2
<1>6. \A u, v \in 1..Len(sessions) :
         /\ sessions[u].root = sessions[v].root /\ sessions[u].root \notin raced'
         /\ sessions[u].status = "live" /\ sessions[v].status = "live"
         => u = v
  BY <1>3 DEF RefreshInv
<1> QED  BY <1>2, <1>5, <1>6 DEF RefreshInv

\* The heir of a session is the only one of its sign-in.
LEMMA RefreshRotates ==
    ASSUME Typed, RefreshInv, NEW r \in Requests, refresh_tokens(r)
    PROVE  RefreshInv'
<1> DEFINE new == Len(sessions) + 1
<1>1. PICK t \in 1..Len(sessions) : t = source[r]
  BY Rows DEF refresh_tokens
<1>2. /\ pc[r] = "refresh" /\ End(r) /\ raced' = raced /\ Len(sessions) < MaxSessions
      /\ sessions' = Add(Ends(sessions, t, "revoked"), sessions[t].root, 0)
  BY <1>1 DEF refresh_tokens, RootOf, Ends, history
<1>3. sessions \in Seq(Session) /\ sessions[t].root <= t
  BY Rows
<1>4. /\ Len(sessions') = new
      /\ \A u \in 1..Len(sessions) :
            /\ sessions'[u].root = sessions[u].root
            /\ sessions'[u].status = IF u = t THEN "revoked" ELSE sessions[u].status
      /\ sessions'[new].root = sessions[t].root
  BY <1>2, <1>3, RefreshedSession
<1>5. \A u \in 1..new : u \in 1..Len(sessions) \/ u = new
  BY Rows
<1>6. /\ \A q \in Requests : pc'[q] = "refresh" => q # r /\ pc[q] = "refresh" /\ source'[q] = source[q]
      /\ \A q \in Requests : pc[q] = "refresh" => source[q] \in 1..Len(sessions)
  BY <1>2, EndHolds, Rows DEF NoNewHolder
<1>7. ASSUME sessions[t].root \notin raced, NEW u \in 1..Len(sessions), sessions[u].root = sessions[t].root
      PROVE  sessions'[u].status # "live"
  <2>1. sessions[u].status = "live" => u = t
    BY <1>1, <1>2, <1>7 DEF RefreshInv
  <2> QED  BY <1>4, <2>1
<1>8. ASSUME NEW u \in 1..new, NEW v \in 1..new,
             sessions'[u].root = sessions'[v].root, sessions'[u].root \notin raced,
             sessions'[u].status = "live", sessions'[v].status = "live"
      PROVE  u = v
  <2>1. CASE u \in 1..Len(sessions) /\ v \in 1..Len(sessions)
    <3>1. sessions[u].status = "live" /\ sessions[v].status = "live"
      BY <1>4, <1>8, <2>1
    <3> QED  BY <1>4, <1>8, <2>1, <3>1 DEF RefreshInv
  <2>2. CASE u \in 1..Len(sessions) /\ v = new
    BY <1>4, <1>7, <1>8, <2>2
  <2>3. CASE u = new /\ v \in 1..Len(sessions)
    BY <1>4, <1>7, <1>8, <2>3
  <2> QED  BY <1>5, <2>1, <2>2, <2>3
<1>9. ASSUME NEW q \in Requests, pc'[q] = "refresh", sessions'[source'[q]].root \notin raced
      PROVE  /\ \A u \in 1..new :
                   sessions'[u].root = sessions'[source'[q]].root /\ sessions'[u].status = "live" => u = source'[q]
             /\ \A p \in Requests :
                   pc'[p] = "refresh" /\ sessions'[source'[p]].root = sessions'[source'[q]].root => p = q
  <2>1. /\ q # r /\ pc[q] = "refresh" /\ source'[q] = source[q] /\ source[q] \in 1..Len(sessions)
        /\ sessions'[source[q]].root = sessions[source[q]].root /\ sessions[source[q]].root \notin raced
    BY <1>4, <1>6, <1>9
  <2>2. sessions[source[q]].root # sessions[t].root
    BY <1>1, <1>2, <2>1 DEF RefreshInv
  <2>3. ASSUME NEW u \in 1..new, sessions'[u].root = sessions[source[q]].root, sessions'[u].status = "live"
        PROVE  u = source[q]
    <3>1. u \in 1..Len(sessions)
      BY <1>4, <1>5, <2>2, <2>3
    <3>2. sessions[u].root = sessions[source[q]].root /\ sessions[u].status = "live"
      BY <1>4, <2>3, <3>1
    <3> QED  BY <2>1, <3>1, <3>2 DEF RefreshInv
  <2>4. ASSUME NEW p \in Requests, pc'[p] = "refresh", sessions'[source'[p]].root = sessions[source[q]].root
        PROVE  p = q
    <3>1. pc[p] = "refresh" /\ sessions[source[p]].root = sessions[source[q]].root
      BY <1>4, <1>6, <2>4
    <3> QED  BY <2>1, <3>1 DEF RefreshInv
  <2> QED  BY <2>1, <2>3, <2>4
<1> QED  BY <1>2, <1>4, <1>8, <1>9 DEF RefreshInv

\* Each step keeps a sign-in to one live session.
LEMMA RefreshNext ==
    ASSUME Typed, RefreshInv, [Next]_vars
    PROVE  RefreshInv'
<1>1. ASSUME NEW r \in Requests,
             \/ login(r) \/ Hit(r) \/ HitClock(r) \/ assert_not_locked(r) \/ WrongPassword(r)
             \/ record_failure(r) \/ FailClock(r) \/ clear(r) \/ send_magic_link(r) \/ Rollback(r)
      PROVE  RefreshInv'
  <2>1. NoNewHolder /\ UNCHANGED <<sessions, links, raced>>
    BY <1>1, Bystanders
  <2> QED  BY <2>1, RefreshQuiet
<1>2. CASE WindowEnds \/ (\E s \in Subjects : LockEnds(s)) \/ RowExpires \/ Crash \/ UNCHANGED vars
  BY <1>2, Elapsing, RefreshQuiet
<1>3. ASSUME NEW r \in Requests, logout(r)  PROVE RefreshInv'
  BY <1>3, LoggedOut, RefreshQuiet
<1>4. ASSUME NEW r \in Requests, StoreLink(r)  PROVE RefreshInv'
  <2>1. NoNewHolder /\ UNCHANGED <<sessions, raced>>
    BY <1>4, EndHolds DEF StoreLink, history
  <2> QED  BY <2>1, RefreshQuiet
<1>5. ASSUME NEW r \in Requests, ReadLink(r)  PROVE RefreshInv'
  <2>1. /\ sessions' = sessions /\ raced \subseteq raced'
        /\ pc'[r] = "link" /\ \A q \in Requests : q # r => pc'[q] = pc[q] /\ source'[q] = source[q]
    BY <1>5, Rows DEF ReadLink, Begin, Go, rows
  <2>2. \A q \in Requests : pc'[q] = "refresh" => pc[q] = "refresh" /\ source'[q] = source[q]
    BY <2>1
  <2> QED  BY <2>1, <2>2, Rows DEF RefreshInv
<1>6. ASSUME NEW r \in Requests, issue_tokens(r)  PROVE RefreshInv'
  <2>1. sessions' = Add(sessions, 0, 0) /\ Len(sessions) < MaxSessions /\ End(r) /\ UNCHANGED raced
    BY <1>6 DEF issue_tokens, history
  <2>2. 0 \in 0..Len(sessions) /\ 0 \in 0..MaxSessions /\ sessions \in Seq(Session)
    BY Rows, Limits
  <2>3. /\ Len(sessions') = Len(sessions) + 1
        /\ \A t \in 1..Len(sessions) : sessions'[t] = sessions[t]
        /\ sessions'[Len(sessions) + 1].root = Len(sessions) + 1
    BY <2>1, <2>2, AddedSession
  <2> QED  BY <2>1, <2>3, RefreshFresh
<1>7. ASSUME NEW r \in Requests, consume_magic_link(r)  PROVE RefreshInv'
  <2>1. /\ sessions' = Add(sessions, 0, source[r]) /\ Len(sessions) < MaxSessions /\ End(r)
        /\ UNCHANGED raced
    BY <1>7 DEF consume_magic_link, history
  <2>2. 0 \in 0..Len(sessions) /\ source[r] \in 0..MaxSessions /\ sessions \in Seq(Session)
    BY Rows, Limits
  <2>3. /\ Len(sessions') = Len(sessions) + 1
        /\ \A t \in 1..Len(sessions) : sessions'[t] = sessions[t]
        /\ sessions'[Len(sessions) + 1].root = Len(sessions) + 1
    BY <2>1, <2>2, AddedSession
  <2> QED  BY <2>1, <2>3, RefreshFresh
<1> QED  BY <1>1, <1>2, <1>3, <1>4, <1>5, <1>6, <1>7, RefreshRead, RefreshRotates DEF Next

\* A session that no link led to.
LEMMA LinkFresh ==
    ASSUME Typed, LinkInv, NoNewHolder, UNCHANGED <<links, raced>>,
           Len(sessions') = Len(sessions) + 1,
           \A t \in 1..Len(sessions) : sessions'[t].link = sessions[t].link,
           sessions'[Len(sessions) + 1].link = 0
    PROVE  LinkInv'
<1> DEFINE new == Len(sessions) + 1
<1>1. Len(sessions') = new /\ \A t \in 1..new : t \in 1..Len(sessions) \/ t = new
  BY Rows
<1>2. \A q \in Requests : pc[q] = "link" => source[q] \in 1..Len(links)
  BY Rows
<1>3. ASSUME NEW t \in 1..new, sessions'[t].link # 0
      PROVE  t \in 1..Len(sessions) /\ sessions[t].link = sessions'[t].link
  BY <1>1, <1>3
<1>4. \A t, u \in 1..new :
         sessions'[t].link = sessions'[u].link /\ sessions'[t].link # 0
           /\ -sessions'[t].link \notin raced' => t = u
  BY <1>3 DEF LinkInv
<1>5. \A t \in 1..new : sessions'[t].link # 0 => links'[sessions'[t].link] # "live"
  BY <1>3 DEF LinkInv
<1>6. ASSUME NEW q \in Requests, pc'[q] = "link", -source'[q] \notin raced'
      PROVE  /\ \A t \in 1..new : sessions'[t].link # source'[q]
             /\ \A p \in Requests : pc'[p] = "link" /\ source'[p] = source'[q] => p = q
  <2>1. pc[q] = "link" /\ source'[q] = source[q] /\ source[q] # 0
    BY <1>2, <1>6, Rows DEF NoNewHolder
  <2>2. \A t \in 1..new : sessions'[t].link # source'[q]
    BY <1>3, <1>6, <2>1 DEF LinkInv
  <2> QED  BY <1>6, <2>1, <2>2 DEF LinkInv, NoNewHolder
<1> QED  BY <1>1, <1>4, <1>5, <1>6 DEF LinkInv

LEMMA LinkRead ==
    ASSUME Typed, LinkInv, NEW r \in Requests, ReadLink(r)
    PROVE  LinkInv'
<1>1. PICK l \in 1..Len(links) :
         /\ links[l] = "live" /\ source' = [source EXCEPT ![r] = l]
         /\ raced' = IF Holders("link", l) # {} THEN raced \cup {-l} ELSE raced
  BY Rows DEF ReadLink
<1>2. pc[r] = "idle" /\ pc' = [pc EXCEPT ![r] = "link"] /\ sessions' = sessions /\ links' = links
  BY DEF ReadLink, Begin, Go, rows
<1>3. /\ pc'[r] = "link" /\ source'[r] = l /\ raced \subseteq raced'
      /\ \A q \in Requests : q # r => pc'[q] = pc[q] /\ source'[q] = source[q]
  BY <1>1, <1>2, Rows
<1>4. \A t \in 1..Len(sessions) : sessions[t].link # l
  <2>1. l # 0
    OBVIOUS
  <2> QED  BY <1>1, <2>1 DEF LinkInv
<1>5. ASSUME -l \notin raced', NEW q \in Requests, pc[q] = "link", source[q] = l
      PROVE  FALSE
  BY <1>1, <1>5 DEF Holders
<1>6. ASSUME NEW q \in Requests, pc'[q] = "link", -source'[q] \notin raced'
      PROVE  /\ \A t \in 1..Len(sessions) : sessions[t].link # source'[q]
             /\ \A p \in Requests : pc'[p] = "link" /\ source'[p] = source'[q] => p = q
  <2>1. CASE q = r
    BY <1>3, <1>4, <1>5, <1>6, <2>1
  <2>2. CASE q # r
    <3>1. pc[q] = "link" /\ source'[q] = source[q] /\ -source[q] \notin raced
      BY <1>3, <1>6, <2>2
    <3>2. source[q] # l
      BY <1>5, <1>6, <3>1
    <3> QED  BY <1>3, <2>2, <3>1, <3>2 DEF LinkInv
  <2> QED  BY <2>1, <2>2
<1>7. /\ \A t, u \in 1..Len(sessions) :
            sessions[t].link = sessions[u].link /\ sessions[t].link # 0
              /\ -sessions[t].link \notin raced' => t = u
      /\ \A t \in 1..Len(sessions) : sessions[t].link # 0 => links[sessions[t].link] # "live"
  BY <1>3 DEF LinkInv
<1> QED  BY <1>2, <1>6, <1>7 DEF LinkInv

LEMMA LinkConsumed ==
    ASSUME Typed, LinkInv, NEW r \in Requests, consume_magic_link(r)
    PROVE  LinkInv'
<1> DEFINE new == Len(sessions) + 1
<1>1. PICK l \in 1..Len(links) : l = source[r]
  BY Rows DEF consume_magic_link
<1>2. /\ pc[r] = "link" /\ End(r) /\ raced' = raced /\ Len(sessions) < MaxSessions
      /\ sessions' = Add(sessions, 0, l) /\ links' = [links EXCEPT ![l] = "used"]
  BY <1>1 DEF consume_magic_link, history
<1>3. 0 \in 0..Len(sessions) /\ l \in 0..MaxSessions /\ sessions \in Seq(Session) /\ l # 0
  BY <1>1, Rows, Limits
<1>4. /\ Len(sessions') = new
      /\ \A t \in 1..Len(sessions) : sessions'[t] = sessions[t]
      /\ sessions'[new].link = l
  BY <1>2, <1>3, AddedSession
<1>5. \A t \in 1..new : t \in 1..Len(sessions) \/ t = new
  BY Rows
<1>6. links'[l] = "used" /\ \A k \in 1..Len(links) : k # l => links'[k] = links[k]
  BY <1>2, Rows
<1>7. \A t \in 1..Len(sessions) : sessions[t].link # 0 => sessions[t].link \in 1..Len(links)
  BY Rows
<1>8. \A q \in Requests : pc'[q] = "link" => q # r /\ pc[q] = "link" /\ source'[q] = source[q]
  BY <1>2, EndHolds DEF NoNewHolder
<1>9. ASSUME -l \notin raced
      PROVE  /\ \A t \in 1..Len(sessions) : sessions[t].link # l
             /\ \A q \in Requests : pc'[q] = "link" => source'[q] # l
  BY <1>1, <1>2, <1>8, <1>9 DEF LinkInv
<1>10. ASSUME NEW t \in 1..new, NEW u \in 1..new, sessions'[t].link = sessions'[u].link,
              sessions'[t].link # 0, -sessions'[t].link \notin raced
       PROVE  t = u
  <2>1. CASE t \in 1..Len(sessions) /\ u \in 1..Len(sessions)
    BY <1>4, <1>10, <2>1 DEF LinkInv
  <2>2. CASE t = new \/ u = new
    BY <1>4, <1>5, <1>9, <1>10, <2>2
  <2> QED  BY <1>5, <2>1, <2>2
<1>11. \A t \in 1..new : sessions'[t].link # 0 => links'[sessions'[t].link] # "live"
  BY <1>4, <1>5, <1>6, <1>7 DEF LinkInv
<1>12. ASSUME NEW q \in Requests, pc'[q] = "link", -source'[q] \notin raced
       PROVE  /\ \A t \in 1..new : sessions'[t].link # source'[q]
              /\ \A p \in Requests : pc'[p] = "link" /\ source'[p] = source'[q] => p = q
  <2>1. pc[q] = "link" /\ source'[q] = source[q]
    BY <1>8, <1>12
  <2>2. source'[q] # l
    BY <1>9, <1>12, <2>1
  <2> QED  BY <1>4, <1>5, <1>8, <1>12, <2>1, <2>2 DEF LinkInv
<1> QED  BY <1>2, <1>4, <1>10, <1>11, <1>12 DEF LinkInv

\* Each step keeps a link to one sign-in.
LEMMA LinkNext ==
    ASSUME Typed, LinkInv, [Next]_vars
    PROVE  LinkInv'
<1>1. ASSUME NEW r \in Requests,
             \/ login(r) \/ Hit(r) \/ HitClock(r) \/ assert_not_locked(r) \/ WrongPassword(r)
             \/ record_failure(r) \/ FailClock(r) \/ clear(r) \/ send_magic_link(r) \/ Rollback(r)
      PROVE  LinkInv'
  <2>1. NoNewHolder /\ UNCHANGED <<sessions, links, raced>>
    BY <1>1, Bystanders
  <2> QED  BY <2>1, LinkQuiet
<1>2. CASE WindowEnds \/ (\E s \in Subjects : LockEnds(s)) \/ RowExpires \/ Crash \/ UNCHANGED vars
  BY <1>2, Elapsing, LinkQuiet
<1>3. ASSUME NEW r \in Requests, logout(r)  PROVE LinkInv'
  BY <1>3, LoggedOut, LinkQuiet
<1>4. ASSUME NEW r \in Requests, StoreLink(r)  PROVE LinkInv'
  <2>1. NoNewHolder /\ UNCHANGED <<sessions, raced>> /\ links' = Append(links, "live")
    BY <1>4, EndHolds DEF StoreLink, history
  <2>2. \A l \in 1..Len(links) : links'[l] = links[l]
    BY <2>1, Rows
  <2> QED  BY <2>1, <2>2, LinkQuiet
<1>5. ASSUME NEW r \in Requests, ReadSession(r)  PROVE LinkInv'
  <2>1. /\ sessions' = sessions /\ links' = links /\ raced \subseteq raced'
        /\ pc'[r] = "refresh" /\ \A q \in Requests : q # r => pc'[q] = pc[q] /\ source'[q] = source[q]
    BY <1>5, Rows DEF ReadSession, Begin, Go, rows
  <2>2. \A q \in Requests : pc'[q] = "link" => pc[q] = "link" /\ source'[q] = source[q]
    BY <2>1
  <2> QED  BY <2>1, <2>2 DEF LinkInv
<1>6. ASSUME NEW r \in Requests, issue_tokens(r)  PROVE LinkInv'
  <2>1. sessions' = Add(sessions, 0, 0) /\ Len(sessions) < MaxSessions /\ End(r) /\ UNCHANGED <<links, raced>>
    BY <1>6 DEF issue_tokens, history
  <2>2. 0 \in 0..Len(sessions) /\ 0 \in 0..MaxSessions /\ sessions \in Seq(Session)
    BY Rows, Limits
  <2>3. /\ Len(sessions') = Len(sessions) + 1
        /\ \A t \in 1..Len(sessions) : sessions'[t] = sessions[t]
        /\ sessions'[Len(sessions) + 1].link = 0
    BY <2>1, <2>2, AddedSession
  <2> QED  BY <2>1, <2>3, EndHolds, LinkFresh
<1>7. ASSUME NEW r \in Requests, refresh_tokens(r)  PROVE LinkInv'
  <2>1. PICK t \in 1..Len(sessions) : t = source[r]
    BY <1>7, Rows DEF refresh_tokens
  <2>2. /\ sessions' = Add(Ends(sessions, t, "revoked"), sessions[t].root, 0)
        /\ Len(sessions) < MaxSessions /\ End(r) /\ UNCHANGED <<links, raced>>
    BY <1>7, <2>1 DEF refresh_tokens, RootOf, Ends, history
  <2>3. sessions \in Seq(Session) /\ sessions[t].root <= t
    BY Rows
  <2>4. /\ Len(sessions') = Len(sessions) + 1
        /\ \A u \in 1..Len(sessions) : sessions'[u].link = sessions[u].link
        /\ sessions'[Len(sessions) + 1].link = 0
    BY <2>2, <2>3, RefreshedSession
  <2> QED  BY <2>2, <2>4, EndHolds, LinkFresh
<1> QED  BY <1>1, <1>2, <1>3, <1>4, <1>5, <1>6, <1>7, LinkRead, LinkConsumed DEF Next

(***************************************************************************)
(* A sign-in has at most one live session, however often it is refreshed,  *)
(* and a link signs in once, for any number of requests, unless two of     *)
(* them held the same row at the same time.                                *)
(***************************************************************************)
THEOREM SessionsRotate == Spec => []OneLiveSession
<1>1. Init => RefreshInv /\ LinkInv
  BY DEF Init, RefreshInv, LinkInv
<1>2. Typed /\ RefreshInv /\ LinkInv /\ [Next]_vars => RefreshInv' /\ LinkInv'
  BY RefreshNext, LinkNext
<1>3. Typed /\ RefreshInv /\ LinkInv => OneLiveSession
  BY Rows DEF RefreshInv, LinkInv, OneLiveSession, RootOf, Live
<1> QED  BY <1>1, <1>2, <1>3, TypeCorrect, PTL DEF Spec
=============================================================================
