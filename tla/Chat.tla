-------------------------------- MODULE Chat --------------------------------
(***************************************************************************)
(* The chat socket of one bot: the handshake, the loop over frames, and    *)
(* each turn in a database transaction of its own, which ends after the    *)
(* visitor has been told that it is done.  Meanwhile tokens expire,        *)
(* visitors leave, an administrator deletes the bot and the process dies.  *)
(* Each socket has another visitor; a variant given to one for the first   *)
(* time is a row of his transaction, and its locks are all it is here.     *)
(*                                                                         *)
(* The pipeline is one stream of events that succeeds or fails (module     *)
(* Pipeline); a failure of PostgreSQL inside a node leaves the transaction *)
(* aborted, and its COMMIT is then a rollback that nobody reports.         *)
(* A turn is its number; a conversation is the number of the turn that     *)
(* created it, and 0 in a frame is `conversation_id: null`.                *)
(***************************************************************************)
EXTENDS Integers, FiniteSets

CONSTANTS
    Sockets,
    Watched,   \* any one socket, whose visitor the protocol is stated for
    Earlier,   \* turns kept before, each with a conversation of its own
    MaxTurns   \* bound: turns started altogether

ASSUME ChatAssumption ==
    Watched \in Sockets /\ Earlier \in Nat /\ MaxTurns \in Nat /\ Earlier <= MaxTurns

VARIABLES
    pc,       \* where each socket's task is
    last,     \* kind of the last frame sent on the socket
    turn,     \* the turn the socket is in, or has just ended; 0 for none
    conv,     \* the conversation of that turn, or the one its frame asked for
    aborted,  \* the turn's transaction is in a failed state
    expired,  \* the socket's access token has expired
    assigned, \* the turn has written its visitor's variant (ab_assignments)
    turns,    \* number of turns started
    convs,    \* committed: conversations
    rows,     \* committed: [turn, kind], kind question, answer or usage
    bot,      \* committed: live or gone
    unheard,  \* history: turns PostgreSQL committed and whose COMMIT raised
    deleter   \* a request deleting the bot: idle, holding the lock of its row, or
              \* cascading, the rows of its conversations locked too

sockVars == <<pc, last, turn, conv, aborted, expired, assigned>>
dbVars   == <<convs, rows, bot, unheard>>
vars     == <<sockVars, turns, dbVars, deleter>>

\* The transaction of a turn is open in these places.
InTurn == {"loading", "assigning", "resolving", "asking", "walking", "recording", "failed", "told"}
Fresh(s) == conv[s] = turn[s]

\* Foreign keys lock what they name: a new conversation and a usage row the bot,
\* a message the conversation it is added to, a first assignment the experiment.
SharesBot(s)  == \/ pc[s] \in {"asking", "walking", "recording", "failed"} /\ Fresh(s)
                 \/ pc[s] = "told"
SharesConv(s) == pc[s] \in {"walking", "recording", "failed", "told"} /\ ~ Fresh(s)
SharesExp(s)  == pc[s] \in InTurn \ {"loading", "assigning"} /\ assigned[s]

Row(s, kind) == [turn |-> turn[s], kind |-> kind]
-----------------------------------------------------------------------------
Init ==
    /\ pc = [s \in Sockets |-> "closed"] /\ last = [s \in Sockets |-> "none"]
    /\ turn = [s \in Sockets |-> 0] /\ conv = [s \in Sockets |-> 0]
    /\ aborted = [s \in Sockets |-> FALSE] /\ expired = [s \in Sockets |-> FALSE]
    /\ assigned = [s \in Sockets |-> FALSE]
    /\ turns = Earlier /\ convs = 1..Earlier
    /\ rows = [turn : 1..Earlier, kind : {"question", "answer", "usage"}]
    /\ bot = "live" /\ unheard = {} /\ deleter = "idle"

Goes(s, from, to) == pc[s] = from /\ pc' = [pc EXCEPT ![s] = to]
Says(s, kind) == last' = [last EXCEPT ![s] = kind]
SameTx   == UNCHANGED <<aborted, assigned>>
SameTurn == UNCHANGED <<turn, conv, expired, turns>>
SameDb   == UNCHANGED <<dbVars, deleter>>

\* A transaction ends, one way or the other.
EndTx(s) == /\ aborted' = [aborted EXCEPT ![s] = FALSE]
            /\ assigned' = [assigned EXCEPT ![s] = FALSE]

\* What is known of a socket goes with it.
Forget(s) == /\ turn' = [turn EXCEPT ![s] = 0] /\ conv' = [conv EXCEPT ![s] = 0]
             /\ expired' = [expired EXCEPT ![s] = FALSE]
             /\ EndTx(s) /\ UNCHANGED turns

Connect(s) ==
    /\ Goes(s, "closed", "hello") /\ Says(s, "none")
    /\ SameTurn /\ SameTx /\ SameDb

TurnAway(s, from) ==
    /\ Goes(s, from, "closed") /\ Says(s, "error")
    /\ Forget(s) /\ SameDb

\* A bad or late auth frame, a bad token, an inactive user, no membership.
Reject(s) == TurnAway(s, "hello")

\* A token still valid is decoded; the user and the membership are read once.
Authenticate(s) ==
    /\ Goes(s, "hello", "known")
    /\ UNCHANGED last /\ SameTurn /\ SameTx /\ SameDb

FindBot(s) ==
    IF bot = "live"
    THEN Goes(s, "known", "open") /\ Says(s, "ready") /\ SameTurn /\ SameTx /\ SameDb
    ELSE TurnAway(s, "known")

TokenExpires(s) ==
    /\ pc[s] \notin {"closed", "hello"} /\ ~ expired[s]
    /\ expired' = [expired EXCEPT ![s] = TRUE]
    /\ UNCHANGED <<pc, last, turn, conv, turns>> /\ SameTx /\ SameDb
-----------------------------------------------------------------------------
(***************************************************************************)
(* One frame.  Size and shape are looked at before the token, the type and *)
(* the content after it.                                                   *)
(***************************************************************************)
IdleTimeout(s) == TurnAway(s, "open")

RefuseFrame(s) ==
    /\ pc[s] = "open" /\ Says(s, "error")
    /\ turn' = [turn EXCEPT ![s] = 0] /\ conv' = [conv EXCEPT ![s] = 0]
    /\ UNCHANGED <<pc, expired, turns>> /\ SameTx /\ SameDb

RefuseToken(s) == expired[s] /\ TurnAway(s, "open")

Accept(s) ==
    /\ ~ expired[s] /\ turns < MaxTurns
    /\ Goes(s, "open", "loading") /\ Says(s, "none")
    /\ turns' = turns + 1
    /\ turn' = [turn EXCEPT ![s] = turns + 1]
    /\ \E c \in 0..turns : conv' = [conv EXCEPT ![s] = c]
    /\ UNCHANGED expired /\ SameTx /\ SameDb
-----------------------------------------------------------------------------
(***************************************************************************)
(* The turn.                                                               *)
(***************************************************************************)
\* stream_rag raises: the transaction is rolled back and the visitor told.
Raise(s, from) ==
    /\ Goes(s, from, "open") /\ Says(s, "error")
    /\ SameTurn /\ EndTx(s) /\ SameDb

\* The turn goes on, with nothing to say.
Passes(s, from, to) == Goes(s, from, to) /\ UNCHANGED last /\ SameTurn /\ SameTx /\ SameDb

LoadBot(s) ==
    IF bot = "live" THEN Passes(s, "loading", "assigning") ELSE Raise(s, "loading")

\* No experiment is running or the visitor has a variant, or a variant is picked
\* and written down, or its experiment has gone with the bot since it was found.
Assign(s) ==
    \/ Passes(s, "assigning", "resolving")
    \/ /\ bot = "live"
       /\ Goes(s, "assigning", "resolving")
       /\ assigned' = [assigned EXCEPT ![s] = TRUE]
       /\ UNCHANGED <<last, aborted>> /\ SameTurn /\ SameDb
    \/ bot = "gone" /\ Raise(s, "assigning")

\* A new conversation waits for whoever is deleting the bot.
ResolveNew(s) ==
    /\ conv[s] = 0 /\ deleter = "idle"
    /\ IF bot = "live"
       THEN /\ Goes(s, "resolving", "asking")
            /\ conv' = [conv EXCEPT ![s] = turn[s]]
            /\ UNCHANGED <<last, turn, expired, turns>> /\ SameTx /\ SameDb
       ELSE Raise(s, "resolving")

ResolveKnown(s) ==
    /\ conv[s] # 0
    /\ IF conv[s] \in convs THEN Passes(s, "resolving", "asking") ELSE Raise(s, "resolving")

Named(s) ==
    Goes(s, "asking", "walking") /\ Says(s, "conversation") /\ SameTurn /\ SameTx /\ SameDb

\* Mutant of Ask: a conversation that has gone is waited for.
AskWaiting(s) ==
    /\ Fresh(s) \/ deleter # "cascading"
    /\ Fresh(s) \/ conv[s] \in convs
    /\ Named(s)

\* The question is written, and the visitor learns the conversation's number.  In
\* a conversation that is being deleted the writing waits.
Ask(s) ==
    /\ Fresh(s) \/ deleter # "cascading"
    /\ IF Fresh(s) \/ conv[s] \in convs THEN Named(s) ELSE Raise(s, "asking")

Stream(s) ==
    /\ pc[s] = "walking" /\ last[s] = "conversation" /\ Says(s, "stream")
    /\ UNCHANGED pc /\ SameTurn /\ SameTx /\ SameDb

\* Mutant of WalkFails: state.failed is not looked at after the walk.
WalkFailsOn(s) ==
    /\ Goes(s, "walking", "recording") /\ Says(s, "error")
    /\ SameTurn /\ SameTx /\ SameDb

\* A failed walk is an event and a return: what follows is a commit.
WalkFails(s) ==
    /\ Goes(s, "walking", "failed") /\ Says(s, "error")
    /\ \E broken \in BOOLEAN : aborted' = [aborted EXCEPT ![s] = broken]
    /\ UNCHANGED assigned /\ SameTurn /\ SameDb

WalkEnds(s) == Passes(s, "walking", "recording")

\* A turn of another socket has updated the conversation and is not committed.
Updated(s) == \E r \in Sockets \ {s} : pc[r] = "told" /\ conv[r] = conv[s]

\* Mutant of Record: what has been written is committed before the answer is.
RecordCommitting(s) ==
    /\ deleter = "idle" /\ ~ Updated(s)
    /\ Goes(s, "recording", "told") /\ Says(s, "done")
    /\ rows' = rows \cup {Row(s, "question"), Row(s, "usage")}
    /\ SameTurn /\ SameTx /\ UNCHANGED <<convs, bot, unheard, deleter>>

\* The conversation is updated and the usage row names the bot: each waits for
\* whoever has changed it.
Record(s) ==
    /\ deleter = "idle" /\ ~ Updated(s)
    /\ Goes(s, "recording", "told") /\ Says(s, "done")
    /\ SameTurn /\ SameTx /\ SameDb

Written(s) ==
    IF aborted[s] THEN {}
    ELSE {Row(s, k) : k \in IF pc[s] = "told" THEN {"question", "usage", "answer"}
                            ELSE {"question"}}

\* Mutant of Commit: the session is closed without it.
CommitForgotten(s) ==
    /\ pc[s] \in {"failed", "told"}
    /\ pc' = [pc EXCEPT ![s] = "open"]
    /\ UNCHANGED last /\ SameTurn /\ EndTx(s) /\ SameDb

Stores(s) ==
    /\ pc[s] \in {"failed", "told"}
    /\ pc' = [pc EXCEPT ![s] = "open"]
    /\ rows' = rows \cup Written(s)
    /\ convs' = IF Fresh(s) /\ ~ aborted[s] THEN convs \cup {conv[s]} ELSE convs
    /\ UNCHANGED <<bot, deleter>> /\ SameTurn /\ EndTx(s)

Commit(s) == Stores(s) /\ UNCHANGED <<last, unheard>>

\* The commit raises after "done" was sent: refused, or made and its
\* acknowledgement lost with the connection.
CommitRaises(s) ==
    \/ \E from \in {"failed", "told"} : Raise(s, from)
    \/ Stores(s) /\ Says(s, "error") /\ unheard' = unheard \cup {turn[s]}

\* Anything may raise on the way: a lost connection, a provider, Redis.
Breaks(s) == \E from \in {"loading", "assigning", "resolving", "asking", "walking", "recording"} :
                 Raise(s, from)
-----------------------------------------------------------------------------
(***************************************************************************)
(* Around the turn.                                                        *)
(***************************************************************************)
\* Noticed when the next frame is sent or received: the turn is rolled back.
Disconnect(s) ==
    /\ pc[s] \notin {"closed", "failed", "told"}
    /\ pc' = [pc EXCEPT ![s] = "closed"]
    /\ UNCHANGED last /\ Forget(s) /\ SameDb

Crash ==
    /\ pc' = [s \in Sockets |-> "closed"]
    /\ turn' = [s \in Sockets |-> 0] /\ conv' = [s \in Sockets |-> 0]
    /\ expired' = [s \in Sockets |-> FALSE]
    /\ aborted' = [s \in Sockets |-> FALSE] /\ assigned' = [s \in Sockets |-> FALSE]
    /\ deleter' = "idle"
    /\ UNCHANGED <<last, turns, dbVars>>

LockBot ==
    /\ deleter = "idle" /\ bot = "live"
    /\ \A s \in Sockets : ~ SharesBot(s)
    /\ deleter' = "holding"
    /\ UNCHANGED <<sockVars, turns, dbVars>>

\* The deletion cascades: into the conversations, with their messages, first.
LockConversations ==
    /\ deleter = "holding"
    /\ \A s \in Sockets : ~ SharesConv(s)
    /\ deleter' = "cascading"
    /\ UNCHANGED <<sockVars, turns, dbVars>>

\* Then into the experiments, and is committed; usage rows stay.
DeleteBot ==
    /\ deleter = "cascading"
    /\ \A s \in Sockets : ~ SharesExp(s)
    /\ bot' = "gone" /\ convs' = {} /\ deleter' = "idle"
    /\ rows' = {r \in rows : r.kind = "usage"}
    /\ UNCHANGED <<sockVars, turns, unheard>>

\* The turn waits for what the deletion holds, and the deletion for what the turn
\* holds: the bot for its usage row against the conversation, or a conversation
\* to open or to write to against the experiment.
Deadlocked(s) ==
    \/ deleter = "holding" /\ pc[s] = "recording" /\ SharesConv(s)
    \/ /\ deleter = "cascading" /\ SharesExp(s)
       /\ \/ pc[s] = "resolving" /\ conv[s] = 0
          \/ pc[s] = "asking" /\ ~ Fresh(s)

\* PostgreSQL fails one of the two.
DetectDeadlock(s) ==
    /\ Deadlocked(s)
    /\ \/ deleter' = "idle" /\ UNCHANGED <<sockVars, turns, dbVars>>
       \/ Raise(s, pc[s])

Walk(s)  == Stream(s) \/ WalkFails(s) \/ WalkEnds(s)
Serve(s) == \/ LoadBot(s) \/ Assign(s) \/ ResolveNew(s) \/ ResolveKnown(s) \/ Ask(s)
            \/ Record(s) \/ Commit(s) \/ CommitRaises(s)

Next ==
    \/ \E s \in Sockets :
        \/ Connect(s) \/ Reject(s) \/ Authenticate(s) \/ FindBot(s) \/ TokenExpires(s)
        \/ IdleTimeout(s) \/ RefuseFrame(s) \/ RefuseToken(s) \/ Accept(s)
        \/ Serve(s) \/ Walk(s) \/ Breaks(s) \/ Disconnect(s) \/ DetectDeadlock(s)
    \/ Crash \/ LockBot \/ LockConversations \/ DeleteBot

\* Nothing is assumed of a walk: no timeout bounds a turn, nor the provider's answer.
Fairness ==
    /\ \A s \in Sockets : SF_vars(Serve(s)) /\ WF_vars(DetectDeadlock(s))
    /\ WF_vars(LockConversations) /\ WF_vars(DeleteBot)

Spec == Init /\ [][Next]_vars /\ Fairness
-----------------------------------------------------------------------------
Places == {"closed", "hello", "known", "open"} \cup InTurn
Frames == {"none", "ready", "conversation", "stream", "done", "error"}

TypeOK ==
    /\ pc \in [Sockets -> Places] /\ last \in [Sockets -> Frames]
    /\ turn \in [Sockets -> 0..MaxTurns] /\ conv \in [Sockets -> 0..MaxTurns]
    /\ aborted \in [Sockets -> BOOLEAN] /\ expired \in [Sockets -> BOOLEAN]
    /\ assigned \in [Sockets -> BOOLEAN]
    /\ turns \in 0..MaxTurns
    /\ convs \subseteq 1..MaxTurns /\ unheard \subseteq 1..MaxTurns
    /\ rows \subseteq [turn : 1..MaxTurns, kind : {"question", "answer", "usage"}]
    /\ bot \in {"live", "gone"} /\ deleter \in {"idle", "holding", "cascading"}

(***************************************************************************)
(* An answer is stored with its question and exactly with its usage row;   *)
(* only the deletion of the bot parts them, and leaves the usage alone.    *)
(***************************************************************************)
Kept(t, kind) == [turn |-> t, kind |-> kind] \in rows
TurnsAreWhole ==
    \A t \in 1..turns :
        /\ Kept(t, "answer") => Kept(t, "question")
        /\ bot = "live" => (Kept(t, "answer") <=> Kept(t, "usage"))
        /\ bot = "gone" => ~ Kept(t, "answer")

(***************************************************************************)
(* A visitor whose socket is still open after "done" has an answer that    *)
(* was kept, unless the bot has been deleted since; after an error nothing *)
(* of the answer was kept, even where "done" had come first, unless it was *)
(* the news of the commit that got lost.                                   *)
(***************************************************************************)
DoneMeansKept ==
    \A s \in Sockets : pc[s] = "open" /\ turn[s] # 0 =>
        /\ last[s] = "done" /\ bot = "live" => Kept(turn[s], "answer")
        /\ last[s] = "error" =>
              \/ ~ Kept(turn[s], "answer") /\ ~ Kept(turn[s], "usage")
              \/ turn[s] \in unheard

(***************************************************************************)
(* What a visitor sees follows the protocol at the head of ws.py, whatever *)
(* the other visitors, the administrator and the database do.              *)
(***************************************************************************)
Stage(s) ==
    CASE pc[s] = "closed"                            -> "closed"
      [] pc[s] \in {"hello", "known"}                -> "greeting"
      [] pc[s] = "open"                              -> "idle"
      [] pc[s] \in {"walking", "recording"}          -> "named"
      [] pc[s] \in {"failed", "told"}                -> "over"
      [] OTHER                                       -> "asked"
Protocol == INSTANCE TurnProtocol WITH stage <- Stage(Watched), last <- last[Watched]
SpeaksProtocol == Protocol!Spec

(***************************************************************************)
(* Where every walk over a pipeline ends, every question is settled: its   *)
(* turn ends in a frame to the visitor or with the socket, through locks   *)
(* and deadlocks with the deletion of the bot and with other turns.        *)
(***************************************************************************)
WalksEnd == \A s \in Sockets : []<>(pc[s] # "walking")
AlwaysSettled ==
    WalksEnd => \A s \in Sockets : pc[s] \in InTurn ~> pc[s] \in {"open", "closed"}
=============================================================================
