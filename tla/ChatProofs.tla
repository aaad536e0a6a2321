----------------------------- MODULE ChatProofs -----------------------------
(***************************************************************************)
(* What TLAPS proves of Chat for any number of sockets and turns.          *)
(***************************************************************************)
EXTENDS Chat, TLAPS

\* Where a turn is tells what was sent of it, and that nothing of it is kept.
SocketInv ==
    \A s \in Sockets :
        /\ turn[s] <= turns
        /\ pc[s] \in InTurn => turn[s] # 0 /\ \A x \in rows : x.turn # turn[s]
        /\ pc[s] \in {"loading", "assigning", "resolving"} => conv[s] < turn[s]
        /\ pc[s] = "failed" => last[s] = "error"
        /\ pc[s] = "told" => last[s] = "done"
        /\ pc[s] # "failed" => ~ aborted[s]

\* A turn is one socket's.
TurnInv ==
    /\ \A s, r \in Sockets : s # r /\ turn[s] # 0 => turn[s] # turn[r]
    /\ \A x \in rows : x.turn <= turns

\* The row locks: nobody writes what names the bot while it is being deleted,
\* and nobody is left who could when it has gone.
BotInv ==
    /\ deleter # "idle" => bot = "live" /\ \A s \in Sockets : ~ SharesBot(s)
    /\ deleter = "cascading" => \A s \in Sockets : ~ SharesConv(s)
    /\ bot = "gone" =>
          /\ deleter = "idle" /\ convs = {}
          /\ \A s \in Sockets : ~ SharesBot(s) /\ ~ SharesConv(s)

IInv == /\ TypeOK /\ SocketInv /\ TurnInv /\ BotInv
        /\ TurnsAreWhole /\ DoneMeansKept
-----------------------------------------------------------------------------
LEMMA InitInv == Init => IInv
<1> SUFFICES ASSUME Init PROVE IInv
  OBVIOUS
<1> USE ChatAssumption DEF Init
<1>1. TypeOK
  <2>1. pc \in [Sockets -> Places] /\ last \in [Sockets -> Frames]
    BY DEF Places, Frames
  <2>2. turns \in 0..MaxTurns /\ convs \subseteq 1..MaxTurns
    OBVIOUS
  <2>3. rows \subseteq [turn : 1..MaxTurns, kind : {"question", "answer", "usage"}]
    OBVIOUS
  <2>4. QED
    BY <2>1, <2>2, <2>3 DEF TypeOK
<1>2. SocketInv /\ TurnInv /\ BotInv
  BY DEF SocketInv, TurnInv, BotInv, InTurn, SharesBot, SharesConv
<1>3. TurnsAreWhole /\ DoneMeansKept
  BY DEF TurnsAreWhole, DoneMeansKept, Kept
<1>4. QED
  BY <1>1, <1>2, <1>3 DEF IInv

LEMMA StutterInv == IInv /\ UNCHANGED vars => IInv'
  BY DEF IInv, vars, sockVars, dbVars, TypeOK, SocketInv, TurnInv, BotInv, TurnsAreWhole,
         DoneMeansKept, Kept, SharesBot, SharesConv, Fresh
-----------------------------------------------------------------------------
LEMMA TypeStep == IInv /\ Next => TypeOK'
<1> SUFFICES ASSUME TypeOK, SocketInv, Next PROVE TypeOK'
  BY DEF IInv
<1> USE ChatAssumption DEF SameTurn, SameTx, SameDb, dbVars
<1>a. ASSUME NEW s \in Sockets, NEW from, NEW to \in Places, Goes(s, from, to)
      PROVE  pc' \in [Sockets -> Places]
  BY <1>a DEF Goes, TypeOK
<1>b. ASSUME NEW s \in Sockets, NEW kind \in Frames, Says(s, kind)
      PROVE  last' \in [Sockets -> Frames]
  BY <1>b DEF Says, TypeOK
<1>c. ASSUME NEW s \in Sockets, EndTx(s)
      PROVE  aborted' \in [Sockets -> BOOLEAN] /\ assigned' \in [Sockets -> BOOLEAN]
  BY <1>c DEF EndTx, TypeOK
<1>d. ASSUME NEW s \in Sockets, Forget(s), SameDb, pc' \in [Sockets -> Places],
             last' \in [Sockets -> Frames]
      PROVE  TypeOK'
  <2>1. /\ turn' \in [Sockets -> 0..MaxTurns] /\ conv' \in [Sockets -> 0..MaxTurns]
        /\ expired' \in [Sockets -> BOOLEAN]
    BY <1>d DEF Forget, TypeOK
  <2>2. aborted' \in [Sockets -> BOOLEAN] /\ assigned' \in [Sockets -> BOOLEAN] /\ turns' = turns
    BY <1>c, <1>d DEF Forget
  <2>3. QED
    BY <1>d, <2>1, <2>2 DEF TypeOK
<1>e. {"closed", "hello", "known", "open"} \subseteq Places /\ InTurn \subseteq Places
      /\ {"none", "ready", "conversation", "stream", "done", "error"} = Frames
  BY DEF Places, Frames
<1>f. ASSUME NEW s \in Sockets, NEW from, TurnAway(s, from) PROVE TypeOK'
  BY <1>a, <1>b, <1>d, <1>e, <1>f DEF TurnAway
<1>g. ASSUME SameTurn, SameDb, pc' \in [Sockets -> Places], last' \in [Sockets -> Frames],
             aborted' \in [Sockets -> BOOLEAN], assigned' \in [Sockets -> BOOLEAN]
      PROVE  TypeOK'
  BY <1>g DEF TypeOK
<1>h. ASSUME NEW s \in Sockets, NEW from, NEW to \in Places, Passes(s, from, to) PROVE TypeOK'
  BY <1>a, <1>g, <1>h DEF Passes, TypeOK
<1>1. ASSUME NEW s \in Sockets, Connect(s) \/ RefuseFrame(s) PROVE TypeOK'
  <2>1. CASE Connect(s)
    BY <1>a, <1>b, <1>e, <1>g, <2>1 DEF Connect, TypeOK
  <2>2. CASE RefuseFrame(s)
    <3>1. last' \in [Sockets -> Frames]
      BY <1>b, <1>e, <2>2 DEF RefuseFrame
    <3>2. turn' \in [Sockets -> 0..MaxTurns] /\ conv' \in [Sockets -> 0..MaxTurns]
      BY <2>2 DEF RefuseFrame, TypeOK
    <3>3. QED
      BY <2>2, <3>1, <3>2 DEF RefuseFrame, TypeOK
  <2>3. QED
    BY <1>1, <2>1, <2>2
<1>2. ASSUME NEW s \in Sockets, Reject(s) \/ IdleTimeout(s) \/ RefuseToken(s) PROVE TypeOK'
  BY <1>2, <1>f DEF Reject, IdleTimeout, RefuseToken
<1>3. ASSUME NEW s \in Sockets, Authenticate(s) \/ TokenExpires(s) PROVE TypeOK'
  <2>1. CASE Authenticate(s)
    BY <1>a, <1>e, <1>g, <2>1 DEF Authenticate, TypeOK
  <2>2. CASE TokenExpires(s)
    BY <2>2 DEF TokenExpires, TypeOK
  <2>3. QED
    BY <1>3, <2>1, <2>2
<1>4. ASSUME NEW s \in Sockets, FindBot(s) PROVE TypeOK'
  <2>1. CASE TurnAway(s, "known")
    BY <1>f, <2>1
  <2>2. CASE Goes(s, "known", "open") /\ Says(s, "ready") /\ SameTurn /\ SameTx /\ SameDb
    BY <1>a, <1>b, <1>e, <1>g, <2>2 DEF TypeOK
  <2>3. QED
    BY <1>4, <2>1, <2>2 DEF FindBot
<1>5. ASSUME NEW s \in Sockets, Disconnect(s) PROVE TypeOK'
  <2>1. pc' \in [Sockets -> Places]
    BY <1>5, <1>e DEF Disconnect, TypeOK
  <2>2. QED
    BY <1>5, <1>d, <2>1 DEF Disconnect, TypeOK
<1>6. ASSUME NEW s \in Sockets, NEW from \in InTurn, Raise(s, from) PROVE TypeOK'
  BY <1>6, <1>a, <1>b, <1>c, <1>e, <1>g DEF Raise
<1>7. ASSUME NEW s \in Sockets, DetectDeadlock(s) \/ Breaks(s) PROVE TypeOK'
  <2>1. ASSUME NEW from \in InTurn, Raise(s, from) PROVE TypeOK'
    BY <1>6, <2>1
  <2>2. CASE deleter' = "idle" /\ UNCHANGED <<sockVars, turns, dbVars>>
    BY <2>2 DEF sockVars, TypeOK
  <2>3. QED
    BY <1>7, <2>1, <2>2 DEF DetectDeadlock, Deadlocked, Breaks, InTurn
<1>8. ASSUME NEW s \in Sockets, Accept(s) PROVE TypeOK'
  <2>1. turns' \in 0..MaxTurns /\ turn' \in [Sockets -> 0..MaxTurns] /\ conv' \in [Sockets -> 0..MaxTurns]
    BY <1>8 DEF Accept, TypeOK
  <2>2. pc' \in [Sockets -> Places] /\ last' \in [Sockets -> Frames]
    BY <1>8, <1>a, <1>b, <1>e DEF Accept, InTurn
  <2>3. QED
    BY <1>8, <2>1, <2>2 DEF Accept, TypeOK
<1>9. ASSUME NEW s \in Sockets, Stores(s),
             \/ UNCHANGED <<last, unheard>>
             \/ Says(s, "error") /\ unheard' = unheard \cup {turn[s]}
      PROVE  TypeOK'
  <2>1. turn[s] \in 1..MaxTurns
    BY <1>9 DEF Stores, SocketInv, InTurn, TypeOK
  <2>2. Written(s) \subseteq [turn : 1..MaxTurns, kind : {"question", "answer", "usage"}]
    BY <2>1 DEF Written, Row
  <2>3. convs' \subseteq 1..MaxTurns
    BY <1>9, <2>1 DEF Stores, Fresh, TypeOK
  <2>4. rows' \subseteq [turn : 1..MaxTurns, kind : {"question", "answer", "usage"}]
    BY <1>9, <2>2 DEF Stores, TypeOK
  <2>5. unheard' \subseteq 1..MaxTurns
    BY <1>9, <2>1 DEF TypeOK
  <2>6. pc' \in [Sockets -> Places] /\ last' \in [Sockets -> Frames]
    BY <1>9, <1>b, <1>e DEF Stores, TypeOK
  <2>7. aborted' \in [Sockets -> BOOLEAN] /\ assigned' \in [Sockets -> BOOLEAN]
    BY <1>9, <1>c DEF Stores
  <2>8. QED
    BY <1>9, <2>3, <2>4, <2>5, <2>6, <2>7 DEF Stores, TypeOK
<1>10. ASSUME NEW s \in Sockets, Commit(s) \/ CommitRaises(s) PROVE TypeOK'
  <2>1. ASSUME NEW from \in {"failed", "told"}, Raise(s, from) PROVE TypeOK'
    BY <1>6, <2>1 DEF InTurn
  <2>2. QED
    BY <1>9, <1>10, <2>1 DEF Commit, CommitRaises
<1>11. ASSUME NEW s \in Sockets, LoadBot(s) \/ Assign(s) \/ ResolveNew(s) \/ ResolveKnown(s) PROVE TypeOK'
  <2>1. ASSUME NEW from \in InTurn, Raise(s, from) PROVE TypeOK'
    BY <1>6, <2>1
  <2>2. ASSUME NEW from, NEW to \in InTurn, Passes(s, from, to) PROVE TypeOK'
    BY <1>e, <1>h, <2>2
  <2>3. ASSUME Goes(s, "assigning", "resolving"), assigned' = [assigned EXCEPT ![s] = TRUE],
               UNCHANGED <<last, aborted>>, SameTurn, SameDb
        PROVE  TypeOK'
    <3>1. assigned' \in [Sockets -> BOOLEAN] /\ "resolving" \in Places
      BY <1>e, <2>3 DEF TypeOK, InTurn
    <3>2. QED
      BY <1>a, <1>g, <2>3, <3>1 DEF TypeOK
  <2>4. ASSUME Goes(s, "resolving", "asking"), conv' = [conv EXCEPT ![s] = turn[s]],
               UNCHANGED <<last, turn, expired, turns>>, SameTx, SameDb
        PROVE  TypeOK'
    <3>1. conv' \in [Sockets -> 0..MaxTurns] /\ "asking" \in Places
      BY <1>e, <2>4 DEF TypeOK, InTurn
    <3>2. pc' \in [Sockets -> Places]
      BY <1>a, <2>4, <3>1
    <3>3. QED
      BY <2>4, <3>1, <3>2 DEF TypeOK
  <2>5. QED
    BY <1>11, <2>1, <2>2, <2>3, <2>4 DEF LoadBot, Assign, ResolveNew, ResolveKnown, InTurn
<1>12. ASSUME NEW s \in Sockets, Ask(s) \/ Record(s) \/ Walk(s) PROVE TypeOK'
  <2>1. ASSUME NEW from, NEW to \in InTurn, NEW kind \in Frames, Goes(s, from, to), Says(s, kind),
               SameTurn, SameTx, SameDb
        PROVE  TypeOK'
    BY <1>a, <1>b, <1>e, <1>g, <2>1 DEF TypeOK
  <2>2. CASE Ask(s) \/ Record(s)
    BY <1>6, <1>e, <2>1, <2>2 DEF Ask, Named, Record, InTurn
  <2>3. CASE Stream(s)
    BY <1>b, <1>e, <1>g, <2>3 DEF Stream, TypeOK
  <2>4. CASE WalkFails(s)
    <3>1. aborted' \in [Sockets -> BOOLEAN] /\ "failed" \in Places
      BY <1>e, <2>4 DEF WalkFails, TypeOK, InTurn
    <3>2. QED
      BY <1>a, <1>b, <1>e, <1>g, <2>4, <3>1 DEF WalkFails, TypeOK
  <2>5. CASE WalkEnds(s)
    BY <1>h, <1>e, <2>5 DEF WalkEnds, InTurn
  <2>6. QED
    BY <1>12, <2>2, <2>3, <2>4, <2>5 DEF Walk
<1>13. ASSUME Crash \/ LockBot \/ LockConversations \/ DeleteBot PROVE TypeOK'
  <2>1. CASE Crash
    BY <1>e, <2>1 DEF Crash, TypeOK
  <2>2. CASE LockBot \/ LockConversations
    BY <2>2 DEF LockBot, LockConversations, sockVars, TypeOK
  <2>3. CASE DeleteBot
    BY <2>3 DEF DeleteBot, sockVars, TypeOK
  <2>4. QED
    BY <1>13, <2>1, <2>2, <2>3
<1>14. QED
  BY <1>1, <1>2, <1>3, <1>4, <1>5, <1>7, <1>8, <1>10, <1>11, <1>12, <1>13 DEF Next, Serve

(* What a step does to the rows: only a commit adds any, its own turn's,   *)
(* whether its visitor hears of it or not.                                 *)
LEMMA RowStep ==
  ASSUME IInv, Next
  PROVE  \/ rows' = rows /\ convs' = convs /\ bot' = bot /\ unheard' = unheard
         \/ DeleteBot
         \/ \E s \in Sockets : Stores(s) /\ unheard \subseteq unheard'
<1> USE DEF SameTurn, SameTx, SameDb, dbVars, Raise, Passes, TurnAway
<1>1. ASSUME NEW s \in Sockets,
             \/ Connect(s) \/ Reject(s) \/ Authenticate(s) \/ FindBot(s) \/ TokenExpires(s)
             \/ IdleTimeout(s) \/ RefuseFrame(s) \/ RefuseToken(s) \/ Accept(s)
             \/ LoadBot(s) \/ Assign(s) \/ ResolveNew(s) \/ ResolveKnown(s) \/ Ask(s) \/ Record(s)
             \/ Walk(s) \/ Breaks(s) \/ Disconnect(s) \/ DetectDeadlock(s)
      PROVE  rows' = rows /\ convs' = convs /\ bot' = bot /\ unheard' = unheard
  BY <1>1 DEF Connect, Reject, Authenticate, FindBot, TokenExpires, IdleTimeout, RefuseFrame,
              RefuseToken, Accept, LoadBot, Assign, ResolveNew, ResolveKnown, Ask, Named, Record,
              Walk, Stream, WalkFails, WalkEnds, Breaks, Disconnect, DetectDeadlock
<1>2. ASSUME NEW s \in Sockets, Commit(s) \/ CommitRaises(s)
      PROVE  \/ rows' = rows /\ convs' = convs /\ bot' = bot /\ unheard' = unheard
             \/ Stores(s) /\ unheard \subseteq unheard'
  BY <1>2 DEF Commit, CommitRaises
<1>3. QED
  BY <1>1, <1>2 DEF Next, Serve, Crash, LockBot, LockConversations

(* Where a socket's turn goes: nowhere, back to 0, or on to the next number. *)
LEMMA TurnStep ==
  ASSUME IInv, Next, NEW s \in Sockets
  PROVE  \/ turn'[s] = turn[s] /\ (pc'[s] \in InTurn => pc[s] \in InTurn)
         \/ turn'[s] = 0 /\ pc'[s] \notin InTurn
         \/ Accept(s)
<1> USE DEF IInv, TypeOK, SameTurn, SameDb, dbVars, sockVars, Goes, Raise, InTurn
<1>1. ASSUME NEW r \in Sockets,
             \/ Connect(r) \/ Reject(r) \/ Authenticate(r) \/ FindBot(r) \/ TokenExpires(r)
             \/ IdleTimeout(r) \/ RefuseFrame(r) \/ RefuseToken(r) \/ Disconnect(r)
      PROVE  \/ turn'[s] = turn[s] /\ (pc'[s] \in InTurn => pc[s] \in InTurn)
             \/ turn'[s] = 0 /\ pc'[s] \notin InTurn
  BY <1>1 DEF Connect, Reject, Authenticate, FindBot, TokenExpires, IdleTimeout, RefuseFrame,
              RefuseToken, Disconnect, TurnAway, Forget
<1>2. ASSUME NEW r \in Sockets, LoadBot(r) \/ Assign(r) \/ ResolveNew(r) \/ ResolveKnown(r) \/ Ask(r)
      PROVE  turn'[s] = turn[s] /\ (pc'[s] \in InTurn => pc[s] \in InTurn)
  BY <1>2 DEF LoadBot, Assign, ResolveNew, ResolveKnown, Ask, Named, Passes
<1>3. ASSUME NEW r \in Sockets,
             Record(r) \/ Commit(r) \/ CommitRaises(r) \/ Walk(r) \/ Breaks(r) \/ DetectDeadlock(r)
      PROVE  turn'[s] = turn[s] /\ (pc'[s] \in InTurn => pc[s] \in InTurn)
  BY <1>3 DEF Walk, Stream, WalkFails, WalkEnds, Passes, Record, Commit, CommitRaises, Stores,
              Breaks, DetectDeadlock
<1>4. ASSUME NEW r \in Sockets, Accept(r), r # s
      PROVE  turn'[s] = turn[s] /\ (pc'[s] \in InTurn => pc[s] \in InTurn)
  BY <1>4 DEF Accept
<1>5. ASSUME Crash \/ LockBot \/ LockConversations \/ DeleteBot
      PROVE  \/ turn'[s] = turn[s] /\ (pc'[s] \in InTurn => pc[s] \in InTurn)
             \/ turn'[s] = 0 /\ pc'[s] \notin InTurn
  BY <1>5 DEF Crash, LockBot, LockConversations, DeleteBot
<1>6. QED
  BY <1>1, <1>2, <1>3, <1>4, <1>5 DEF Next, Serve

LEMMA TurnsGrow == IInv /\ Next => turns' >= turns
<1> SUFFICES ASSUME IInv, Next PROVE turns' >= turns
  OBVIOUS
<1>1. turns \in Int
  BY ChatAssumption DEF IInv, TypeOK
<1>2. ASSUME NEW s \in Sockets, Accept(s) PROVE turns' >= turns
  BY <1>1, <1>2 DEF Accept
<1>3. ASSUME NEW s \in Sockets,
             \/ Connect(s) \/ Reject(s) \/ Authenticate(s) \/ FindBot(s) \/ TokenExpires(s)
             \/ IdleTimeout(s) \/ RefuseFrame(s) \/ RefuseToken(s) \/ Serve(s) \/ Walk(s)
             \/ Breaks(s) \/ Disconnect(s) \/ DetectDeadlock(s)
      PROVE  turns' = turns
  BY <1>3 DEF Connect, Reject, Authenticate, FindBot, TokenExpires, IdleTimeout, RefuseFrame,
              RefuseToken, TurnAway, Forget, Serve, LoadBot, Assign, ResolveNew, ResolveKnown, Ask,
              Named, Passes, Walk, Stream, WalkFails, WalkEnds, Record, Commit, CommitRaises,
              Stores, Breaks, Disconnect, DetectDeadlock, Raise, SameTurn, sockVars
<1>4. QED
  BY <1>1, <1>2, <1>3 DEF Next, Crash, LockBot, LockConversations, DeleteBot

(* Which turns have rows: those that had some, and the one committed. *)
LEMMA RowTurns ==
  ASSUME IInv, Next, NEW x \in rows'
  PROVE  x \in rows \/ \E s \in Sockets : Stores(s) /\ x.turn = turn[s]
<1>1. CASE DeleteBot
  BY <1>1 DEF DeleteBot
<1>2. ASSUME NEW s \in Sockets, Stores(s)
      PROVE  x \in rows \/ x.turn = turn[s]
  BY <1>2 DEF Stores, Written, Row
<1>3. QED
  BY <1>1, <1>2, RowStep

LEMMA TurnInvStep == IInv /\ Next => TurnInv'
<1> SUFFICES ASSUME IInv, Next PROVE TurnInv'
  OBVIOUS
<1>1. ASSUME NEW s \in Sockets, NEW r \in Sockets, s # r, turn'[s] # 0
      PROVE  turn'[s] # turn'[r]
  <2>1. /\ turn[s] \in Nat /\ turn[r] \in Nat /\ turns \in Nat
        /\ turn[s] <= turns /\ turn[r] <= turns
        /\ turn[s] # 0 => turn[s] # turn[r]
    BY <1>1, ChatAssumption DEF IInv, TypeOK, SocketInv, TurnInv
  <2>2. \A q \in Sockets : Accept(q) => turn' = [turn EXCEPT ![q] = turns + 1]
    BY DEF Accept
  <2>3. turn \in [Sockets -> Nat]
    BY ChatAssumption DEF IInv, TypeOK
  <2>4. CASE Accept(s)
    BY <2>1, <2>2, <2>3, <2>4, <1>1
  <2>5. CASE Accept(r)
    BY <2>1, <2>2, <2>3, <2>5, <1>1
  <2>6. CASE ~ Accept(s) /\ ~ Accept(r)
    <3>1. turn'[s] = turn[s] /\ turn'[r] \in {turn[r], 0}
      BY <1>1, <2>6, TurnStep
    <3>2. QED
      BY <1>1, <2>1, <3>1
  <2>7. QED
    BY <2>4, <2>5, <2>6
<1>2. ASSUME NEW x \in rows'
      PROVE  x.turn <= turns'
  <2>1. x.turn <= turns
    BY <1>2, RowTurns DEF IInv, TurnInv, SocketInv
  <2>2. turns \in Nat /\ turns' \in Nat /\ turns' >= turns
    BY TurnsGrow, TypeStep, ChatAssumption DEF IInv, TypeOK
  <2>3. x.turn \in Nat
    BY TypeStep, ChatAssumption DEF TypeOK
  <2>4. QED
    BY <2>1, <2>2, <2>3
<1>3. QED
  BY <1>1, <1>2 DEF TurnInv

(* A turn that is not over has a number and no rows. *)
LEMMA UnkeptStep ==
  ASSUME IInv, Next, NEW s \in Sockets, pc'[s] \in InTurn
  PROVE  turn'[s] # 0 /\ \A x \in rows' : x.turn # turn'[s]
<1>1. turn \in [Sockets -> Nat] /\ pc \in [Sockets -> Places]
      /\ turns \in Nat /\ \A x \in rows : x.turn \in Nat
  BY ChatAssumption DEF IInv, TypeOK
<1>2. CASE turn'[s] = turn[s] /\ pc[s] \in InTurn
  <2>1. turn[s] # 0 /\ \A x \in rows : x.turn # turn[s]
    BY <1>2 DEF IInv, SocketInv
  <2>2. ASSUME NEW r \in Sockets, Stores(r) PROVE turn[r] # turn[s]
    <3>1. r # s
      BY <1>1, <2>2 DEF Stores, InTurn
    <3>2. QED
      BY <2>1, <3>1 DEF IInv, TurnInv
  <2>3. QED
    BY <1>2, <2>1, <2>2, RowTurns
<1>3. CASE Accept(s)
  <2>1. turn'[s] = turns + 1 /\ rows' = rows
    BY <1>1, <1>3 DEF Accept, SameDb, dbVars
  <2>2. QED
    BY <1>1, <2>1 DEF IInv, TurnInv
<1>4. QED
  BY <1>2, <1>3, TurnStep

(* What the place of a socket says of its frames, conversation and transaction. *)
LEMMA PlaceStep ==
  ASSUME IInv, Next, NEW s \in Sockets
  PROVE  /\ pc'[s] \in {"loading", "assigning", "resolving"} => conv'[s] < turn'[s]
         /\ pc'[s] = "failed" => last'[s] = "error"
         /\ pc'[s] = "told" => last'[s] = "done"
         /\ pc'[s] # "failed" => ~ aborted'[s]
<1> DEFINE Goal == /\ pc'[s] \in {"loading", "assigning", "resolving"} => conv'[s] < turn'[s]
                   /\ pc'[s] = "failed" => last'[s] = "error"
                   /\ pc'[s] = "told" => last'[s] = "done"
                   /\ pc'[s] # "failed" => ~ aborted'[s]
<1>t. /\ pc \in [Sockets -> Places]
      /\ last \in [Sockets -> Frames]
      /\ turn \in [Sockets -> Int] /\ conv \in [Sockets -> Int]
      /\ aborted \in [Sockets -> BOOLEAN] /\ turns \in Int
  BY ChatAssumption DEF IInv, TypeOK
<1>i. /\ pc[s] \in {"loading", "assigning", "resolving"} => conv[s] < turn[s]
      /\ pc[s] = "failed" => last[s] = "error"
      /\ pc[s] = "told" => last[s] = "done"
      /\ pc[s] # "failed" => ~ aborted[s]
  BY DEF IInv, SocketInv
<1> USE DEF InTurn, Goes, Says, SameTurn, SameTx, EndTx, Raise, Passes, TurnAway, Forget
<1>1. ASSUME NEW r \in Sockets, Connect(r) \/ RefuseFrame(r) PROVE Goal
  BY <1>t, <1>i, <1>1 DEF Connect, RefuseFrame
<1>2. ASSUME NEW r \in Sockets, Reject(r) \/ IdleTimeout(r) \/ RefuseToken(r) PROVE Goal
  BY <1>t, <1>i, <1>2 DEF Reject, IdleTimeout, RefuseToken
<1>3. ASSUME NEW r \in Sockets, Authenticate(r) \/ TokenExpires(r) \/ Disconnect(r) PROVE Goal
  BY <1>t, <1>i, <1>3 DEF Authenticate, TokenExpires, Disconnect
<1>4. ASSUME NEW r \in Sockets, FindBot(r) PROVE Goal
  BY <1>t, <1>i, <1>4 DEF FindBot
<1>5. ASSUME NEW r \in Sockets, Accept(r) PROVE Goal
  BY <1>t, <1>i, <1>5 DEF Accept
<1>6. ASSUME NEW r \in Sockets, LoadBot(r) \/ Assign(r) \/ ResolveKnown(r) PROVE Goal
  BY <1>t, <1>i, <1>6 DEF LoadBot, Assign, ResolveKnown
<1>7. ASSUME NEW r \in Sockets, ResolveNew(r) \/ Ask(r) PROVE Goal
  BY <1>t, <1>i, <1>7 DEF ResolveNew, Ask, Named
<1>8. ASSUME NEW r \in Sockets, Stream(r) \/ WalkEnds(r) \/ Record(r) PROVE Goal
  BY <1>t, <1>i, <1>8 DEF Stream, WalkEnds, Record
<1>9. ASSUME NEW r \in Sockets, WalkFails(r) PROVE Goal
  BY <1>t, <1>i, <1>9 DEF WalkFails
<1>10. ASSUME NEW r \in Sockets, Commit(r) \/ CommitRaises(r) \/ Breaks(r) PROVE Goal
  BY <1>t, <1>i, <1>10 DEF Commit, CommitRaises, Stores, Breaks
<1>11. ASSUME NEW r \in Sockets, DetectDeadlock(r) PROVE Goal
  BY <1>t, <1>i, <1>11 DEF DetectDeadlock, sockVars
<1>12. ASSUME Crash \/ LockBot \/ LockConversations \/ DeleteBot PROVE Goal
  BY <1>t, <1>i, <1>12 DEF Crash, LockBot, LockConversations, DeleteBot, sockVars
<1>13. QED
  BY <1>1, <1>2, <1>3, <1>4, <1>5, <1>6, <1>7, <1>8, <1>9, <1>10, <1>11, <1>12
     DEF Next, Serve, Walk

LEMMA SocketStep == IInv /\ Next => SocketInv'
<1> SUFFICES ASSUME IInv, Next, NEW s \in Sockets
             PROVE  /\ turn'[s] <= turns'
                    /\ pc'[s] \in InTurn => turn'[s] # 0 /\ \A x \in rows' : x.turn # turn'[s]
  BY PlaceStep DEF SocketInv, InTurn
<1>1. /\ turn \in [Sockets -> Int] /\ turns \in Int /\ turns' \in Int
      /\ 0 <= turns /\ turns <= turns' /\ turn[s] <= turns
  BY ChatAssumption, TurnsGrow, TypeStep DEF IInv, TypeOK, SocketInv
<1>2. Accept(s) => turn'[s] = turns + 1 /\ turns' = turns + 1
  BY <1>1 DEF Accept
<1>3. QED
  BY <1>1, <1>2, TurnStep, UnkeptStep

LEMMA BotStep == IInv /\ Next => BotInv'
<1> SUFFICES ASSUME IInv, Next PROVE BotInv'
  OBVIOUS
<1> DEFINE Goal == BotInv'
<1>t. /\ pc \in [Sockets -> Places]
      /\ turn \in [Sockets -> Int] /\ conv \in [Sockets -> Int] /\ turns \in Int
      /\ \A s \in Sockets : pc[s] \in {"loading", "assigning", "resolving"} => conv[s] < turn[s]
      /\ bot \in {"live", "gone"} /\ deleter \in {"idle", "holding", "cascading"}
  BY ChatAssumption DEF IInv, TypeOK, SocketInv
<1>b. BotInv
  BY DEF IInv
<1> USE DEF InTurn, Goes, SameTurn, SameDb, dbVars, Raise, Passes, TurnAway, Forget,
            BotInv, SharesBot, SharesConv, Fresh
<1>1. ASSUME NEW r \in Sockets, Connect(r) \/ RefuseFrame(r) PROVE Goal
  BY <1>t, <1>b, <1>1 DEF Connect, RefuseFrame
<1>2. ASSUME NEW r \in Sockets, Reject(r) \/ IdleTimeout(r) \/ RefuseToken(r) PROVE Goal
  BY <1>t, <1>b, <1>2 DEF Reject, IdleTimeout, RefuseToken
<1>3. ASSUME NEW r \in Sockets, Authenticate(r) \/ TokenExpires(r) \/ Disconnect(r) PROVE Goal
  BY <1>t, <1>b, <1>3 DEF Authenticate, TokenExpires, Disconnect
<1>4. ASSUME NEW r \in Sockets, FindBot(r) PROVE Goal
  BY <1>t, <1>b, <1>4 DEF FindBot
<1>5. ASSUME NEW r \in Sockets, Accept(r) PROVE Goal
  BY <1>t, <1>b, <1>5 DEF Accept
<1>6. ASSUME NEW r \in Sockets, LoadBot(r) \/ Assign(r) PROVE Goal
  BY <1>t, <1>b, <1>6 DEF LoadBot, Assign
<1>7. ASSUME NEW r \in Sockets, ResolveNew(r) PROVE Goal
  BY <1>t, <1>b, <1>7 DEF ResolveNew
<1>8. ASSUME NEW r \in Sockets, ResolveKnown(r) PROVE Goal
  BY <1>t, <1>b, <1>8 DEF ResolveKnown
<1>9. ASSUME NEW r \in Sockets, Ask(r) PROVE Goal
  BY <1>t, <1>b, <1>9 DEF Ask, Named
<1>10. ASSUME NEW r \in Sockets, Stream(r) \/ WalkEnds(r) \/ WalkFails(r) PROVE Goal
  BY <1>t, <1>b, <1>10 DEF Stream, WalkEnds, WalkFails
<1>11. ASSUME NEW r \in Sockets, Record(r) PROVE Goal
  BY <1>t, <1>b, <1>11 DEF Record
<1>12. ASSUME NEW r \in Sockets, Stores(r) PROVE Goal
  BY <1>t, <1>b, <1>12 DEF Stores
<1>13. ASSUME NEW r \in Sockets, NEW from \in InTurn, Raise(r, from) PROVE Goal
  BY <1>t, <1>b, <1>13
<1>14. ASSUME NEW r \in Sockets, Commit(r) \/ CommitRaises(r) \/ Breaks(r) PROVE Goal
  BY <1>12, <1>13, <1>14 DEF Commit, CommitRaises, Breaks
<1>15. ASSUME NEW r \in Sockets, DetectDeadlock(r) PROVE Goal
  <2>1. CASE Raise(r, pc[r])
    BY <1>13, <1>15, <2>1 DEF DetectDeadlock, Deadlocked
  <2>2. CASE deleter' = "idle" /\ UNCHANGED <<sockVars, turns, dbVars>>
    BY <1>t, <1>b, <2>2 DEF sockVars
  <2>3. QED
    BY <1>15, <2>1, <2>2 DEF DetectDeadlock
<1>16. ASSUME Crash \/ LockBot PROVE Goal
  BY <1>t, <1>b, <1>16 DEF Crash, LockBot, sockVars
<1>17. ASSUME LockConversations \/ DeleteBot PROVE Goal
  BY <1>t, <1>b, <1>17 DEF LockConversations, DeleteBot, sockVars
<1>18. QED
  BY <1>1, <1>2, <1>3, <1>4, <1>5, <1>6, <1>7, <1>8, <1>9, <1>10, <1>11, <1>14, <1>15,
     <1>16, <1>17 DEF Next, Serve, Walk

(* A commit keeps a question, or a question with its answer and its usage. *)
LEMMA CommitRows ==
  ASSUME IInv, NEW s \in Sockets, Stores(s)
  PROVE  /\ pc[s] \in {"failed", "told"} /\ bot = "live" /\ bot' = bot
         /\ turn[s] # 0 /\ turn' = turn /\ turn[s] \in 1..turns
         /\ \A x \in rows : x.turn # turn[s]
         /\ \A t, k : Kept(t, k)' <=>
               \/ Kept(t, k)
               \/ /\ t = turn[s] /\ ~ aborted[s]
                  /\ k \in IF pc[s] = "told" THEN {"question", "usage", "answer"} ELSE {"question"}
<1>1. pc[s] \in {"failed", "told"} /\ bot' = bot /\ turn' = turn
      /\ rows' = rows \cup Written(s)
  BY DEF Stores, SameTurn
<1>2. bot = "live"
  BY <1>1 DEF IInv, TypeOK, BotInv, SharesBot, SharesConv, InTurn
<1>3. turn[s] # 0 /\ turn[s] \in 1..turns /\ \A x \in rows : x.turn # turn[s]
  BY <1>1, ChatAssumption DEF IInv, TypeOK, SocketInv, InTurn
<1>4. ASSUME NEW t, NEW k
      PROVE  [turn |-> t, kind |-> k] \in Written(s) <=>
                /\ t = turn[s] /\ ~ aborted[s]
                /\ k \in IF pc[s] = "told" THEN {"question", "usage", "answer"} ELSE {"question"}
  BY DEF Written, Row
<1>5. QED
  BY <1>1, <1>2, <1>3, <1>4 DEF Kept

LEMMA WholeStep == IInv /\ Next => TurnsAreWhole'
<1> SUFFICES ASSUME IInv, Next, NEW t \in 1..turns'
             PROVE  /\ Kept(t, "answer")' => Kept(t, "question")'
                    /\ bot' = "live" => (Kept(t, "answer")' <=> Kept(t, "usage")')
                    /\ bot' = "gone" => ~ Kept(t, "answer")'
  BY DEF TurnsAreWhole
<1>1. /\ Kept(t, "answer") => Kept(t, "question")
      /\ bot = "live" => (Kept(t, "answer") <=> Kept(t, "usage"))
      /\ bot = "gone" => ~ Kept(t, "answer")
  <2>1. CASE t \in 1..turns
    BY <2>1 DEF IInv, TurnsAreWhole
  <2>2. CASE t \notin 1..turns
    <3>1. t > turns /\ t \in Int /\ turns \in Int
      BY <2>2, ChatAssumption, TypeStep DEF IInv, TypeOK
    <3>2. \A k : ~ Kept(t, k)
      BY <3>1 DEF Kept, IInv, TurnInv
    <3>3. QED
      BY <3>2
  <2>3. QED
    BY <2>1, <2>2
<1>2. CASE rows' = rows /\ bot' = bot
  BY <1>1, <1>2 DEF Kept
<1>3. CASE DeleteBot
  BY <1>3 DEF DeleteBot, Kept
<1>4. ASSUME NEW s \in Sockets, Stores(s)
      PROVE  /\ Kept(t, "answer")' => Kept(t, "question")'
             /\ bot' = "live" => (Kept(t, "answer")' <=> Kept(t, "usage")')
             /\ bot' = "gone" => ~ Kept(t, "answer")'
  <2>1. \A k : Kept(t, k)' <=>
           \/ Kept(t, k)
           \/ /\ t = turn[s] /\ ~ aborted[s]
              /\ k \in IF pc[s] = "told" THEN {"question", "usage", "answer"} ELSE {"question"}
    BY <1>4, CommitRows
  <2>2. bot' = "live" /\ bot = "live"
    BY <1>4, CommitRows
  <2>3. t = turn[s] => \A k : ~ Kept(t, k)
    BY <1>4, CommitRows DEF Kept
  <2>4. QED
    BY <1>1, <2>1, <2>2, <2>3
<1>5. QED
  BY <1>2, <1>3, <1>4, RowStep

(* A socket comes to rest, between its turns, from one that has nothing    *)
(* kept, by its own commit, heard of or not, or by putting the number of   *)
(* the turn away.                                                          *)
LEMMA RestStep ==
  ASSUME IInv, Next, NEW s \in Sockets, pc'[s] = "open", turn'[s] # 0
  PROVE  /\ turn'[s] = turn[s]
         /\ \/ pc[s] = "open" /\ last'[s] = last[s]
            \/ last'[s] \notin {"done", "error"}
            \/ pc[s] \in InTurn /\ last'[s] = "error" /\ rows' = rows
            \/ Stores(s) /\ last'[s] = last[s]
            \/ last'[s] = "error" /\ turn[s] \in unheard'
<1> DEFINE Goal == /\ turn'[s] = turn[s]
                   /\ \/ pc[s] = "open" /\ last'[s] = last[s]
                      \/ last'[s] \notin {"done", "error"}
                      \/ pc[s] \in InTurn /\ last'[s] = "error" /\ rows' = rows
                      \/ Stores(s) /\ last'[s] = last[s]
                      \/ last'[s] = "error" /\ turn[s] \in unheard'
<1>t. /\ pc \in [Sockets -> Places]
      /\ last \in [Sockets -> Frames]
      /\ turn \in [Sockets -> Int]
  BY ChatAssumption DEF IInv, TypeOK
<1> USE DEF InTurn, Goes, Says, SameTurn, SameDb, dbVars, Raise, Passes, TurnAway, Forget
<1>1. ASSUME NEW r \in Sockets, Connect(r) \/ RefuseFrame(r) PROVE Goal
  BY <1>t, <1>1 DEF Connect, RefuseFrame
<1>2. ASSUME NEW r \in Sockets, Reject(r) \/ IdleTimeout(r) \/ RefuseToken(r) PROVE Goal
  BY <1>t, <1>2 DEF Reject, IdleTimeout, RefuseToken
<1>3. ASSUME NEW r \in Sockets, Authenticate(r) \/ TokenExpires(r) \/ Disconnect(r) PROVE Goal
  BY <1>t, <1>3 DEF Authenticate, TokenExpires, Disconnect
<1>4. ASSUME NEW r \in Sockets, FindBot(r) PROVE Goal
  BY <1>t, <1>4 DEF FindBot
<1>5. ASSUME NEW r \in Sockets, Accept(r) PROVE Goal
  BY <1>t, <1>5 DEF Accept
<1>6. ASSUME NEW r \in Sockets, LoadBot(r) \/ Assign(r) \/ ResolveKnown(r) PROVE Goal
  BY <1>t, <1>6 DEF LoadBot, Assign, ResolveKnown
<1>7. ASSUME NEW r \in Sockets, ResolveNew(r) \/ Ask(r) PROVE Goal
  BY <1>t, <1>7 DEF ResolveNew, Ask, Named
<1>8. ASSUME NEW r \in Sockets, Stream(r) \/ WalkEnds(r) \/ Record(r) \/ WalkFails(r) PROVE Goal
  BY <1>t, <1>8 DEF Stream, WalkEnds, Record, WalkFails
<1>9. ASSUME NEW r \in Sockets, Stores(r), UNCHANGED last PROVE Goal
  BY <1>t, <1>9 DEF Stores
<1>10. ASSUME NEW r \in Sockets, Stores(r), Says(r, "error"), unheard' = unheard \cup {turn[r]}
       PROVE  Goal
  BY <1>t, <1>10 DEF Stores
<1>11. ASSUME NEW r \in Sockets, NEW from \in InTurn, Raise(r, from) PROVE Goal
  BY <1>t, <1>11
<1>12. ASSUME NEW r \in Sockets, Commit(r) \/ CommitRaises(r) \/ Breaks(r) PROVE Goal
  BY <1>9, <1>10, <1>11, <1>12 DEF Commit, CommitRaises, Breaks
<1>13. ASSUME NEW r \in Sockets, DetectDeadlock(r) PROVE Goal
  BY <1>t, <1>13 DEF DetectDeadlock, Deadlocked, sockVars
<1>14. ASSUME Crash \/ LockBot \/ LockConversations \/ DeleteBot PROVE Goal
  BY <1>t, <1>14 DEF Crash, LockBot, LockConversations, DeleteBot, sockVars
<1>15. QED
  BY <1>1, <1>2, <1>3, <1>4, <1>5, <1>6, <1>7, <1>8, <1>12, <1>13, <1>14 DEF Next, Serve, Walk

LEMMA DoneStep == IInv /\ Next => DoneMeansKept'
<1> SUFFICES ASSUME IInv, Next, NEW s \in Sockets, pc'[s] = "open", turn'[s] # 0
             PROVE  /\ last'[s] = "done" /\ bot' = "live" => Kept(turn[s], "answer")'
                    /\ last'[s] = "error" =>
                          \/ ~ Kept(turn[s], "answer")' /\ ~ Kept(turn[s], "usage")'
                          \/ turn[s] \in unheard'
  BY RestStep DEF DoneMeansKept, Kept
<1>t. turn'[s] = turn[s]
  BY RestStep
<1>1. CASE pc[s] = "open" /\ last'[s] = last[s]
  <2>1. /\ last[s] = "done" /\ bot = "live" => Kept(turn[s], "answer")
        /\ last[s] = "error" =>
              \/ ~ Kept(turn[s], "answer") /\ ~ Kept(turn[s], "usage")
              \/ turn[s] \in unheard
    BY <1>1, <1>t DEF IInv, DoneMeansKept
  <2>2. CASE rows' = rows /\ bot' = bot /\ unheard' = unheard
    BY <1>1, <2>1, <2>2, <1>t DEF Kept
  <2>3. CASE DeleteBot
    <3>1. bot' = "gone" /\ unheard' = unheard /\ \A x \in rows' : x \in rows
      BY <2>3 DEF DeleteBot
    <3>2. QED
      BY <1>1, <1>t, <2>1, <3>1 DEF Kept
  <2>4. ASSUME NEW r \in Sockets, Stores(r), unheard \subseteq unheard'
        PROVE  /\ bot' = bot
               /\ \A k : Kept(turn[s], k)' <=> Kept(turn[s], k)
    <3>1. r # s
      BY <1>1, <2>4 DEF Stores
    <3>2. turn[r] # turn[s] /\ turn' = turn
      BY <1>t, <2>4, <3>1, CommitRows DEF IInv, TurnInv
    <3>3. QED
      BY <2>4, <3>2, CommitRows
  <2>5. QED
    BY <1>1, <2>1, <2>2, <2>3, <2>4, RowStep
<1>2. CASE pc[s] \in InTurn /\ last'[s] = "error" /\ rows' = rows
  BY <1>2, <1>t DEF Kept, IInv, SocketInv
<1>3. CASE Stores(s) /\ last'[s] = last[s]
  <2>1. /\ pc[s] \in {"failed", "told"} /\ \A x \in rows : x.turn # turn[s]
        /\ turn' = turn
        /\ \A k : Kept(turn[s], k)' <=>
               \/ Kept(turn[s], k)
               \/ /\ ~ aborted[s]
                  /\ k \in IF pc[s] = "told" THEN {"question", "usage", "answer"} ELSE {"question"}
    BY <1>3, CommitRows
  <2>2. \A k : ~ Kept(turn[s], k)
    BY <2>1 DEF Kept
  <2>3. /\ pc[s] = "failed" => last[s] = "error"
        /\ pc[s] = "told" => last[s] = "done" /\ ~ aborted[s]
    BY DEF IInv, SocketInv, InTurn
  <2>4. QED
    BY <1>3, <2>1, <2>2, <2>3
<1>4. CASE last'[s] \notin {"done", "error"}
  BY <1>4
<1>5. CASE last'[s] = "error" /\ turn[s] \in unheard'
  BY <1>5
<1>6. QED
  BY <1>1, <1>2, <1>3, <1>4, <1>5, RestStep

LEMMA Invariance == Spec => []IInv
<1>1. IInv /\ [Next]_vars => IInv'
  BY TypeStep, SocketStep, TurnInvStep, BotStep, WholeStep, DoneStep, StutterInv DEF IInv
<1>2. QED
  BY InitInv, <1>1, PTL DEF Spec
-----------------------------------------------------------------------------
(* Every variable keeps its shape. *)
THEOREM TypeCorrect == Spec => []TypeOK
<1>1. IInv => TypeOK
  BY DEF IInv
<1>2. QED
  BY Invariance, <1>1, PTL

(* Answers are kept with their question and with exactly one usage row: a  *)
(* turn's rows come from one commit, and nothing of it is there before.    *)
THEOREM AnswersAreWhole == Spec => []TurnsAreWhole
<1>1. IInv => TurnsAreWhole
  BY DEF IInv
<1>2. QED
  BY Invariance, <1>1, PTL

(* What the visitor of an open socket was told last is what was kept.      *)
THEOREM DonesAreKept == Spec => []DoneMeansKept
<1>1. IInv => DoneMeansKept
  BY DEF IInv
<1>2. QED
  BY Invariance, <1>1, PTL

(* Chat implements the protocol of one visitor, whichever socket is        *)
(* watched: each step of the socket is a step of TurnProtocol, and steps   *)
(* of the others, the deletion and the database are none of its business.  *)
THEOREM ChatSpeaksProtocol == Spec => SpeaksProtocol
<1>1. Init => Protocol!Init
  BY ChatAssumption DEF Init, Protocol!Init, Stage
<1>2. ASSUME TypeOK, Next
      PROVE  \/ Protocol!Next
             \/ UNCHANGED <<Stage(Watched), last[Watched]>>
  <2> DEFINE w == Watched
             Goal == Protocol!Next \/ UNCHANGED <<Stage(w), last[w]>>
  <2>t. /\ pc \in [Sockets -> Places]
        /\ last \in [Sockets -> Frames]
        /\ w \in Sockets
    BY <1>2, ChatAssumption DEF TypeOK
  <2> HIDE DEF w
  <2>o. ASSUME pc'[w] = pc[w], last'[w] = last[w] PROVE Goal
    BY <2>o DEF Stage
  <2> USE <2>t DEF InTurn, Goes, Says, Raise, Passes, TurnAway, Stage, w, Protocol!Next, Protocol!Step
  <2>1. ASSUME Connect(w) PROVE Goal
    BY <2>1 DEF Connect, Protocol!Connect
  <2>2. ASSUME Reject(w) \/ IdleTimeout(w) \/ RefuseToken(w) PROVE Goal
    BY <2>2 DEF Reject, IdleTimeout, RefuseToken, Protocol!TurnAway
  <2>3. ASSUME Authenticate(w) \/ TokenExpires(w) PROVE Goal
    BY <2>3 DEF Authenticate, TokenExpires
  <2>4. ASSUME FindBot(w) PROVE Goal
    BY <2>4 DEF FindBot, Protocol!TurnAway, Protocol!Welcome
  <2>5. ASSUME RefuseFrame(w) PROVE Goal
    BY <2>5 DEF RefuseFrame, Protocol!Refuse
  <2>6. ASSUME Accept(w) PROVE Goal
    BY <2>6 DEF Accept, Protocol!Accept
  <2>7. ASSUME \/ Raise(w, "loading") \/ Raise(w, "assigning")
               \/ Raise(w, "resolving") \/ Raise(w, "asking")
        PROVE  Goal
    BY <2>7 DEF Protocol!GiveUp
  <2>8. ASSUME \/ Raise(w, "walking") \/ Raise(w, "recording")
               \/ Raise(w, "failed") \/ Raise(w, "told")
        PROVE  Goal
    BY <2>8 DEF Protocol!GiveUp
  <2>9. ASSUME LoadBot(w) \/ Assign(w) \/ ResolveNew(w) \/ ResolveKnown(w) \/ Ask(w) PROVE Goal
    BY <2>9, <2>7 DEF LoadBot, Assign, ResolveNew, ResolveKnown, Ask, Named, Protocol!Name
  <2>10. ASSUME Stream(w) PROVE Goal
    BY <2>10 DEF Stream, Protocol!Stream
  <2>11. ASSUME WalkFails(w) \/ WalkEnds(w) \/ Record(w) PROVE Goal
    BY <2>11 DEF WalkFails, WalkEnds, Record, Protocol!Finish
  <2>12. ASSUME Commit(w) PROVE Goal
    BY <2>12 DEF Commit, Stores, Protocol!Settle
  <2>13. ASSUME CommitRaises(w) \/ Breaks(w) \/ DetectDeadlock(w) PROVE Goal
    <3>1. CASE Stores(w) /\ Says(w, "error")
      BY <3>1 DEF Stores, Protocol!GiveUp
    <3>2. QED
      BY <2>13, <2>7, <2>8, <2>o, <3>1 DEF CommitRaises, Breaks, DetectDeadlock, Deadlocked, sockVars
  <2>14. ASSUME Disconnect(w) \/ Crash PROVE Goal
    BY <2>14 DEF Disconnect, Crash, Protocol!Leave
  <2>15. ASSUME LockBot \/ LockConversations \/ DeleteBot PROVE Goal
    BY <2>15, <2>o DEF LockBot, LockConversations, DeleteBot, sockVars
  <2>16. ASSUME NEW r \in Sockets, r # w,
                \/ Connect(r) \/ Reject(r) \/ Authenticate(r) \/ FindBot(r) \/ TokenExpires(r)
                \/ IdleTimeout(r) \/ RefuseFrame(r) \/ RefuseToken(r) \/ Accept(r)
                \/ Serve(r) \/ Walk(r) \/ Breaks(r) \/ Disconnect(r) \/ DetectDeadlock(r)
         PROVE  Goal
    <3>1. pc'[w] = pc[w] /\ last'[w] = last[w]
      BY <2>16 DEF Connect, Reject, Authenticate, FindBot, TokenExpires, IdleTimeout,
                   RefuseFrame, RefuseToken, Accept, Serve, LoadBot, Assign, ResolveNew,
                   ResolveKnown, Ask, Named, Walk, Stream, WalkFails, WalkEnds, Record, Commit,
                   CommitRaises, Stores, Breaks, Disconnect, DetectDeadlock, sockVars
    <3>2. QED
      BY <3>1, <2>o
  <2>17. QED
    BY <1>2, <2>1, <2>2, <2>3, <2>4, <2>5, <2>6, <2>9, <2>10, <2>11, <2>12, <2>13, <2>14, <2>15,
       <2>16 DEF Next, Serve, Walk
<1>3. UNCHANGED vars => UNCHANGED <<Stage(Watched), last[Watched]>>
  BY DEF vars, sockVars, Stage
<1>4. TypeOK /\ [Next]_vars => [Protocol!Next]_<<Stage(Watched), last[Watched]>>
  BY <1>2, <1>3
<1>5. QED
  BY TypeCorrect, <1>1, <1>4, PTL DEF Spec, SpeaksProtocol, Protocol!Spec
=============================================================================
