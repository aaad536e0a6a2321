------------------------- MODULE InvitationsProofs -------------------------
(***************************************************************************)
(* Proofs about Invitations, for any number of requests in flight, any     *)
(* addresses and any names of organizations.                               *)
(***************************************************************************)
EXTENDS Invitations, FiniteSetTheorems, TLAPS

Slugs == {<<NameOf(e)>> : e \in Emails} \cup {<<NameOf(e), "suffix">> : e \in Emails}
Asker == Roles \cup {"owner"}

\* What a request of the API may have read.
Memory == [invite : Nat, asked : Nat, email : Emails \cup {Nobody}, org : Nat,
           role : Roles \cup {"owner", "none"}, slug : Slugs \cup {<<>>},
           user : BOOLEAN, member : BOOLEAN, sent : BOOLEAN]

States == {"idle", "deciding", "inviting", "chosen", "flushed", "mailed", "accepting", "known"}

\* What a request knows, by where it is.
Knows(a) ==
    /\ pc[a] = "idle" => mem[a] = NoMem
    /\ mem[a].asked \in 0..Len(asked)
    /\ pc[a] \in {"deciding", "inviting", "chosen", "flushed", "mailed"} =>
          mem[a].email \in Emails /\ mem[a].role \in Asker /\ mem[a].org \in 0..Len(slugs)
    /\ pc[a] = "deciding" => mem[a].asked # 0
    /\ pc[a] \in {"chosen", "flushed", "mailed"} => (mem[a].slug = <<>> <=> mem[a].org # 0)
    /\ pc[a] = "mailed" => mem[a].sent
    /\ pc[a] \in {"accepting", "known"} =>
          mem[a].invite \in 1..Len(invites) /\ mem[a].email = invites[mem[a].invite].email

Typed ==
    /\ TypeOK
    /\ Len(invites) <= MaxInvites /\ Len(asked) <= MaxAsked /\ slugs \in Seq(Slugs)
    /\ \A i \in 1..Len(invites) : invites[i].asked <= Len(asked) /\ invites[i].org <= Len(slugs)
    /\ mem \in [Actors -> Memory]
    /\ \A a \in Actors : Knows(a)

LEMMA Limits ==
    MaxAsked \in Nat /\ MaxInvites \in Nat /\ Allowed \subseteq Emails /\ Nobody \notin Emails
BY InvitationsAssumption

LEMMA SlugsAreNamed ==
    /\ \A e \in Emails : <<NameOf(e)>> \in Slugs /\ <<NameOf(e), "suffix">> \in Slugs
    /\ <<>> \notin Slugs
<1>1. \A e \in Emails : <<NameOf(e)>> # <<>> /\ <<NameOf(e), "suffix">> # <<>>
  OBVIOUS
<1> QED  BY <1>1 DEF Slugs

LEMMA NoMemIsMemory == NoMem \in Memory /\ NoMem.asked = 0 /\ NoMem.invite = 0
BY DEF NoMem, Memory

\* Each read puts into a request's memory what it read, and nothing else.
AsksFor(m, q, e) == [m EXCEPT !.asked = q, !.email = e, !.role = "owner"]
Invites(m, e, role, o) == [m EXCEPT !.email = e, !.role = role, !.org = o]
Opens(m, i, e) == [m EXCEPT !.invite = i, !.email = e]
WithSlug(m, slug) == [m EXCEPT !.slug = slug]
WithSent(m) == [m EXCEPT !.sent = TRUE]
Knowing(m, u, k) == [m EXCEPT !.user = u, !.member = k]

LEMMA AsksForReads ==
    ASSUME NEW m \in Memory, NEW q \in Nat, NEW e \in Emails
    PROVE  /\ AsksFor(m, q, e) \in Memory /\ AsksFor(m, q, e).asked = q /\ AsksFor(m, q, e).email = e
           /\ AsksFor(m, q, e).role = "owner" /\ AsksFor(m, q, e).org = m.org
BY DEF AsksFor, Memory

LEMMA InvitesReads ==
    ASSUME NEW m \in Memory, NEW e \in Emails, NEW role \in Roles, NEW o \in Nat
    PROVE  /\ Invites(m, e, role, o) \in Memory /\ Invites(m, e, role, o).asked = m.asked
           /\ Invites(m, e, role, o).email = e /\ Invites(m, e, role, o).role = role
           /\ Invites(m, e, role, o).org = o
BY DEF Invites, Memory

LEMMA OpensReads ==
    ASSUME NEW m \in Memory, NEW i \in Nat, NEW e \in Emails
    PROVE  /\ Opens(m, i, e) \in Memory /\ Opens(m, i, e).asked = m.asked
           /\ Opens(m, i, e).email = e /\ Opens(m, i, e).invite = i
BY DEF Opens, Memory

LEMMA WithSlugReads ==
    ASSUME NEW m \in Memory, NEW slug \in Slugs \cup {<<>>}
    PROVE  /\ WithSlug(m, slug) \in Memory /\ WithSlug(m, slug).slug = slug
           /\ WithSlug(m, slug).asked = m.asked /\ WithSlug(m, slug).email = m.email
           /\ WithSlug(m, slug).role = m.role /\ WithSlug(m, slug).org = m.org
BY DEF WithSlug, Memory

LEMMA WithSentReads ==
    ASSUME NEW m \in Memory
    PROVE  /\ WithSent(m) \in Memory /\ WithSent(m).sent /\ WithSent(m).slug = m.slug
           /\ WithSent(m).asked = m.asked /\ WithSent(m).email = m.email
           /\ WithSent(m).role = m.role /\ WithSent(m).org = m.org
BY DEF WithSent, Memory

LEMMA KnowingReads ==
    ASSUME NEW m \in Memory, NEW u \in BOOLEAN, NEW k \in BOOLEAN
    PROVE  /\ Knowing(m, u, k) \in Memory /\ Knowing(m, u, k).member = k
           /\ Knowing(m, u, k).asked = m.asked /\ Knowing(m, u, k).email = m.email
           /\ Knowing(m, u, k).invite = m.invite
BY DEF Knowing, Memory

\* An invitation, or an access request, whose status is set keeps the rest.
SetInvite(rows, i, status) == [rows EXCEPT ![i].status = status]

LEMMA InviteSet ==
    ASSUME NEW rows \in Seq(Invite), NEW i \in 1..Len(rows), NEW status \in {"live", "used", "expired"}
    PROVE  /\ SetInvite(rows, i, status) \in Seq(Invite) /\ Len(SetInvite(rows, i, status)) = Len(rows)
           /\ \A j \in 1..Len(rows) :
                 /\ SetInvite(rows, i, status)[j].email = rows[j].email
                 /\ SetInvite(rows, i, status)[j].org = rows[j].org
                 /\ SetInvite(rows, i, status)[j].role = rows[j].role
                 /\ SetInvite(rows, i, status)[j].asked = rows[j].asked
                 /\ SetInvite(rows, i, status)[j].status = IF j = i THEN status ELSE rows[j].status
<1>1. rows[i] \in Invite /\ DOMAIN rows = 1..Len(rows) /\ Len(rows) \in Nat
  OBVIOUS
<1> DEFINE row == [rows[i] EXCEPT !.status = status]
<1>2. /\ row \in Invite /\ row.email = rows[i].email /\ row.org = rows[i].org
      /\ row.role = rows[i].role /\ row.asked = rows[i].asked /\ row.status = status
  BY <1>1 DEF Invite
<1>3. SetInvite(rows, i, status) = [rows EXCEPT ![i] = row]
  BY <1>1 DEF Invite, SetInvite
<1> HIDE DEF row
<1>4. [rows EXCEPT ![i] = row] \in Seq(Invite) /\ Len([rows EXCEPT ![i] = row]) = Len(rows)
  BY <1>1, <1>2
<1>5. \A j \in 1..Len(rows) : [rows EXCEPT ![i] = row][j] = IF j = i THEN row ELSE rows[j]
  BY <1>1
<1> QED  BY <1>2, <1>3, <1>4, <1>5

SetRequest(rows, q, status) == [rows EXCEPT ![q].status = status]

LEMMA RequestSet ==
    ASSUME NEW rows \in Seq(AccessRequest), NEW q \in 1..Len(rows), NEW status \in {"approved", "rejected"}
    PROVE  /\ SetRequest(rows, q, status) \in Seq(AccessRequest)
           /\ Len(SetRequest(rows, q, status)) = Len(rows)
           /\ \A j \in 1..Len(rows) :
                 SetRequest(rows, q, status)[j].status = IF j = q THEN status ELSE rows[j].status
<1>1. rows[q] \in AccessRequest /\ DOMAIN rows = 1..Len(rows) /\ Len(rows) \in Nat
  OBVIOUS
<1> DEFINE row == [rows[q] EXCEPT !.status = status]
<1>2. row \in AccessRequest /\ row.status = status
  BY <1>1 DEF AccessRequest
<1>3. SetRequest(rows, q, status) = [rows EXCEPT ![q] = row]
  BY <1>1 DEF AccessRequest, SetRequest
<1> HIDE DEF row
<1>4. [rows EXCEPT ![q] = row] \in Seq(AccessRequest) /\ Len([rows EXCEPT ![q] = row]) = Len(rows)
  BY <1>1, <1>2
<1>5. \A j \in 1..Len(rows) : [rows EXCEPT ![q] = row][j] = IF j = q THEN row ELSE rows[j]
  BY <1>1
<1> QED  BY <1>2, <1>3, <1>4, <1>5

\* The tables, as the proofs use them.
LEMMA Tables ==
    ASSUME Typed
    PROVE  /\ users \subseteq Emails /\ members \subseteq Membership
           /\ invites \in Seq(Invite) /\ asked \in Seq(AccessRequest) /\ slugs \in Seq(Slugs)
           /\ Len(invites) \in Nat /\ Len(asked) \in Nat /\ Len(slugs) \in Nat
           /\ Len(invites) <= MaxInvites /\ Len(asked) <= MaxAsked
           /\ DOMAIN invites = 1..Len(invites) /\ DOMAIN asked = 1..Len(asked)
           /\ DOMAIN slugs = 1..Len(slugs)
           /\ pc \in [Actors -> States] /\ mem \in [Actors -> Memory]
           /\ mailed \subseteq 1..MaxInvites /\ raced \subseteq 1..MaxAsked
           /\ \A i \in 1..Len(invites) :
                 /\ invites[i].email \in Emails /\ invites[i].role \in Asker
                 /\ invites[i].org \in Nat \ {0} /\ invites[i].org <= Len(slugs)
                 /\ invites[i].asked \in Nat /\ invites[i].asked <= Len(asked)
           /\ \A q \in 1..Len(asked) : asked[q].email \in Emails
<1>1. /\ users \subseteq Emails /\ members \subseteq Membership
      /\ invites \in Seq(Invite) /\ asked \in Seq(AccessRequest) /\ slugs \in Seq(Slugs)
      /\ Len(invites) <= MaxInvites /\ Len(asked) <= MaxAsked
      /\ pc \in [Actors -> States] /\ mem \in [Actors -> Memory]
      /\ mailed \subseteq 1..MaxInvites /\ raced \subseteq 1..MaxAsked
      /\ \A i \in 1..Len(invites) : invites[i].asked <= Len(asked) /\ invites[i].org <= Len(slugs)
  BY DEF Typed, TypeOK, States
<1>2. /\ Len(invites) \in Nat /\ Len(asked) \in Nat /\ Len(slugs) \in Nat
      /\ DOMAIN invites = 1..Len(invites) /\ DOMAIN asked = 1..Len(asked)
      /\ DOMAIN slugs = 1..Len(slugs)
  BY <1>1
<1>3. ASSUME NEW i \in 1..Len(invites)
      PROVE  /\ invites[i].email \in Emails /\ invites[i].role \in Asker
             /\ invites[i].org \in Nat \ {0} /\ invites[i].asked \in Nat
  <2>1. invites[i] \in Invite
    BY <1>1
  <2> QED  BY <2>1, Limits DEF Invite, Asker
<1>4. ASSUME NEW q \in 1..Len(asked)  PROVE asked[q].email \in Emails
  <2>1. asked[q] \in AccessRequest
    BY <1>1
  <2> QED  BY <2>1 DEF AccessRequest
<1> QED  BY <1>1, <1>2, <1>3, <1>4

\* A step of one request that commits nothing.
LEMMA TypedMove ==
    ASSUME Typed, NEW a \in Actors, NEW to \in States, NEW m \in Memory,
           pc' = [pc EXCEPT ![a] = to], mem' = [mem EXCEPT ![a] = m],
           UNCHANGED <<db, mailed>>, raced' \subseteq 1..MaxAsked, Knows(a)'
    PROVE  Typed'
<1>1. pc' \in [Actors -> States] /\ mem' \in [Actors -> Memory]
  BY Tables
<1>2. \A b \in Actors : b # a => pc'[b] = pc[b] /\ mem'[b] = mem[b]
  BY Tables
<1>3. \A b \in Actors : Knows(b)'
  BY <1>2 DEF Typed, Knows, db
<1>4. TypeOK'
  BY <1>1 DEF Typed, TypeOK, States, db
<1> QED  BY <1>1, <1>3, <1>4 DEF Typed, db

\* What a request that ends, or goes on, is left with.
LEMMA Ended ==
    ASSUME Typed, NEW a \in Actors, End(a)
    PROVE  /\ pc' = [pc EXCEPT ![a] = "idle"] /\ mem' = [mem EXCEPT ![a] = NoMem]
           /\ pc'[a] = "idle" /\ mem'[a] = NoMem
           /\ pc' \in [Actors -> States] /\ mem' \in [Actors -> Memory]
           /\ \A b \in Actors : b # a => pc'[b] = pc[b] /\ mem'[b] = mem[b]
BY Tables, NoMemIsMemory DEF End, States

\* What each of them reads, as one value put into the request's memory.
LEMMA ReadRequestStep ==
    ASSUME Typed, NEW a \in Actors, ReadRequest(a)
    PROVE  \E q \in 1..Len(asked), m \in Memory :
             /\ asked[q].status = "pending" /\ pc[a] = "idle"
             /\ pc' = [pc EXCEPT ![a] = "deciding"] /\ mem' = [mem EXCEPT ![a] = m]
             /\ m.asked = q /\ m.email \in Emails /\ m.role \in Asker /\ m.org = 0
             /\ raced' = IF \E b \in Actors : mem[b].asked = q THEN raced \cup {q} ELSE raced
             /\ UNCHANGED <<db, mailed>>
<1>1. PICK q \in 1..Len(asked) :
         /\ asked[q].status = "pending" /\ pc[a] = "idle"
         /\ pc' = [pc EXCEPT ![a] = "deciding"]
         /\ mem' = [mem EXCEPT ![a].asked = q, ![a].email = asked[q].email, ![a].role = "owner"]
         /\ raced' = IF \E b \in Actors : mem[b].asked = q THEN raced \cup {q} ELSE raced
         /\ UNCHANGED <<db, mailed>>
  BY Tables DEF ReadRequest, Go
<1> DEFINE m == AsksFor(mem[a], q, asked[q].email)
<1>2. mem[a] \in Memory /\ mem[a] = NoMem /\ asked[q].email \in Emails /\ q \in Nat
  BY <1>1, Tables DEF Typed, Knows
<1>3. mem' = [mem EXCEPT ![a] = m]
  BY <1>1, Tables DEF AsksFor
<1>4. m \in Memory /\ m.asked = q /\ m.email = asked[q].email /\ m.role = "owner" /\ m.org = mem[a].org
  BY <1>2, AsksForReads
<1>5. m.org = 0 /\ m.role \in Asker
  BY <1>2, <1>4 DEF NoMem, Asker
<1> QED  BY <1>1, <1>2, <1>3, <1>4, <1>5

LEMMA CreateInviteStep ==
    ASSUME Typed, NEW a \in Actors, CreateInvite(a)
    PROVE  \E m \in Memory :
             /\ pc[a] = "idle" /\ pc' = [pc EXCEPT ![a] = "inviting"] /\ mem' = [mem EXCEPT ![a] = m]
             /\ m.asked = 0 /\ m.email \in Emails /\ m.role \in Asker /\ m.org \in 0..Len(slugs)
             /\ UNCHANGED <<db, mailed, raced>>
<1>1. PICK e \in Emails, role \in Roles, org \in 0..Len(slugs) :
         /\ pc[a] = "idle" /\ pc' = [pc EXCEPT ![a] = "inviting"]
         /\ mem' = [mem EXCEPT ![a].email = e, ![a].role = role, ![a].org = org]
         /\ UNCHANGED <<db, mailed, raced>>
  BY DEF CreateInvite, Go
<1> DEFINE m == Invites(mem[a], e, role, org)
<1>2. mem[a] \in Memory /\ mem[a] = NoMem /\ org \in Nat
  BY <1>1, Tables DEF Typed, Knows
<1>3. mem' = [mem EXCEPT ![a] = m]
  BY <1>1, Tables DEF Invites
<1>4. m \in Memory /\ m.asked = mem[a].asked /\ m.email = e /\ m.role = role /\ m.org = org
  BY <1>2, InvitesReads
<1>5. m.asked = 0 /\ m.role \in Asker
  BY <1>2, <1>4, NoMemIsMemory DEF Asker
<1> QED  BY <1>1, <1>3, <1>4, <1>5

LEMMA ChooseSlugStep ==
    ASSUME Typed, NEW a \in Actors, ChooseSlug(a)
    PROVE  \E m \in Memory :
             /\ pc[a] = "inviting" /\ pc' = [pc EXCEPT ![a] = "chosen"] /\ mem' = [mem EXCEPT ![a] = m]
             /\ m.asked = mem[a].asked /\ m.email = mem[a].email /\ m.role = mem[a].role
             /\ m.org = mem[a].org /\ (m.slug = <<>> <=> m.org # 0)
             /\ UNCHANGED <<db, mailed, raced>>
<1> DEFINE slug == CASE mem[a].org # 0 -> <<>>
                     [] mem[a].org = 0 /\ Taken(<<NameOf(mem[a].email)>>) -> <<NameOf(mem[a].email), "suffix">>
                     [] OTHER -> <<NameOf(mem[a].email)>>
           m == WithSlug(mem[a], slug)
<1>1. /\ pc[a] = "inviting" /\ pc' = [pc EXCEPT ![a] = "chosen"] /\ UNCHANGED <<db, mailed, raced>>
      /\ mem[a].email \in Emails /\ mem' = [mem EXCEPT ![a].slug = slug]
  BY Limits DEF ChooseSlug, Go
<1>2. mem[a] \in Memory /\ mem' = [mem EXCEPT ![a] = m]
  BY <1>1, Tables DEF WithSlug
<1>3. slug \in Slugs \cup {<<>>} /\ (slug = <<>> <=> mem[a].org # 0)
  BY <1>1, SlugsAreNamed
<1> HIDE DEF slug
<1>4. /\ m \in Memory /\ m.slug = slug /\ m.asked = mem[a].asked /\ m.email = mem[a].email
      /\ m.role = mem[a].role /\ m.org = mem[a].org
  BY <1>2, <1>3, WithSlugReads
<1> QED  BY <1>1, <1>2, <1>3, <1>4

LEMMA SendMailStep ==
    ASSUME Typed, NEW a \in Actors, SendMail(a)
    PROVE  \E m \in Memory :
             /\ pc[a] = "flushed" /\ pc' = [pc EXCEPT ![a] = "mailed"] /\ mem' = [mem EXCEPT ![a] = m]
             /\ m.sent /\ m.asked = mem[a].asked /\ m.email = mem[a].email /\ m.role = mem[a].role
             /\ m.org = mem[a].org /\ m.slug = mem[a].slug
             /\ UNCHANGED <<db, mailed, raced>>
<1> DEFINE m == WithSent(mem[a])
<1>1. /\ pc[a] = "flushed" /\ pc' = [pc EXCEPT ![a] = "mailed"] /\ UNCHANGED <<db, mailed, raced>>
      /\ mem' = [mem EXCEPT ![a].sent = TRUE]
  BY DEF SendMail, Go
<1>2. mem[a] \in Memory /\ mem' = [mem EXCEPT ![a] = m]
  BY <1>1, Tables DEF WithSent
<1>3. /\ m \in Memory /\ m.sent /\ m.slug = mem[a].slug /\ m.asked = mem[a].asked
      /\ m.email = mem[a].email /\ m.role = mem[a].role /\ m.org = mem[a].org
  BY <1>2, WithSentReads
<1> QED  BY <1>1, <1>2, <1>3

LEMMA ReadInviteStep ==
    ASSUME Typed, NEW a \in Actors, ReadInvite(a)
    PROVE  \E i \in 1..Len(invites), m \in Memory :
             /\ pc[a] = "idle" /\ pc' = [pc EXCEPT ![a] = "accepting"] /\ mem' = [mem EXCEPT ![a] = m]
             /\ m.asked = 0 /\ m.invite = i /\ m.email = invites[i].email
             /\ UNCHANGED <<db, mailed, raced>>
<1>1. PICK i \in 1..Len(invites) :
         /\ pc[a] = "idle" /\ pc' = [pc EXCEPT ![a] = "accepting"]
         /\ mem' = [mem EXCEPT ![a].invite = i, ![a].email = invites[i].email]
         /\ UNCHANGED <<db, mailed, raced>>
  BY Tables DEF ReadInvite, Go
<1> DEFINE m == Opens(mem[a], i, invites[i].email)
<1>2. mem[a] \in Memory /\ mem[a] = NoMem /\ i \in Nat /\ invites[i].email \in Emails
  BY <1>1, Tables DEF Typed, Knows
<1>3. mem' = [mem EXCEPT ![a] = m]
  BY <1>1, Tables DEF Opens
<1>4. m \in Memory /\ m.asked = mem[a].asked /\ m.email = invites[i].email /\ m.invite = i
  BY <1>2, OpensReads
<1> QED  BY <1>1, <1>2, <1>3, <1>4, NoMemIsMemory

LEMMA ReadUserStep ==
    ASSUME Typed, NEW a \in Actors, ReadUser(a)
    PROVE  \E m \in Memory :
             /\ pc[a] = "accepting" /\ pc' = [pc EXCEPT ![a] = "known"] /\ mem' = [mem EXCEPT ![a] = m]
             /\ m.asked = mem[a].asked /\ m.invite = mem[a].invite /\ m.email = mem[a].email
             /\ m.member <=> IsMember(mem[a].email, invites[mem[a].invite].org)
             /\ UNCHANGED <<db, mailed, raced>>
<1> DEFINE u == mem[a].email \in users
           k == IsMember(mem[a].email, invites[mem[a].invite].org)
           m == Knowing(mem[a], u, k)
<1>1. /\ pc[a] = "accepting" /\ pc' = [pc EXCEPT ![a] = "known"] /\ UNCHANGED <<db, mailed, raced>>
      /\ mem' = [mem EXCEPT ![a].user = u, ![a].member = k]
  BY DEF ReadUser, Go
<1>u. (mem[a].email \in users) \in BOOLEAN
  BY SMT
<1>k. IsMember(mem[a].email, invites[mem[a].invite].org) \in BOOLEAN
  BY SMT DEF IsMember
<1>2. u \in BOOLEAN /\ k \in BOOLEAN
  BY <1>u, <1>k
<1> HIDE DEF u, k
<1>3. mem[a] \in Memory /\ mem' = [mem EXCEPT ![a] = m]
  BY <1>1, Tables DEF Knowing
<1>4. /\ m \in Memory /\ m.member = k /\ m.asked = mem[a].asked /\ m.email = mem[a].email
      /\ m.invite = mem[a].invite
  BY <1>2, <1>3, KnowingReads
<1> QED  BY <1>1, <1>3, <1>4 DEF k
\* A step that commits keeps what every other request knows.
LEMMA TypedCommit ==
    ASSUME Typed, users' \subseteq Emails, members' \subseteq Membership, mailed' \subseteq 1..MaxInvites,
           invites' \in Seq(Invite), asked' \in Seq(AccessRequest), slugs' \in Seq(Slugs), raced' = raced,
           Len(invites) <= Len(invites'), Len(invites') <= MaxInvites,
           Len(asked) <= Len(asked'), Len(asked') <= MaxAsked, Len(slugs) <= Len(slugs'),
           \A i \in 1..Len(invites) : invites'[i].email = invites[i].email,
           \A i \in 1..Len(invites') : invites'[i].asked <= Len(asked') /\ invites'[i].org <= Len(slugs'),
           UNCHANGED <<pc, mem>> \/ \E a \in Actors : End(a)
    PROVE  Typed'
<1>1. pc' \in [Actors -> States] /\ mem' \in [Actors -> Memory]
  BY Tables, Ended
<1>2. ASSUME NEW b \in Actors  PROVE Knows(b)'
  <2>1. CASE pc'[b] = pc[b] /\ mem'[b] = mem[b]
    <3>1. Knows(b) /\ Len(asked) \in Nat /\ Len(slugs) \in Nat /\ Len(invites) \in Nat
      BY Tables DEF Typed
    <3>2. Len(asked)' \in Nat /\ Len(slugs)' \in Nat /\ Len(invites)' \in Nat
      OBVIOUS
    <3> QED  BY <2>1, <3>1, <3>2 DEF Knows
  <2>2. CASE pc'[b] = "idle" /\ mem'[b] = NoMem
    <3>1. Len(asked)' \in Nat
      OBVIOUS
    <3> QED  BY <2>2, <3>1, NoMemIsMemory DEF Knows
  <2> QED  BY <2>1, <2>2, Ended
<1>3. TypeOK'
  BY <1>1, Tables DEF TypeOK, States
<1> QED  BY <1>1, <1>2, <1>3 DEF Typed

LEMMA TypedAsked == ASSUME Typed, create_access_request  PROVE Typed'
<1>1. PICK e \in Allowed : asked' = Append(asked, [email |-> e, status |-> "pending"])
  BY DEF create_access_request
<1> DEFINE row == [email |-> e, status |-> "pending"]
<1>2. row \in AccessRequest
  BY Limits DEF AccessRequest
<1> HIDE DEF row
<1>3. asked' = Append(asked, row)
  BY <1>1 DEF row
<1>4. /\ UNCHANGED <<users, members, slugs, invites, pc, mem, mailed, raced>>
      /\ Len(asked) < MaxAsked
  BY DEF create_access_request
<1>5. asked' \in Seq(AccessRequest) /\ Len(asked') = Len(asked) + 1
  BY <1>2, <1>3, Tables
<1> QED  BY <1>4, <1>5, Tables, TypedCommit, Limits

LEMMA TypedExpires == ASSUME Typed, Expires  PROVE Typed'
<1>1. PICK i \in 1..Len(invites) : invites' = SetInvite(invites, i, "expired")
  BY Tables DEF Expires, SetInvite
<1>2. UNCHANGED <<users, members, slugs, asked, pc, mem, mailed, raced>>
  BY DEF Expires
<1>3. /\ invites' \in Seq(Invite) /\ Len(invites') = Len(invites)
      /\ \A j \in 1..Len(invites) :
            /\ invites'[j].email = invites[j].email /\ invites'[j].org = invites[j].org
            /\ invites'[j].asked = invites[j].asked
  BY <1>1, Tables, InviteSet
<1>4. \A j \in 1..Len(invites') : invites'[j].asked <= Len(asked') /\ invites'[j].org <= Len(slugs')
  BY <1>2, <1>3, Tables
<1> QED  BY <1>2, <1>3, <1>4, Tables, TypedCommit

\* The access request a deciding request holds is set, and nothing else is.
LEMMA RejectStep ==
    ASSUME Typed, NEW a \in Actors, Reject(a)
    PROVE  /\ pc[a] = "deciding" /\ mem[a].asked \in 1..Len(asked)
           /\ asked' = SetRequest(asked, mem[a].asked, "rejected") /\ End(a)
           /\ UNCHANGED <<users, members, slugs, invites, mailed, raced>>
BY Tables DEF Reject, Typed, Knows, SetRequest

LEMMA TypedReject == ASSUME Typed, NEW a \in Actors, Reject(a)  PROVE Typed'
<1>1. asked' \in Seq(AccessRequest) /\ Len(asked') = Len(asked)
  BY RejectStep, RequestSet, Tables
<1> QED  BY <1>1, RejectStep, Tables, TypedCommit

\* The invitation that is accepted, and the rows its acceptance writes.
RowOf(inv) == [email |-> inv.email, org |-> inv.org, role |-> inv.role]

LEMMA AcceptStep ==
    ASSUME Typed, NEW a \in Actors, accept_invite(a)
    PROVE  \E i \in 1..Len(invites) :
             /\ pc[a] = "known" /\ i = mem[a].invite
             /\ users' = users \cup {invites[i].email}
             /\ mem[a].member \/ ~ IsMember(invites[i].email, invites[i].org)
             /\ members' = IF mem[a].member THEN members ELSE members \cup {RowOf(invites[i])}
             /\ invites' = SetInvite(invites, i, "used")
             /\ End(a) /\ UNCHANGED <<slugs, asked, mailed, raced>>
<1>1. pc[a] = "known" /\ mem[a].invite \in 1..Len(invites)
  BY DEF accept_invite, Typed, Knows
<1> QED  BY <1>1 DEF accept_invite, SetInvite, RowOf

LEMMA RowsAreMemberships ==
    ASSUME Typed, NEW i \in 1..Len(invites)
    PROVE  /\ RowOf(invites[i]) \in Membership /\ RowOf(invites[i]).email = invites[i].email
           /\ RowOf(invites[i]).org = invites[i].org /\ RowOf(invites[i]).role = invites[i].role
BY Tables DEF RowOf, Membership, Asker

LEMMA TypedAccept == ASSUME Typed, NEW a \in Actors, accept_invite(a)  PROVE Typed'
<1>1. PICK i \in 1..Len(invites) :
         /\ users' = users \cup {invites[i].email}
         /\ members' = IF mem[a].member THEN members ELSE members \cup {RowOf(invites[i])}
         /\ invites' = SetInvite(invites, i, "used")
         /\ End(a) /\ UNCHANGED <<slugs, asked, mailed, raced>>
  BY AcceptStep
<1>2. users' \subseteq Emails /\ members' \subseteq Membership
  BY <1>1, Tables, RowsAreMemberships
<1>3. /\ invites' \in Seq(Invite) /\ Len(invites') = Len(invites)
      /\ \A j \in 1..Len(invites) :
            /\ invites'[j].email = invites[j].email /\ invites'[j].org = invites[j].org
            /\ invites'[j].asked = invites[j].asked
  BY <1>1, Tables, InviteSet
<1>4. \A j \in 1..Len(invites') : invites'[j].asked <= Len(asked') /\ invites'[j].org <= Len(slugs')
  BY <1>1, <1>3, Tables
<1>5. \E b \in Actors : End(b)
  BY <1>1
<1> QED  BY <1>1, <1>2, <1>3, <1>4, <1>5, Tables, TypedCommit

\* What a commit writes: one invitation, perhaps its organization, perhaps the
\* answer to its access request.
LEMMA CommitStep ==
    ASSUME Typed, NEW a \in Actors, CommitInvite(a)
    PROVE  /\ pc[a] = "mailed" /\ End(a) /\ UNCHANGED <<users, members, raced>>
           /\ invites' \in Seq(Invite)
           /\ Len(invites') = Len(invites) + 1 /\ Len(invites') <= MaxInvites
           /\ \A i \in 1..Len(invites) : invites'[i] = invites[i]
           /\ invites'[Len(invites')].status = "live"
           /\ invites'[Len(invites')].asked = mem[a].asked
           /\ slugs' \in Seq(Slugs) /\ invites'[Len(invites')].org \in 1..Len(slugs')
           /\ \/ slugs' = slugs
              \/ Len(slugs') = Len(slugs) + 1 /\ invites'[Len(invites')].org = Len(slugs')
           /\ \/ mem[a].asked = 0 /\ asked' = asked
              \/ /\ mem[a].asked \in 1..Len(asked)
                 /\ asked' = SetRequest(asked, mem[a].asked, "approved")
           /\ mailed' = mailed \cup {Len(invites')}
<1> DEFINE org == IF mem[a].org = 0 THEN Len(slugs') ELSE mem[a].org
           row == [email |-> mem[a].email, role |-> mem[a].role, org |-> org,
                   status |-> "live", asked |-> mem[a].asked]
<1>1. /\ pc[a] = "mailed" /\ Len(invites) < MaxInvites /\ End(a) /\ UNCHANGED <<users, members, raced>>
      /\ slugs' = IF mem[a].slug = <<>> THEN slugs ELSE Append(slugs, mem[a].slug)
      /\ invites' = Append(invites, row)
      /\ asked' = IF mem[a].asked = 0 THEN asked ELSE SetRequest(asked, mem[a].asked, "approved")
      /\ mailed' = IF mem[a].sent THEN mailed \cup {Len(invites')} ELSE mailed
  BY DEF CommitInvite, SetRequest
<1>2. /\ mem[a].email \in Emails /\ mem[a].role \in Asker /\ mem[a].org \in 0..Len(slugs)
      /\ mem[a].slug = <<>> <=> mem[a].org # 0
      /\ mem[a].sent /\ mem[a].asked \in 0..Len(asked) /\ mem[a].slug \in Slugs \cup {<<>>}
  BY <1>1, Tables DEF Typed, Knows, Memory
<1>3. /\ slugs' \in Seq(Slugs) /\ org \in 1..Len(slugs')
      /\ slugs' = slugs \/ (Len(slugs') = Len(slugs) + 1 /\ org = Len(slugs'))
  <2>1. CASE mem[a].slug = <<>>
    BY <1>1, <1>2, <2>1, Tables
  <2>2. CASE mem[a].slug # <<>>
    <3>1. slugs' = Append(slugs, mem[a].slug) /\ mem[a].slug \in Slugs /\ mem[a].org = 0
      BY <1>1, <1>2, <2>2
    <3>2. slugs' \in Seq(Slugs) /\ Len(slugs') = Len(slugs) + 1
      BY <3>1, Tables
    <3> QED  BY <3>1, <3>2, Tables
  <2> QED  BY <2>1, <2>2
<1> HIDE DEF org
<1>4. row \in Invite
  <2>1. org \in Nat \ {0}
    BY <1>3
  <2>2. mem[a].asked \in 0..MaxAsked
    BY <1>2, Tables, Limits
  <2> QED  BY <1>2, <2>1, <2>2 DEF Invite, Asker
<1>5. row.status = "live" /\ row.asked = mem[a].asked /\ row.org = org
  OBVIOUS
<1> HIDE DEF row
<1>6. /\ invites' \in Seq(Invite) /\ Len(invites') = Len(invites) + 1
      /\ invites'[Len(invites) + 1] = row /\ \A i \in 1..Len(invites) : invites'[i] = invites[i]
  BY <1>1, <1>4, Tables
<1>7. Len(invites') <= MaxInvites
  BY <1>1, <1>6, Tables, Limits
<1>8. \/ mem[a].asked = 0 /\ asked' = asked
      \/ mem[a].asked \in 1..Len(asked) /\ asked' = SetRequest(asked, mem[a].asked, "approved")
  BY <1>1, <1>2, Tables
<1> QED  BY <1>1, <1>2, <1>3, <1>5, <1>6, <1>7, <1>8

LEMMA TypedCommitInvite == ASSUME Typed, NEW a \in Actors, CommitInvite(a)  PROVE Typed'
<1>1. asked' \in Seq(AccessRequest) /\ Len(asked') = Len(asked)
  <2>1. CASE asked' = asked
    BY <2>1, Tables
  <2>2. CASE mem[a].asked \in 1..Len(asked) /\ asked' = SetRequest(asked, mem[a].asked, "approved")
    BY <2>2, Tables, RequestSet
  <2> QED  BY <2>1, <2>2, CommitStep
<1>2. Len(slugs) <= Len(slugs') /\ mem[a].asked <= Len(asked)
  BY CommitStep, Tables
<1>3. mailed' \subseteq 1..MaxInvites
  BY CommitStep, Tables, Limits
<1>4. \A i \in 1..Len(invites') : invites'[i].asked <= Len(asked') /\ invites'[i].org <= Len(slugs')
  <2>1. \A i \in 1..Len(invites) : invites'[i].asked <= Len(asked') /\ invites'[i].org <= Len(slugs')
    <3>1. Len(slugs') \in Nat
      BY CommitStep
    <3> QED  BY <1>1, <1>2, <3>1, CommitStep, Tables
  <2>2. invites'[Len(invites')].asked <= Len(asked') /\ invites'[Len(invites')].org <= Len(slugs')
    BY <1>1, <1>2, CommitStep
  <2> QED  BY <2>1, <2>2, CommitStep, Tables
<1>5. Len(invites) <= Len(invites') /\ \E b \in Actors : End(b)
  BY CommitStep, Tables
<1> QED  BY <1>1, <1>2, <1>3, <1>4, <1>5, CommitStep, Tables, TypedCommit

\* The steps that commit nothing.
LEMMA TypedQuiet ==
    ASSUME Typed, NEW a \in Actors,
           \/ ReadRequest(a) \/ Approve(a) \/ CreateInvite(a) \/ ChooseSlug(a) \/ Flush(a)
           \/ SendMail(a) \/ ReadInvite(a) \/ ReadUser(a) \/ Fails(a)
    PROVE  Typed'
<1>0. Knows(a) /\ mem[a] \in Memory
  BY Tables DEF Typed
<1>1. CASE ReadRequest(a)
  <2>1. PICK q \in 1..Len(asked), m \in Memory :
          /\ pc' = [pc EXCEPT ![a] = "deciding"] /\ mem' = [mem EXCEPT ![a] = m]
          /\ m.asked = q /\ m.email \in Emails /\ m.role \in Asker /\ m.org = 0
          /\ raced' = IF \E b \in Actors : mem[b].asked = q THEN raced \cup {q} ELSE raced
          /\ UNCHANGED <<db, mailed>>
    BY <1>1, ReadRequestStep
  <2>2. pc'[a] = "deciding" /\ mem'[a] = m
    BY <2>1, Tables
  <2>3. Knows(a)'
    BY <2>1, <2>2, Tables DEF Knows, db
  <2>4. raced' \subseteq 1..MaxAsked
    BY <2>1, Tables, Limits
  <2> QED  BY <2>1, <2>3, <2>4, TypedMove DEF States
<1>2. CASE Approve(a)
  <2>1. /\ pc[a] = "deciding" /\ pc' = [pc EXCEPT ![a] = "inviting"] /\ mem' = [mem EXCEPT ![a] = mem[a]]
        /\ UNCHANGED <<db, mailed, raced, mem>>
    BY <1>2, Tables DEF Approve, Go
  <2>2. pc'[a] = "inviting"
    BY <2>1, Tables
  <2>3. Knows(a)'
    BY <1>0, <2>1, <2>2 DEF Knows, db
  <2> QED  BY <1>0, <2>1, <2>3, Tables, TypedMove DEF States
<1>3. CASE CreateInvite(a)
  <2>1. PICK m \in Memory :
          /\ pc' = [pc EXCEPT ![a] = "inviting"] /\ mem' = [mem EXCEPT ![a] = m]
          /\ m.asked = 0 /\ m.email \in Emails /\ m.role \in Asker /\ m.org \in 0..Len(slugs)
          /\ UNCHANGED <<db, mailed, raced>>
    BY <1>3, CreateInviteStep
  <2>2. pc'[a] = "inviting" /\ mem'[a] = m
    BY <2>1, Tables
  <2>3. Knows(a)'
    BY <2>1, <2>2, Tables DEF Knows, db
  <2> QED  BY <2>1, <2>3, Tables, TypedMove DEF States
<1>4. CASE ChooseSlug(a)
  <2>1. PICK m \in Memory :
          /\ pc[a] = "inviting" /\ pc' = [pc EXCEPT ![a] = "chosen"] /\ mem' = [mem EXCEPT ![a] = m]
          /\ m.asked = mem[a].asked /\ m.email = mem[a].email /\ m.role = mem[a].role
          /\ m.org = mem[a].org /\ (m.slug = <<>> <=> m.org # 0)
          /\ UNCHANGED <<db, mailed, raced>>
    BY <1>4, ChooseSlugStep
  <2>2. pc'[a] = "chosen" /\ mem'[a] = m
    BY <2>1, Tables
  <2>3. Knows(a)'
    BY <1>0, <2>1, <2>2, Tables DEF Knows, db
  <2> QED  BY <2>1, <2>3, Tables, TypedMove DEF States
<1>5. CASE Flush(a)
  <2>1. CASE End(a)
    <3>1. UNCHANGED <<db, mailed, raced>>
      BY <1>5 DEF Flush
    <3>2. Knows(a)'
      BY <2>1, <3>1, Ended, NoMemIsMemory, Tables DEF Knows, db
    <3> QED  BY <2>1, <3>1, <3>2, Ended, NoMemIsMemory, Tables, TypedMove DEF States
  <2>2. CASE ~ End(a)
    <3>1. /\ pc[a] = "chosen" /\ pc' = [pc EXCEPT ![a] = "flushed"] /\ mem' = [mem EXCEPT ![a] = mem[a]]
          /\ UNCHANGED <<db, mailed, raced, mem>>
      BY <1>5, <2>2, Tables DEF Flush, Go
    <3>2. pc'[a] = "flushed"
      BY <3>1, Tables
    <3>3. Knows(a)'
      BY <1>0, <3>1, <3>2 DEF Knows, db
    <3> QED  BY <1>0, <3>1, <3>3, Tables, TypedMove DEF States
  <2> QED  BY <2>1, <2>2
<1>6. CASE SendMail(a)
  <2>1. PICK m \in Memory :
          /\ pc[a] = "flushed" /\ pc' = [pc EXCEPT ![a] = "mailed"] /\ mem' = [mem EXCEPT ![a] = m]
          /\ m.sent /\ m.asked = mem[a].asked /\ m.email = mem[a].email /\ m.role = mem[a].role
          /\ m.org = mem[a].org /\ m.slug = mem[a].slug
          /\ UNCHANGED <<db, mailed, raced>>
    BY <1>6, SendMailStep
  <2>2. pc'[a] = "mailed" /\ mem'[a] = m
    BY <2>1, Tables
  <2>3. Knows(a)'
    BY <1>0, <2>1, <2>2, Tables DEF Knows, db
  <2> QED  BY <2>1, <2>3, Tables, TypedMove DEF States
<1>7. CASE ReadInvite(a)
  <2>1. PICK i \in 1..Len(invites), m \in Memory :
          /\ pc' = [pc EXCEPT ![a] = "accepting"] /\ mem' = [mem EXCEPT ![a] = m]
          /\ m.asked = 0 /\ m.invite = i /\ m.email = invites[i].email
          /\ UNCHANGED <<db, mailed, raced>>
    BY <1>7, ReadInviteStep
  <2>2. pc'[a] = "accepting" /\ mem'[a] = m
    BY <2>1, Tables
  <2>3. Knows(a)'
    BY <2>1, <2>2, Tables DEF Knows, db
  <2> QED  BY <2>1, <2>3, Tables, TypedMove DEF States
<1>8. CASE ReadUser(a)
  <2>1. PICK m \in Memory :
          /\ pc[a] = "accepting" /\ pc' = [pc EXCEPT ![a] = "known"] /\ mem' = [mem EXCEPT ![a] = m]
          /\ m.asked = mem[a].asked /\ m.invite = mem[a].invite /\ m.email = mem[a].email
          /\ UNCHANGED <<db, mailed, raced>>
    BY <1>8, ReadUserStep
  <2>2. pc'[a] = "known" /\ mem'[a] = m
    BY <2>1, Tables
  <2>3. Knows(a)'
    BY <1>0, <2>1, <2>2, Tables DEF Knows, db
  <2> QED  BY <2>1, <2>3, Tables, TypedMove DEF States
<1>9. CASE Fails(a)
  <2>1. End(a) /\ UNCHANGED <<db, mailed, raced>>
    BY <1>9 DEF Fails
  <2>2. Knows(a)'
    BY <2>1, Ended, NoMemIsMemory, Tables DEF Knows, db
  <2> QED  BY <2>1, <2>2, Ended, NoMemIsMemory, Tables, TypedMove DEF States
<1> QED  BY <1>1, <1>2, <1>3, <1>4, <1>5, <1>6, <1>7, <1>8, <1>9

LEMMA TypedInit == ASSUME Init  PROVE Typed
<1>1. /\ users \subseteq Emails /\ members = {} /\ slugs = <<>> /\ invites = <<>> /\ asked = <<>>
      /\ pc = [a \in Actors |-> "idle"] /\ mem = [a \in Actors |-> NoMem]
      /\ mailed = {} /\ raced = {}
  BY DEF Init
<1>2. TypeOK /\ slugs \in Seq(Slugs) /\ Len(invites) = 0 /\ Len(asked) = 0
  BY <1>1 DEF TypeOK
<1>3. mem \in [Actors -> Memory] /\ \A a \in Actors : Knows(a)
  BY <1>1, <1>2, NoMemIsMemory DEF Knows
<1> QED  BY <1>2, <1>3, Limits DEF Typed

LEMMA TypedNext == ASSUME Typed, [Next]_vars  PROVE Typed'
<1>1. CASE UNCHANGED vars
  BY <1>1 DEF vars, db, Typed, TypeOK, Knows
<1>2. CASE Next
  BY <1>2, TypedAsked, TypedExpires, TypedReject, TypedCommitInvite, TypedAccept, TypedQuiet DEF Next
<1> QED  BY <1>1, <1>2

\* Tables, states and what each request has read keep their types; a request
\* that is mailing an invitation has its organization or a slug for a new one.
THEOREM TypeCorrect == Spec => []Typed
<1>1. Init => Typed
  BY TypedInit
<1>2. Typed /\ [Next]_vars => Typed'
  BY TypedNext
<1> QED  BY <1>1, <1>2, PTL DEF Spec
-----------------------------------------------------------------------------
\* An access request nobody raced for is pending while one request of the API,
\* and no other, has it in hand.
Alone(a, q) == asked[q].status = "pending" /\ \A b \in Actors : mem[b].asked = q => b = a

Answered(q) ==
    /\ asked[q].status = "pending" => For(q) = {}
    /\ asked[q].status = "approved" => For(q) # {}
    /\ q \notin raced => /\ asked[q].status = "rejected" => For(q) = {}
                         /\ \A i, j \in For(q) : i = j

Decided ==
    /\ \A q \in 1..Len(asked) : Answered(q)
    /\ \A a \in Actors : mem[a].asked # 0 /\ mem[a].asked \notin raced => Alone(a, mem[a].asked)

\* What is committed was mailed, and an organization has its first invitation.
Sent ==
    /\ mailed = 1..Len(invites)
    /\ \A o \in 1..Len(slugs) : \E i \in 1..Len(invites) : invites[i].org = o

\* A membership has the invitation it comes from, an invitation that was used
\* has its membership, and a request that saw a membership still would.
From(row, i) ==
    /\ invites[i].status = "used" /\ invites[i].email = row.email
    /\ invites[i].org = row.org /\ invites[i].role = row.role

Accepted ==
    /\ \A row \in members : row.email \in users /\ \E i \in 1..Len(invites) : From(row, i)
    /\ \A row, other \in members : row.email = other.email /\ row.org = other.org => row = other
    /\ \A i \in 1..Len(invites) :
        invites[i].status = "used" => IsMember(invites[i].email, invites[i].org)
    /\ \A a \in Actors : pc[a] = "known" /\ mem[a].member =>
                            IsMember(mem[a].email, invites[mem[a].invite].org)
-----------------------------------------------------------------------------
QuietStep(a) ==
    \/ ReadRequest(a) \/ Approve(a) \/ CreateInvite(a) \/ ChooseSlug(a) \/ Flush(a)
    \/ SendMail(a) \/ ReadInvite(a) \/ ReadUser(a) \/ Fails(a)

LEMMA QuietKeeps ==
    ASSUME NEW a \in Actors, QuietStep(a)
    PROVE  UNCHANGED <<db, mailed>>
BY DEF QuietStep, ReadRequest, Approve, CreateInvite, ChooseSlug, Flush, SendMail, ReadInvite, ReadUser, Fails

\* An invitation that expires, or is accepted, is only marked so.
LEMMA Marked ==
    ASSUME Typed, NEW i \in 1..Len(invites), NEW status \in {"used", "expired"},
           invites' = SetInvite(invites, i, status)
    PROVE  /\ Len(invites') = Len(invites) /\ DOMAIN invites' = 1..Len(invites)
           /\ \A j \in 1..Len(invites) :
                 /\ invites'[j].email = invites[j].email /\ invites'[j].org = invites[j].org
                 /\ invites'[j].role = invites[j].role /\ invites'[j].asked = invites[j].asked
                 /\ invites'[j].status = IF j = i THEN status ELSE invites[j].status
<1>0. status \in {"live", "used", "expired"} /\ invites \in Seq(Invite)
  BY Tables
<1>1. invites' \in Seq(Invite) /\ Len(invites') = Len(invites)
  BY <1>0, InviteSet
<1>2. DOMAIN invites' = 1..Len(invites)
  BY <1>1
<1> QED  BY <1>0, <1>1, <1>2, InviteSet

LEMMA SentMarked ==
    ASSUME Typed, Sent, NEW i \in 1..Len(invites), NEW status \in {"used", "expired"},
           invites' = SetInvite(invites, i, status), UNCHANGED <<slugs, mailed>>
    PROVE  Sent'
<1>1. Len(invites') = Len(invites) /\ \A j \in 1..Len(invites) : invites'[j].org = invites[j].org
  BY Marked
<1> QED  BY <1>1 DEF Sent

LEMMA SentNext == ASSUME Typed, Sent, [Next]_vars  PROVE Sent'
<1>1. CASE UNCHANGED <<invites, slugs, mailed>>
  BY <1>1 DEF Sent
<1>2. CASE Expires
  <2>1. PICK i \in 1..Len(invites) : invites' = SetInvite(invites, i, "expired")
    BY <1>2, Tables DEF Expires, SetInvite
  <2> QED  BY <1>2, <2>1, SentMarked DEF Expires
<1>3. ASSUME NEW a \in Actors, accept_invite(a)  PROVE Sent'
  <2>1. PICK i \in 1..Len(invites) : invites' = SetInvite(invites, i, "used") /\ UNCHANGED <<slugs, mailed>>
    BY <1>3, AcceptStep
  <2> QED  BY <2>1, SentMarked
<1>4. ASSUME NEW a \in Actors, CommitInvite(a)  PROVE Sent'
  <2>1. mailed' = 1..Len(invites')
    <3>1. mailed = 1..Len(invites) /\ mailed' = mailed \cup {Len(invites')}
      BY <1>4, CommitStep DEF Sent
    <3>2. Len(invites') = Len(invites) + 1 /\ Len(invites) \in Nat
      BY <1>4, CommitStep, Tables
    <3> QED  BY <3>1, <3>2
  <2>2. ASSUME NEW o \in 1..Len(slugs')  PROVE \E i \in 1..Len(invites') : invites'[i].org = o
    <3>1. CASE o \in 1..Len(slugs)
      <4>1. PICK i \in 1..Len(invites) : invites[i].org = o
        BY <3>1 DEF Sent
      <4> QED  BY <1>4, <4>1, CommitStep, Tables
    <3>2. CASE o \notin 1..Len(slugs)
      <4>1. invites'[Len(invites')].org = o
        BY <1>4, <3>2, CommitStep, Tables
      <4> QED  BY <1>4, <4>1, CommitStep, Tables
    <3> QED  BY <3>1, <3>2
  <2> QED  BY <2>1, <2>2 DEF Sent
<1>5. ASSUME NEW a \in Actors, QuietStep(a) \/ Reject(a)  PROVE UNCHANGED <<invites, slugs, mailed>>
  BY <1>5, QuietKeeps DEF db, Reject
<1>6. create_access_request \/ UNCHANGED vars => UNCHANGED <<invites, slugs, mailed>>
  BY DEF create_access_request, vars, db
<1> QED  BY <1>1, <1>2, <1>3, <1>4, <1>5, <1>6 DEF Next, QuietStep

\* Every invitation there is was mailed, and every organization made for an
\* invitation was made with it (issue_invite raises before it commits).
THEOREM WhatIsCommittedIsSent == Spec => []InvitesAreSent
<1>1. Init => Typed /\ Sent
  <2>1. Init => Len(invites) = 0 /\ Len(slugs) = 0 /\ mailed = {}
    BY DEF Init
  <2> QED  BY <2>1, TypedInit DEF Sent
<1>2. Typed /\ Sent /\ [Next]_vars => (Typed /\ Sent)'
  BY TypedNext, SentNext
<1>3. Typed /\ Sent => InvitesAreSent
  <2> SUFFICES ASSUME Typed, Sent  PROVE InvitesAreSent
    OBVIOUS
  <2>1. DOMAIN invites = 1..Len(invites) /\ DOMAIN slugs = 1..Len(slugs)
    BY Tables
  <2>2. \A i \in 1..Len(invites) : invites[i].org \in 1..Len(slugs)
    BY Tables
  <2>3. {invites[i].org : i \in 1..Len(invites)} = 1..Len(slugs)
    BY <2>2 DEF Sent
  <2> QED  BY <2>1, <2>3 DEF Sent, InvitesAreSent
<1> QED  BY <1>1, <1>2, <1>3, PTL DEF Spec
-----------------------------------------------------------------------------
\* A step that leaves the memberships and who was invited as they are.
LEMMA AcceptedKept ==
    ASSUME Typed, Accepted, UNCHANGED <<users, members>>,
           Len(invites) <= Len(invites'), Len(invites') \in Nat,
           \A i \in 1..Len(invites) : \A row \in members : From(row, i) => From(row, i)',
           \A i \in 1..Len(invites') : invites'[i].status = "used" =>
               /\ i \in 1..Len(invites) /\ invites[i].status = "used"
               /\ invites'[i].email = invites[i].email /\ invites'[i].org = invites[i].org,
           \A a \in Actors : pc'[a] = "known" /\ mem'[a].member =>
               IsMember(mem'[a].email, invites'[mem'[a].invite].org)
    PROVE  Accepted'
<1>1. \A e, o : IsMember(e, o)' <=> IsMember(e, o)
  BY DEF IsMember
<1>2. ASSUME NEW row \in members
      PROVE  row.email \in users /\ \E i \in 1..Len(invites') : From(row, i)'
  <2>1. row.email \in users /\ \E i \in 1..Len(invites) : From(row, i)
    BY DEF Accepted
  <2> QED  BY <2>1, Tables
<1>3. \A i \in 1..Len(invites') : invites'[i].status = "used" =>
          IsMember(invites'[i].email, invites'[i].org)
  BY DEF Accepted
<1>4. \A row, other \in members : row.email = other.email /\ row.org = other.org => row = other
  BY DEF Accepted
<1> QED  BY <1>1, <1>2, <1>3, <1>4 DEF Accepted

\* A request that goes on is the only one that does, and only one that has
\* read the user becomes one that knows.
LEMMA QuietMoves ==
    ASSUME Typed, NEW a \in Actors, QuietStep(a)
    PROVE  /\ \A b \in Actors : b # a => pc'[b] = pc[b] /\ mem'[b] = mem[b]
           /\ pc'[a] = "known" => ReadUser(a)
<1>1. CASE ReadUser(a)
  BY <1>1, ReadUserStep, Tables
<1>2. CASE Fails(a) \/ (Flush(a) /\ End(a))
  BY <1>2, Ended DEF Fails
<1>3. CASE Approve(a) \/ (Flush(a) /\ ~ End(a))
  BY <1>3, Tables DEF Approve, Flush, Go
<1>4. CASE ReadRequest(a)
  BY <1>4, ReadRequestStep, Tables
<1>5. CASE CreateInvite(a)
  BY <1>5, CreateInviteStep, Tables
<1>6. CASE ChooseSlug(a)
  BY <1>6, ChooseSlugStep, Tables
<1>7. CASE SendMail(a)
  BY <1>7, SendMailStep, Tables
<1>8. CASE ReadInvite(a)
  BY <1>8, ReadInviteStep, Tables
<1> QED  BY <1>1, <1>2, <1>3, <1>4, <1>5, <1>6, <1>7, <1>8 DEF QuietStep

Sees(b) == pc[b] = "known" /\ mem[b].member => IsMember(mem[b].email, invites[mem[b].invite].org)

\* What a request has seen is still there when the tables only grow.
LEMMA StillSees ==
    ASSUME Typed, NEW b \in Actors, Sees(b), pc'[b] = pc[b], mem'[b] = mem[b], members \subseteq members',
           \A i \in 1..Len(invites) : invites'[i].org = invites[i].org
    PROVE  Sees(b)'
<1>1. pc[b] = "known" => mem[b].invite \in 1..Len(invites)
  BY DEF Typed, Knows
<1> QED  BY <1>1 DEF Sees, IsMember

LEMMA QuietSees ==
    ASSUME Typed, NEW a \in Actors, QuietStep(a), \A b \in Actors : Sees(b)
    PROVE  \A b \in Actors : Sees(b)'
<1>1. ASSUME NEW b \in Actors, b # a  PROVE Sees(b)'
  BY <1>1, QuietMoves, QuietKeeps, StillSees DEF db
<1>2. CASE ReadUser(a)
  <2>1. PICK m \in Memory :
          /\ pc' = [pc EXCEPT ![a] = "known"] /\ mem' = [mem EXCEPT ![a] = m]
          /\ m.invite = mem[a].invite /\ m.email = mem[a].email
          /\ m.member <=> IsMember(mem[a].email, invites[mem[a].invite].org)
          /\ UNCHANGED <<db, mailed, raced>>
    BY <1>2, ReadUserStep
  <2>2. mem'[a] = m
    BY <2>1, Tables
  <2> QED  BY <1>1, <2>1, <2>2 DEF Sees, IsMember, db
<1>3. CASE ~ ReadUser(a)
  BY <1>1, <1>3, QuietMoves DEF Sees
<1> QED  BY <1>2, <1>3

LEMMA EndSees ==
    ASSUME Typed, NEW a \in Actors, End(a), \A b \in Actors : Sees(b), members \subseteq members',
           \A i \in 1..Len(invites) : invites'[i].org = invites[i].org
    PROVE  \A b \in Actors : Sees(b)'
<1>1. ASSUME NEW b \in Actors, b # a  PROVE Sees(b)'
  BY <1>1, Ended, StillSees
<1>2. Sees(a)'
  BY Ended DEF Sees
<1> QED  BY <1>1, <1>2

LEMMA AcceptedSees == ASSUME Accepted  PROVE \A b \in Actors : Sees(b)
BY DEF Accepted, Sees

\* The request that accepts adds the row of its invitation or finds it there.
LEMMA AcceptedAccept ==
    ASSUME Typed, Accepted, NEW a \in Actors, accept_invite(a)
    PROVE  Accepted'
<1>1. PICK i \in 1..Len(invites) :
         /\ pc[a] = "known" /\ i = mem[a].invite
         /\ users' = users \cup {invites[i].email}
         /\ mem[a].member \/ ~ IsMember(invites[i].email, invites[i].org)
         /\ members' = IF mem[a].member THEN members ELSE members \cup {RowOf(invites[i])}
         /\ invites' = SetInvite(invites, i, "used")
         /\ End(a) /\ UNCHANGED <<slugs, asked, mailed, raced>>
  BY AcceptStep
<1>2. /\ Len(invites') = Len(invites)
      /\ \A j \in 1..Len(invites) :
            /\ invites'[j].email = invites[j].email /\ invites'[j].org = invites[j].org
            /\ invites'[j].role = invites[j].role
            /\ invites'[j].status = IF j = i THEN "used" ELSE invites[j].status
  BY <1>1, Marked
<1>3. /\ RowOf(invites[i]).email = invites[i].email /\ RowOf(invites[i]).org = invites[i].org
      /\ RowOf(invites[i]).role = invites[i].role
  BY RowsAreMemberships
<1>4. members \subseteq members'
  BY <1>1
<1>5. ASSUME NEW row \in members'
      PROVE  row.email \in users' /\ \E j \in 1..Len(invites') : From(row, j)'
  <2>1. CASE row \in members
    <3>1. PICK j \in 1..Len(invites) : From(row, j)
      BY <2>1 DEF Accepted
    <3>2. From(row, j)'
      BY <1>2, <3>1 DEF From
    <3> QED  BY <1>1, <1>2, <2>1, <3>2 DEF Accepted
  <2>2. CASE row = RowOf(invites[i])
    <3>1. From(row, i)'
      BY <1>2, <1>3, <2>2 DEF From
    <3>2. i \in 1..Len(invites') /\ row.email \in users'
      BY <1>1, <1>2, <1>3, <2>2
    <3> QED  BY <3>1, <3>2
  <2> QED  BY <1>1, <2>1, <2>2
<1>6. ASSUME NEW row \in members', NEW other \in members', row.email = other.email, row.org = other.org
      PROVE  row = other
  <2>1. CASE row \in members /\ other \in members
    BY <1>6, <2>1 DEF Accepted
  <2>2. CASE ~ (row \in members /\ other \in members)
    <3>1. ~ mem[a].member /\ members' = members \cup {RowOf(invites[i])}
      BY <1>1, <2>2
    <3>2. ~ \E known \in members : known.email = invites[i].email /\ known.org = invites[i].org
      BY <1>1, <3>1 DEF IsMember
    <3> QED  BY <1>3, <1>6, <2>2, <3>1, <3>2
  <2> QED  BY <2>1, <2>2
<1>7. IsMember(invites[i].email, invites[i].org)'
  <2>1. CASE mem[a].member
    <3>1. IsMember(mem[a].email, invites[mem[a].invite].org) /\ mem[a].email = invites[i].email
      BY <1>1, <2>1 DEF Accepted, Typed, Knows
    <3> QED  BY <1>1, <1>2, <1>4, <3>1 DEF IsMember
  <2>2. CASE ~ mem[a].member
    BY <1>1, <1>2, <1>3, <2>2 DEF IsMember
  <2> QED  BY <2>1, <2>2
<1>8. ASSUME NEW j \in 1..Len(invites'), invites'[j].status = "used"
      PROVE  IsMember(invites[j].email, invites[j].org)'
  <2>1. CASE j = i
    BY <1>7, <2>1
  <2>2. CASE j # i
    <3>1. IsMember(invites[j].email, invites[j].org)
      BY <1>2, <1>8, <2>2 DEF Accepted
    <3> QED  BY <1>2, <1>4, <3>1 DEF IsMember
  <2> QED  BY <2>1, <2>2
<1>9. \A b \in Actors : Sees(b)'
  BY <1>1, <1>2, <1>4, AcceptedSees, EndSees
<1> QED  BY <1>5, <1>6, <1>8, <1>9 DEF Accepted, Sees

LEMMA AcceptedNext == ASSUME Typed, Accepted, [Next]_vars  PROVE Accepted'
<1>0. /\ \A b \in Actors : Sees(b)
      /\ Len(invites) \in Nat
  BY AcceptedSees, Tables
<1>1. ASSUME UNCHANGED <<users, members, invites>>, \A b \in Actors : Sees(b)'
      PROVE  Accepted'
  BY <1>1 DEF Accepted, Sees, From, IsMember
<1>2. ASSUME NEW a \in Actors, QuietStep(a)  PROVE Accepted'
  BY <1>0, <1>1, <1>2, QuietKeeps, QuietSees DEF db
<1>3. ASSUME NEW a \in Actors, Reject(a)  PROVE Accepted'
  BY <1>0, <1>1, <1>3, EndSees DEF Reject
<1>4. CASE create_access_request \/ UNCHANGED vars
  <2>1. UNCHANGED <<users, members, invites, pc, mem>>
    BY <1>4 DEF create_access_request, vars, db
  <2> QED  BY <1>0, <1>1, <2>1 DEF Sees, IsMember
<1>5. CASE Expires
  <2>1. PICK i \in 1..Len(invites) :
          invites[i].status = "live" /\ invites' = SetInvite(invites, i, "expired")
    BY <1>5, Tables DEF Expires, SetInvite
  <2>2. UNCHANGED <<users, members, pc, mem>>
    BY <1>5 DEF Expires
  <2>3. /\ Len(invites') = Len(invites)
        /\ \A j \in 1..Len(invites) :
              /\ invites'[j].email = invites[j].email /\ invites'[j].org = invites[j].org
              /\ invites'[j].role = invites[j].role
              /\ invites'[j].status = IF j = i THEN "expired" ELSE invites[j].status
    BY <2>1, Marked
  <2>4. \A j \in 1..Len(invites) : \A row \in members : From(row, j) => From(row, j)'
    BY <2>1, <2>3 DEF From
  <2>5. \A b \in Actors : Sees(b)'
    BY <1>0, <2>2, <2>3, StillSees
  <2> QED  BY <1>0, <2>2, <2>3, <2>4, <2>5, AcceptedKept DEF Sees, IsMember
<1>6. ASSUME NEW a \in Actors, CommitInvite(a)  PROVE Accepted'
  <2>1. \A j \in 1..Len(invites) : \A row \in members : From(row, j) => From(row, j)'
    BY <1>6, CommitStep DEF From
  <2>2. \A b \in Actors : Sees(b)'
    BY <1>0, <1>6, CommitStep, EndSees
  <2>3. UNCHANGED <<users, members>>
    BY <1>6, CommitStep
  <2>4. \A j \in 1..Len(invites') : j \in 1..Len(invites) \/ j = Len(invites')
    BY <1>0, <1>6, CommitStep
  <2>5. \A j \in 1..Len(invites') : invites'[j].status = "used" =>
            /\ j \in 1..Len(invites) /\ invites[j].status = "used"
            /\ invites'[j].email = invites[j].email /\ invites'[j].org = invites[j].org
    BY <1>6, <2>4, CommitStep
  <2> QED  BY <1>0, <1>6, <2>1, <2>2, <2>3, <2>5, CommitStep, AcceptedKept DEF Sees, IsMember
<1> QED  BY <1>2, <1>3, <1>4, <1>5, <1>6, AcceptedAccept DEF Next, QuietStep

LEMMA AtMostOne ==
    ASSUME NEW S, \A x, y \in S : x = y
    PROVE  Cardinality(S) <= 1
<1>1. CASE S = {}
  BY <1>1, FS_EmptySet
<1>2. CASE S # {}
  <2>1. PICK x : S = {x}
    BY <1>2
  <2> QED  BY <2>1, FS_Singleton
<1> QED  BY <1>1, <1>2

\* A used invitation made its address a member of its organization, once and in
\* an invited role, and there is no other way to become one (accept_invite).
THEOREM NobodyJoinsUninvited == Spec => []MembershipsAreInvites
<1>1. Init => Typed /\ Accepted
  <2>1. Init => /\ members = {} /\ Len(invites) = 0
                /\ \A a \in Actors : pc[a] = "idle"
    BY DEF Init
  <2> QED  BY <2>1, TypedInit DEF Accepted
<1>2. Typed /\ Accepted /\ [Next]_vars => (Typed /\ Accepted)'
  BY TypedNext, AcceptedNext
<1>3. Typed /\ Accepted => MembershipsAreInvites
  <2> SUFFICES ASSUME Typed, Accepted, NEW e \in Emails, NEW o \in DOMAIN slugs
               PROVE  LET Of == {row \in members : row.email = e /\ row.org = o} IN
                      /\ Cardinality(Of) <= 1
                      /\ Of = {} <=> Used(e, o) = {}
                      /\ \A row \in Of : e \in users /\ \E i \in Used(e, o) : invites[i].role = row.role
    BY DEF MembershipsAreInvites
  <2> DEFINE Of == {row \in members : row.email = e /\ row.org = o}
  <2>1. Cardinality(Of) <= 1
    <3>1. \A x, y \in Of : x = y
      BY DEF Accepted
    <3> QED  BY <3>1, AtMostOne
  <2>2. ASSUME NEW row \in Of
        PROVE  e \in users /\ \E i \in Used(e, o) : invites[i].role = row.role
    <3>1. row \in members /\ row.email = e /\ row.org = o
      OBVIOUS
    <3>2. e \in users
      BY <3>1 DEF Accepted
    <3>3. PICK i \in 1..Len(invites) : From(row, i)
      BY <3>1 DEF Accepted
    <3>4. i \in Used(e, o) /\ invites[i].role = row.role
      <4>1. DOMAIN invites = 1..Len(invites)
        BY Tables
      <4> QED  BY <3>1, <3>3, <4>1 DEF From, Used
    <3> QED  BY <3>2, <3>4
  <2>3. ASSUME NEW i \in Used(e, o)  PROVE Of # {}
    <3>1. i \in 1..Len(invites) /\ invites[i].status = "used" /\ invites[i].email = e /\ invites[i].org = o
      <4>1. DOMAIN invites = 1..Len(invites)
        BY Tables
      <4> QED  BY <4>1 DEF Used
    <3>2. IsMember(invites[i].email, invites[i].org)
      BY <3>1 DEF Accepted
    <3> QED  BY <3>1, <3>2 DEF IsMember
  <2> QED  BY <2>1, <2>2, <2>3
<1> QED  BY <1>1, <1>2, <1>3, PTL DEF Spec
-----------------------------------------------------------------------------
LEMMA HeldIsAsked ==
    ASSUME Typed, NEW a \in Actors
    PROVE  mem[a].asked \in 0..Len(asked) /\ (pc[a] = "idle" => mem[a].asked = 0)
BY NoMemIsMemory DEF Typed, Knows

\* A request that goes on keeps the access request it has, or leaves it.
LEMMA QuietHolds ==
    ASSUME Typed, NEW a \in Actors, QuietStep(a), ~ ReadRequest(a)
    PROVE  mem'[a].asked \in {mem[a].asked, 0} /\ raced' = raced
<1>1. CASE ReadUser(a)
  BY <1>1, ReadUserStep, Tables
<1>2. CASE Fails(a) \/ (Flush(a) /\ End(a))
  BY <1>2, Ended, NoMemIsMemory DEF Fails, Flush
<1>3. CASE Approve(a) \/ (Flush(a) /\ ~ End(a))
  BY <1>3, Tables DEF Approve, Flush, Go
<1>5. CASE CreateInvite(a)
  BY <1>5, CreateInviteStep, Tables
<1>6. CASE ChooseSlug(a)
  BY <1>6, ChooseSlugStep, Tables
<1>7. CASE SendMail(a)
  BY <1>7, SendMailStep, Tables
<1>8. CASE ReadInvite(a)
  BY <1>8, ReadInviteStep, Tables
<1> QED  BY <1>1, <1>2, <1>3, <1>5, <1>6, <1>7, <1>8 DEF QuietStep

\* A step that leaves rows and invitations alone, and only lets go of requests.
LEMMA DecidedKept ==
    ASSUME Typed, Decided, UNCHANGED <<asked, raced>>, DOMAIN invites' = DOMAIN invites,
           \A i \in DOMAIN invites : invites'[i].asked = invites[i].asked,
           \A b \in Actors : mem'[b].asked \in {mem[b].asked, 0}
    PROVE  Decided'
<1>1. \A q : For(q)' = For(q)
  BY DEF For
<1>2. \A q \in 1..Len(asked) : Answered(q)'
  BY <1>1 DEF Decided, Answered
<1>3. ASSUME NEW b \in Actors, mem'[b].asked # 0, mem'[b].asked \notin raced
      PROVE  Alone(b, mem[b].asked)'
  <2>1. mem'[b].asked = mem[b].asked /\ Alone(b, mem[b].asked)
    BY <1>3 DEF Decided
  <2> QED  BY <1>3, <2>1 DEF Alone
<1> QED  BY <1>2, <1>3 DEF Decided

LEMMA DecidedRead ==
    ASSUME Typed, Decided, NEW a \in Actors, ReadRequest(a)
    PROVE  Decided'
<1>1. PICK q \in 1..Len(asked), m \in Memory :
         /\ asked[q].status = "pending" /\ pc[a] = "idle"
         /\ mem' = [mem EXCEPT ![a] = m] /\ m.asked = q
         /\ raced' = IF \E b \in Actors : mem[b].asked = q THEN raced \cup {q} ELSE raced
         /\ UNCHANGED <<db, mailed>>
  BY ReadRequestStep
<1>2. mem'[a] = m /\ \A b \in Actors : b # a => mem'[b] = mem[b]
  BY <1>1, Tables
<1>3. \A r : For(r)' = For(r)
  BY <1>1 DEF For, db
<1>4. \A r \in 1..Len(asked) : Answered(r)'
  BY <1>1, <1>3 DEF Decided, Answered, db
<1>5. ASSUME NEW b \in Actors, mem'[b].asked # 0, mem'[b].asked \notin raced'
      PROVE  Alone(b, mem[b].asked)'
  <2>1. CASE b = a
    <3>1. mem'[b].asked = q /\ \A c \in Actors : mem[c].asked # q
      BY <1>1, <1>2, <1>5, <2>1
    <3> QED  BY <1>1, <1>2, <2>1, <3>1 DEF Alone, db
  <2>2. CASE b # a
    <3>1. mem'[b].asked = mem[b].asked /\ mem[b].asked \notin raced /\ mem[b].asked # 0
      BY <1>1, <1>2, <1>5, <2>2
    <3>2. Alone(b, mem[b].asked)
      BY <3>1 DEF Decided
    <3>3. mem[b].asked # q
      BY <1>1, <1>5, <3>1
    <3> QED  BY <1>1, <1>2, <3>1, <3>2, <3>3 DEF Alone, db
  <2> QED  BY <2>1, <2>2
<1> QED  BY <1>1, <1>4, <1>5 DEF Decided, db

LEMMA DecidedAsked ==
    ASSUME Typed, Decided, create_access_request
    PROVE  Decided'
<1>1. PICK e \in Allowed : asked' = Append(asked, [email |-> e, status |-> "pending"])
  BY DEF create_access_request
<1> DEFINE row == [email |-> e, status |-> "pending"]
<1>2. row \in AccessRequest /\ row.status = "pending"
  BY Limits DEF AccessRequest
<1> HIDE DEF row
<1>3. /\ Len(asked') = Len(asked) + 1 /\ Len(asked) \in Nat
      /\ \A q \in 1..Len(asked) : asked'[q] = asked[q]
      /\ asked'[Len(asked) + 1] = row
  <2>1. asked' = Append(asked, row)
    BY <1>1 DEF row
  <2> QED  BY <1>2, <2>1, Tables
<1>4. UNCHANGED <<invites, raced, mem>>
  BY DEF create_access_request
<1>5. \A q : For(q)' = For(q)
  BY <1>4 DEF For
<1>6. ASSUME NEW q \in 1..Len(asked')  PROVE Answered(q)'
  <2>1. CASE q \in 1..Len(asked)
    BY <1>3, <1>4, <1>5, <2>1 DEF Decided, Answered
  <2>2. CASE q = Len(asked) + 1
    <3>1. For(q) = {}
      BY <1>3, <2>2, Tables DEF For
    <3> QED  BY <1>2, <1>3, <1>5, <2>2, <3>1 DEF Answered
  <2> QED  BY <1>3, <2>1, <2>2
<1>7. ASSUME NEW b \in Actors, mem'[b].asked # 0, mem'[b].asked \notin raced'
      PROVE  Alone(b, mem[b].asked)'
  <2>1. mem[b].asked \in 1..Len(asked) /\ Alone(b, mem[b].asked)
    BY <1>3, <1>4, <1>7, HeldIsAsked DEF Decided
  <2> QED  BY <1>3, <1>4, <2>1 DEF Alone
<1> QED  BY <1>6, <1>7 DEF Decided

\* Who decides an access request lets go of it; who shares it has raced.
LEMMA DecidedElsewhere ==
    ASSUME Typed, Decided, NEW a \in Actors, End(a), raced' = raced, asked' \in Seq(AccessRequest),
           \A r \in 1..Len(asked) : r # mem[a].asked => asked'[r] = asked[r]
    PROVE  \A b \in Actors : mem'[b].asked # 0 /\ mem'[b].asked \notin raced'
                              => Alone(b, mem[b].asked)'
<1> SUFFICES ASSUME NEW b \in Actors, mem'[b].asked # 0, mem'[b].asked \notin raced'
             PROVE  Alone(b, mem[b].asked)'
  OBVIOUS
<1>1. b # a /\ mem'[b] = mem[b] /\ mem'[a].asked = 0
  BY Ended, NoMemIsMemory
<1>2. Alone(b, mem[b].asked) /\ mem[b].asked \in 1..Len(asked)
  BY <1>1, HeldIsAsked, Tables DEF Decided
<1>3. mem[a].asked # mem[b].asked
  BY <1>1, <1>2 DEF Alone
<1> QED  BY <1>1, <1>2, <1>3, Ended DEF Alone

LEMMA DecidedReject ==
    ASSUME Typed, Decided, NEW a \in Actors, Reject(a)
    PROVE  Decided'
<1> DEFINE q == mem[a].asked
<1>1. /\ q \in 1..Len(asked) /\ asked' = SetRequest(asked, q, "rejected") /\ End(a)
      /\ UNCHANGED <<invites, raced>>
  BY RejectStep
<1>2. /\ asked' \in Seq(AccessRequest) /\ Len(asked') = Len(asked)
      /\ \A r \in 1..Len(asked) : asked'[r].status = IF r = q THEN "rejected" ELSE asked[r].status
  BY <1>1, Tables, RequestSet
<1>3. \A r : For(r)' = For(r)
  BY <1>1 DEF For
<1>4. ASSUME NEW r \in 1..Len(asked)  PROVE Answered(r)'
  <2>1. CASE r = q
    <3>1. q \notin raced => asked[q].status = "pending" /\ For(q) = {}
      BY <1>1 DEF Decided, Alone, Answered
    <3> QED  BY <1>1, <1>2, <1>3, <2>1, <3>1 DEF Answered
  <2>2. CASE r # q
    BY <1>1, <1>2, <1>3, <2>2 DEF Decided, Answered
  <2> QED  BY <2>1, <2>2
<1>5. \A r \in 1..Len(asked) : r # q => asked'[r] = asked[r]
  BY <1>1, Tables DEF SetRequest
<1> QED  BY <1>1, <1>2, <1>4, <1>5, DecidedElsewhere DEF Decided

LEMMA DecidedCommit ==
    ASSUME Typed, Decided, NEW a \in Actors, CommitInvite(a)
    PROVE  Decided'
<1> DEFINE q == mem[a].asked
           n == Len(invites')
<1>1. /\ End(a) /\ raced' = raced /\ n = Len(invites) + 1 /\ invites'[n].asked = q
      /\ \A i \in 1..Len(invites) : invites'[i] = invites[i]
      /\ Len(invites) \in Nat /\ DOMAIN invites = 1..Len(invites) /\ DOMAIN invites' = 1..n
  BY CommitStep, Tables
<1>2. \A r : For(r)' = IF r = q THEN For(r) \cup {n} ELSE For(r)
  <2>1. ASSUME NEW r, NEW i  PROVE i \in For(r)' <=> i \in For(r) \/ (r = q /\ i = n)
    BY <1>1 DEF For
  <2>2. ASSUME NEW r  PROVE For(r)' = IF r = q THEN For(r) \cup {n} ELSE For(r)
    <3>1. CASE r = q
      BY <2>1, <3>1 DEF For
    <3>2. CASE r # q
      BY <2>1, <3>2 DEF For
    <3> QED  BY <3>1, <3>2
  <2> QED  BY <2>2
<1> HIDE DEF n
<1>3. CASE q = 0 /\ asked' = asked
  <2>1. \A r \in 1..Len(asked) : Answered(r)'
    BY <1>1, <1>2, <1>3 DEF Decided, Answered
  <2> QED  BY <1>1, <1>3, <2>1, Tables, DecidedElsewhere DEF Decided
<1>4. CASE q \in 1..Len(asked) /\ asked' = SetRequest(asked, q, "approved")
  <2>1. /\ asked' \in Seq(AccessRequest) /\ Len(asked') = Len(asked)
        /\ \A r \in 1..Len(asked) : asked'[r].status = IF r = q THEN "approved" ELSE asked[r].status
    BY <1>4, Tables, RequestSet
  <2>2. ASSUME NEW r \in 1..Len(asked)  PROVE Answered(r)'
    <3>1. CASE r = q
      <4>1. q \notin raced => For(q) = {}
        BY <1>4 DEF Decided, Alone, Answered
      <4> QED  BY <1>1, <1>2, <2>1, <3>1, <4>1 DEF Answered
    <3>2. CASE r # q
      BY <1>1, <1>2, <2>1, <3>2 DEF Decided, Answered
    <3> QED  BY <3>1, <3>2
  <2>3. \A r \in 1..Len(asked) : r # q => asked'[r] = asked[r]
    BY <1>4, Tables DEF SetRequest
  <2> QED  BY <1>1, <2>1, <2>2, <2>3, DecidedElsewhere DEF Decided
<1> QED  BY <1>3, <1>4, CommitStep

LEMMA DecidedNext == ASSUME Typed, Decided, [Next]_vars  PROVE Decided'
<1>1. CASE UNCHANGED vars
  BY <1>1, DecidedKept DEF vars, db
<1>2. ASSUME NEW a \in Actors, QuietStep(a), ~ ReadRequest(a)  PROVE Decided'
  <2>1. \A b \in Actors : mem'[b].asked \in {mem[b].asked, 0}
    BY <1>2, QuietMoves, QuietHolds
  <2> QED  BY <1>2, <2>1, QuietKeeps, QuietHolds, DecidedKept DEF db
<1>3. CASE Expires
  <2>1. PICK i \in 1..Len(invites) : invites' = SetInvite(invites, i, "expired")
    BY <1>3, Tables DEF Expires, SetInvite
  <2>2. UNCHANGED <<asked, raced, mem>>
    BY <1>3 DEF Expires
  <2>3. DOMAIN invites' = DOMAIN invites /\ \A j \in DOMAIN invites : invites'[j].asked = invites[j].asked
    BY <2>1, Marked, Tables
  <2> QED  BY <2>2, <2>3, DecidedKept
<1>4. ASSUME NEW a \in Actors, accept_invite(a)  PROVE Decided'
  <2>1. PICK i \in 1..Len(invites) :
          invites' = SetInvite(invites, i, "used") /\ End(a) /\ UNCHANGED <<asked, raced>>
    BY <1>4, AcceptStep
  <2>2. DOMAIN invites' = DOMAIN invites /\ \A j \in DOMAIN invites : invites'[j].asked = invites[j].asked
    BY <2>1, Marked, Tables
  <2>3. \A b \in Actors : mem'[b].asked \in {mem[b].asked, 0}
    BY <2>1, Ended, NoMemIsMemory
  <2> QED  BY <2>1, <2>2, <2>3, DecidedKept
<1> QED  BY <1>1, <1>2, <1>3, <1>4, DecidedRead, DecidedAsked, DecidedReject, DecidedCommit
         DEF Next, QuietStep

\* An access request is approved with its invitation or not at all, and what one
\* super-admin decided stays decided (approve_access_request, reject_access_request).
THEOREM DecisionsStand == Spec => []DecisionStands
<1>1. Init => Typed /\ Decided
  <2>1. Init => Len(asked) = 0 /\ \A a \in Actors : mem[a].asked = 0
    BY NoMemIsMemory DEF Init
  <2> QED  BY <2>1, TypedInit DEF Decided
<1>2. Typed /\ Decided /\ [Next]_vars => (Typed /\ Decided)'
  BY TypedNext, DecidedNext
<1>3. Typed /\ Decided => DecisionStands
  <2>1. ASSUME Typed, Decided, NEW q \in DOMAIN asked, q \notin raced  PROVE Cardinality(For(q)) <= 1
    BY <2>1, AtMostOne, Tables DEF Decided, Answered
  <2> QED  BY <2>1, Tables DEF Decided, Answered, DecisionStands
<1> QED  BY <1>1, <1>2, <1>3, PTL DEF Spec
=============================================================================
