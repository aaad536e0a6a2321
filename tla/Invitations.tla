---------------------------- MODULE Invitations ----------------------------
(***************************************************************************)
(* How an account comes to exist: somebody asks for access, a super-admin  *)
(* decides, an invitation is mailed, and whoever holds it accepts.         *)
(*                                                                         *)
(* A request of the API reads what it checks, writes, sends its mail and   *)
(* commits, each at a time of its own.  READ COMMITTED locks nothing that  *)
(* is only read; the unique constraints (users.email, organizations.slug,  *)
(* memberships) fail the second of two transactions that write the same.   *)
(* Organizations, invitations and access requests are numbered in the      *)
(* order of their commits.                                                 *)
(***************************************************************************)
EXTENDS Integers, Sequences, FiniteSets

CONSTANTS
    Actors,     \* requests of the API in flight together
    Emails, Allowed,  \* addresses; those of an allowed domain
    NameOf(_),  \* the organization's name an address asks for
    Roles,
    Nobody,     \* no address
    MaxAsked,   \* bound: access requests
    MaxInvites  \* bound: invitations

ASSUME InvitationsAssumption ==
    Allowed \subseteq Emails /\ Nobody \notin Emails /\ {MaxAsked, MaxInvites} \subseteq Nat

VARIABLES
    users,    \* addresses with an account
    members,  \* rows of memberships: [email, org, role]
    slugs,    \* slug of each organization: its name, or a name with a random suffix
    invites,  \* rows of invites: [email, org, role, status, asked]
    asked,    \* rows of access_requests: [email, status]
    pc, mem,  \* where each request is, and what it read
    mailed,   \* history: invitations the mail server took, by the actor's run
    raced     \* history: access requests two super-admins had read as pending

db   == <<users, members, slugs, invites, asked>>
vars == <<db, pc, mem, mailed, raced>>

\* Rows; an invitation names the access request it answers, or 0.
Membership    == [email : Emails, org : Nat \ {0}, role : Roles \cup {"owner"}]
Invite        == [email : Emails, org : Nat \ {0}, role : Roles \cup {"owner"},
                  status : {"live", "used", "expired"}, asked : 0..MaxAsked]
AccessRequest == [email : Emails, status : {"pending", "approved", "rejected"}]

NoMem == [invite |-> 0, asked |-> 0, email |-> Nobody, org |-> 0, role |-> "none", slug |-> <<>>,
          user |-> FALSE, member |-> FALSE, sent |-> FALSE]

Init ==
    /\ users \in SUBSET Emails /\ members = {} /\ slugs = <<>>
    /\ invites = <<>> /\ asked = <<>>
    /\ pc = [a \in Actors |-> "idle"] /\ mem = [a \in Actors |-> NoMem]
    /\ mailed = {} /\ raced = {}

Go(a, from, to) == pc[a] = from /\ pc' = [pc EXCEPT ![a] = to]
End(a) == pc' = [pc EXCEPT ![a] = "idle"] /\ mem' = [mem EXCEPT ![a] = NoMem]
-----------------------------------------------------------------------------
(***************************************************************************)
(* Access requests.                                                        *)
(***************************************************************************)
\* The admin is notified if the mail server will; the request is kept either way.
create_access_request ==
    /\ Len(asked) < MaxAsked
    /\ \E e \in Allowed : asked' = Append(asked, [email |-> e, status |-> "pending"])
    /\ UNCHANGED <<users, members, slugs, invites, pc, mem, mailed, raced>>

\* Mutant of ReadRequest: a request that has been decided is decided again.
ReadAgain(a) ==
    \E q \in DOMAIN asked :
        /\ Go(a, "idle", "deciding")
        /\ mem' = [mem EXCEPT ![a].asked = q, ![a].email = asked[q].email, ![a].role = "owner"]
        /\ raced' = IF \E b \in Actors : mem[b].asked = q THEN raced \cup {q} ELSE raced
        /\ UNCHANGED <<db, mailed>>

ReadRequest(a) ==
    \E q \in DOMAIN asked :
        /\ asked[q].status = "pending"
        /\ Go(a, "idle", "deciding")
        /\ mem' = [mem EXCEPT ![a].asked = q, ![a].email = asked[q].email, ![a].role = "owner"]
        /\ raced' = IF \E b \in Actors : mem[b].asked = q THEN raced \cup {q} ELSE raced
        /\ UNCHANGED <<db, mailed>>

\* The row of the access request is written: another decision of it waits.
Holds(b, q) == mem[b].asked = q /\ pc[b] \in {"flushed", "mailed"}

Reject(a) ==
    /\ pc[a] = "deciding" /\ \A b \in Actors : ~ Holds(b, mem[a].asked)
    /\ asked' = [asked EXCEPT ![mem[a].asked].status = "rejected"]
    /\ End(a)
    /\ UNCHANGED <<users, members, slugs, invites, mailed, raced>>

Approve(a) ==
    /\ Go(a, "deciding", "inviting")
    /\ UNCHANGED <<db, mem, mailed, raced>>
-----------------------------------------------------------------------------
(***************************************************************************)
(* issue_invite.                                                           *)
(***************************************************************************)
\* By a super-admin, with no access request, to an organization or a new one.
CreateInvite(a) ==
    /\ Go(a, "idle", "inviting")
    /\ \E e \in Emails, role \in Roles, org \in 0..Len(slugs) :
        mem' = [mem EXCEPT ![a].email = e, ![a].role = role, ![a].org = org]
    /\ UNCHANGED <<db, mailed, raced>>

Taken(slug) == \E i \in DOMAIN slugs : slugs[i] = slug

\* The slug of a new organization is made unique by what is committed now.
ChooseSlug(a) ==
    /\ mem[a].email \in Allowed
    /\ Go(a, "inviting", "chosen")
    /\ LET name == NameOf(mem[a].email) IN
       mem' = [mem EXCEPT ![a].slug = CASE mem[a].org # 0 -> <<>>
                                        [] mem[a].org = 0 /\ Taken(<<name>>) -> <<name, "suffix">>
                                        [] OTHER -> <<name>>]
    /\ UNCHANGED <<db, mailed, raced>>

\* Random suffixes do not meet.
Clash(slug, other) == Len(slug) = 1 /\ slug = other

\* The insert waits for another that holds the slug, and fails once it is taken.
Flush(a) ==
    /\ pc[a] = "chosen"
    /\ \A b \in Actors : pc[b] \in {"flushed", "mailed"} =>
          ~ Clash(mem[a].slug, mem[b].slug) /\ (mem[a].asked # 0 => mem[b].asked # mem[a].asked)
    /\ IF \E i \in DOMAIN slugs : Clash(mem[a].slug, slugs[i])
       THEN End(a)
       ELSE Go(a, "chosen", "flushed") /\ UNCHANGED mem
    /\ UNCHANGED <<db, mailed, raced>>

\* Mutant of SendMail: a mail that fails is logged and forgotten.
SendOrNot(a) ==
    /\ Go(a, "flushed", "mailed")
    /\ \E sent \in BOOLEAN : mem' = [mem EXCEPT ![a].sent = sent]
    /\ UNCHANGED <<db, mailed, raced>>

\* A mail that fails raises: see Fails.
SendMail(a) ==
    /\ Go(a, "flushed", "mailed")
    /\ mem' = [mem EXCEPT ![a].sent = TRUE]
    /\ UNCHANGED <<db, mailed, raced>>

CommitInvite(a) ==
    /\ pc[a] = "mailed" /\ Len(invites) < MaxInvites
    /\ slugs' = IF mem[a].slug = <<>> THEN slugs ELSE Append(slugs, mem[a].slug)
    /\ invites' = Append(invites, [email |-> mem[a].email, role |-> mem[a].role,
                                   org |-> IF mem[a].org = 0 THEN Len(slugs') ELSE mem[a].org,
                                   status |-> "live", asked |-> mem[a].asked])
    /\ asked' = IF mem[a].asked = 0 THEN asked
                ELSE [asked EXCEPT ![mem[a].asked].status = "approved"]
    /\ mailed' = IF mem[a].sent THEN mailed \cup {Len(invites')} ELSE mailed
    /\ End(a)
    /\ UNCHANGED <<users, members, raced>>
-----------------------------------------------------------------------------
(***************************************************************************)
(* accept_invite.                                                          *)
(***************************************************************************)
ReadInvite(a) ==
    \E i \in DOMAIN invites :
        /\ invites[i].status = "live"
        /\ Go(a, "idle", "accepting")
        /\ mem' = [mem EXCEPT ![a].invite = i, ![a].email = invites[i].email]
        /\ UNCHANGED <<db, mailed, raced>>

IsMember(e, o) == \E row \in members : row.email = e /\ row.org = o

ReadUser(a) ==
    /\ Go(a, "accepting", "known")
    /\ mem' = [mem EXCEPT ![a].user = mem[a].email \in users,
                          ![a].member = IsMember(mem[a].email, invites[mem[a].invite].org)]
    /\ UNCHANGED <<db, mailed, raced>>

\* Mutant of accept_invite: an account that exists is signed in and no more.
AcceptKnown(a) ==
    LET inv == invites[mem[a].invite] IN
    /\ pc[a] = "known"
    /\ ~ (~ mem[a].user /\ inv.email \in users)
    /\ users' = users \cup {inv.email}
    /\ members' = IF mem[a].user THEN members
                  ELSE members \cup {[email |-> inv.email, org |-> inv.org, role |-> inv.role]}
    /\ invites' = [invites EXCEPT ![mem[a].invite].status = "used"]
    /\ End(a)
    /\ UNCHANGED <<slugs, asked, mailed, raced>>

\* What was not there when it was read, and is now, fails the insert: see Fails.
accept_invite(a) ==
    LET inv == invites[mem[a].invite] IN
    /\ pc[a] = "known"
    /\ mem[a].user \/ inv.email \notin users
    /\ mem[a].member \/ ~ IsMember(inv.email, inv.org)
    /\ users' = users \cup {inv.email}
    /\ members' = IF mem[a].member THEN members
                  ELSE members \cup {[email |-> inv.email, org |-> inv.org, role |-> inv.role]}
    /\ invites' = [invites EXCEPT ![mem[a].invite].status = "used"]
    /\ End(a)
    /\ UNCHANGED <<slugs, asked, mailed, raced>>

\* A domain that is not allowed, the mail server, a constraint, the commit.
Fails(a) == pc[a] # "idle" /\ End(a) /\ UNCHANGED <<db, mailed, raced>>

Expires ==
    \E i \in DOMAIN invites :
        /\ invites[i].status = "live"
        /\ invites' = [invites EXCEPT ![i].status = "expired"]
        /\ UNCHANGED <<users, members, slugs, asked, pc, mem, mailed, raced>>

Next ==
    \/ create_access_request \/ Expires
    \/ \E a \in Actors :
        \/ ReadRequest(a) \/ Reject(a) \/ Approve(a)
        \/ CreateInvite(a) \/ ChooseSlug(a) \/ Flush(a) \/ SendMail(a) \/ CommitInvite(a)
        \/ ReadInvite(a) \/ ReadUser(a) \/ accept_invite(a) \/ Fails(a)

Spec == Init /\ [][Next]_vars
-----------------------------------------------------------------------------
TypeOK ==
    /\ users \subseteq Emails /\ members \subseteq Membership
    /\ invites \in Seq(Invite) /\ asked \in Seq(AccessRequest)
    /\ pc \in [Actors -> {"idle", "deciding", "inviting", "chosen", "flushed", "mailed",
                          "accepting", "known"}]
    /\ mailed \subseteq 1..MaxInvites /\ raced \subseteq 1..MaxAsked

(***************************************************************************)
(* An invitation that was used made its address a member of its            *)
(* organization, once, in the role of an invitation that was used; and     *)
(* there is no other way to become one.  It holds for invitations accepted *)
(* twice, or together with others of the same address.                     *)
(***************************************************************************)
Used(e, o) == {i \in DOMAIN invites :
                  invites[i].status = "used" /\ invites[i].email = e /\ invites[i].org = o}
MembershipsAreInvites ==
    /\ \A e \in Emails, o \in DOMAIN slugs :
        LET Of == {row \in members : row.email = e /\ row.org = o} IN
        /\ Cardinality(Of) <= 1
        /\ Of = {} <=> Used(e, o) = {}
        /\ \A row \in Of : e \in users /\ \E i \in Used(e, o) : invites[i].role = row.role

(***************************************************************************)
(* An access request is approved with its invitation or not at all, and    *)
(* what is decided stays decided unless two super-admins decided at once:  *)
(* one invitation of an approved request, none of a rejected one.          *)
(***************************************************************************)
For(q) == {i \in DOMAIN invites : invites[i].asked = q}
DecisionStands ==
    \A q \in DOMAIN asked :
        /\ asked[q].status = "pending" => For(q) = {}
        /\ asked[q].status = "approved" => For(q) # {}
        /\ q \notin raced => /\ asked[q].status = "rejected" => For(q) = {}
                             /\ Cardinality(For(q)) <= 1

(***************************************************************************)
(* Every invitation there is was mailed, since its token is nowhere else,  *)
(* and every organization made for one was made with it.                   *)
(***************************************************************************)
InvitesAreSent ==
    /\ DOMAIN invites = mailed
    /\ {invites[i].org : i \in DOMAIN invites} = DOMAIN slugs
=============================================================================
