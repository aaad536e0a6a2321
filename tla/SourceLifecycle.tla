-------------------------- MODULE SourceLifecycle --------------------------
(***************************************************************************)
(* What the sources subsystem promises to everything that reads it: the    *)
(* tree page, retrieval, and the settings page counting stale documents.   *)
(* A reader sees a source's status and its searchable index change         *)
(* together, never a half-built index under "ready", never an index of a   *)
(* source that is gone, and no source that comes back.                     *)
(***************************************************************************)
CONSTANTS Sources, Models, Chunkings, None

VARIABLES row, index

vars == <<row, index>>

Live  == {"pending", "ready", "failed"}
Whole == [chunking : Chunkings, model : Models]
Bare  == [chunking : Chunkings, model : {None}]

Init ==
    /\ row \in [Sources -> {"unborn", "ready"}]
    /\ index \in [Sources -> Whole \cup {None}]
    /\ \A s \in Sources : row[s] = "ready" <=> index[s] # None

\* Uploaded, added by URL or imported: visible, pending and not searchable.
Appear(S) ==
    /\ \A s \in S : row[s] = "unborn"
    /\ row' = [s \in Sources |-> IF s \in S THEN "pending" ELSE row[s]]
    /\ UNCHANGED index

\* Queued again: still searchable through the index it has.
Requeue(S) ==
    /\ \A s \in S : row[s] \in Live
    /\ row' = [s \in Sources |-> IF s \in S THEN "pending" ELSE row[s]]
    /\ UNCHANGED index

Publish(s) ==
    /\ row[s] \in Live
    /\ row' = [row EXCEPT ![s] = "ready"]
    /\ \E new \in Whole : index' = [index EXCEPT ![s] = new]

\* A failed attempt keeps the old index, loses it, or leaves what it built.
GiveUp(s) ==
    /\ row[s] \in Live
    /\ row' = [row EXCEPT ![s] = "failed"]
    /\ \E left \in Whole \cup Bare \cup {None, index[s]} : index' = [index EXCEPT ![s] = left]

Remove(S) ==
    /\ \A s \in S : row[s] \in Live
    /\ row' = [s \in Sources |-> IF s \in S THEN "gone" ELSE row[s]]
    /\ index' = [s \in Sources |-> IF s \in S THEN None ELSE index[s]]

\* A creation that did not commit used up its ids.
Burn(S) ==
    /\ \A s \in S : row[s] = "unborn"
    /\ row' = [s \in Sources |-> IF s \in S THEN "gone" ELSE row[s]]
    /\ UNCHANGED index

Next ==
    \/ \E S \in SUBSET Sources : Appear(S) \/ Requeue(S) \/ Remove(S) \/ Burn(S)
    \/ \E s \in Sources : Publish(s) \/ GiveUp(s)

Spec == Init /\ [][Next]_vars
=============================================================================
