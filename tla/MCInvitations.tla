--------------------------- MODULE MCInvitations ---------------------------
(* Small instances of Invitations: every address asks for the same name.   *)
EXTENDS Invitations, TLC

Interchangeable == Permutations(Actors)
Team(e) == "team"
=============================================================================
