---------------------------- MODULE MCSourceTree ----------------------------
(* Small instances of SourceTree: requests are interchangeable.            *)
EXTENDS SourceTree, TLC

Interchangeable == Permutations(Actors)
=============================================================================
