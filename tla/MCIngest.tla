------------------------------ MODULE MCIngest ------------------------------
(* Small instances of Ingest: the records and sets a cfg cannot write.     *)
EXTENDS Ingest, TLC

CONSTANTS m1, m2, c1, c2

MCDefault == [model |-> m1, chunking |-> c1]
Interchangeable == Permutations(Workers) \cup Permutations(Requests)
=============================================================================
