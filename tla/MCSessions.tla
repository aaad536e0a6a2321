----------------------------- MODULE MCSessions -----------------------------
(* Small instances of Sessions: requests are interchangeable.              *)
EXTENDS Sessions, TLC

Interchangeable == Permutations(Requests)
=============================================================================
