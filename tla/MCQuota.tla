------------------------------ MODULE MCQuota ------------------------------
(* Small instances of Quota: calls are interchangeable.                    *)
EXTENDS Quota, TLC

Interchangeable == Permutations(Calls)
=============================================================================
