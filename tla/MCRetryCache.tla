---------------------------- MODULE MCRetryCache ----------------------------
(* Instance of RetryCache for TLC: the identifiers are interchangeable.       *)
EXTENDS RetryCache, TLC
IdSymmetry == Permutations(Ids)
=============================================================================
