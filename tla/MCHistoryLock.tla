--------------------------- MODULE MCHistoryLock ---------------------------
(* Instances of HistoryLock for TLC.                                         *)
EXTENDS HistoryLock, TLC

Symmetry == Permutations(Procs)
=============================================================================
