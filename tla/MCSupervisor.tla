---------------------------- MODULE MCSupervisor ----------------------------
(* Instances of Supervisor for TLC.                                           *)
EXTENDS Supervisor

\* What follows two removals at the same time is claimed by no property.
UntilOverlap == ~overlap
=============================================================================
