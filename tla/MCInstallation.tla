--------------------------- MODULE MCInstallation ---------------------------
(* Instances of Installation for TLC.                                         *)
EXTENDS Installation

Alike == Permutations(Programs) \cup Permutations(Versions)
=============================================================================
