-------------------------- MODULE MCSkillsService --------------------------
(* Instances of SkillsService for TLC.                                        *)
EXTENDS SkillsService, TLC

\* Every workdir looks in the one root, where all the skills are.
OneRootOf == [w \in Workdirs |-> <<CHOOSE r \in Roots : TRUE>>]
OneHome == [s \in Skills |-> CHOOSE r \in Roots : TRUE]

Alike == Permutations(Clients) \cup Permutations(Workdirs)
=============================================================================
