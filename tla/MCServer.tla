------------------------------ MODULE MCServer ------------------------------
(* Instance of Server for TLC.                                               *)
EXTENDS Server, TLC
=============================================================================
