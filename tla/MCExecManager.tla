--------------------------- MODULE MCExecManager ---------------------------
(* Instance of ExecManager for TLC: terminations and the shutdown are left to *)
(* the run of Server, but for those of one silent session.                    *)
EXTENDS ExecManager

Undisturbed == \/ closing = "no" /\ \A s \in Sessions : sess[s].reason = "none"
               \/ seq <= 1 /\ now = 0 /\ log[1].end = 0
=============================================================================
