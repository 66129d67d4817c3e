--------------------------- MODULE MCExecService ---------------------------
(* Instance of ExecService for TLC.  write_stdin, output and the timers do   *)
(* not reach the table, so this run follows them one step only; the runs of  *)
(* ExecManager explore them.                                                 *)
EXTENDS ExecService

Quiet == \A s \in Sessions : /\ sess[s].reader = "idle"
                             /\ log[s].end = 0
                             /\ ~sess[s].timer
                             /\ sess[s].escalation # "armed"
=============================================================================
