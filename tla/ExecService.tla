---------------------------- MODULE ExecService ----------------------------
(***************************************************************************)
(* ExecManager behind the RetryCache it is built with: exec_command calls  *)
(* that carry a request_id.  The two components share the clock, and four  *)
(* actions of the manager are also actions of the table: a new session     *)
(* pins its entry, the end of the command releases it, the answer settles  *)
(* it, and every sweep of the manager sweeps the table.                    *)
(* write_stdin and terminate_exec_session are the calls without identifier *)
(* here; under one they are the pin-free operations of RetryCache.         *)
(***************************************************************************)
EXTENDS RetryCache

CONSTANTS MaxSessions, MaxOutput, Ttys, Escaped, MaxActive, MaxEnded, RetainFor,
          PerSession, Total, ReadBudget      \* of ExecManager

VARIABLES accepting, closing, draining, remaining, seq, records, sess, log, cached,
          origin    \* origin[s]: the operation whose action reserved the session s, or 0

Exec == INSTANCE ExecManager

ASSUME ServiceAssumption == Exec!ExecAssumption

managerVars == <<accepting, closing, draining, remaining, seq, records, sess, log, cached>>
tableVars == <<entries, ops, created>>
serviceVars == <<now, managerVars, tableVars, origin>>

Sessions == 1 .. MaxSessions

ServiceInit == /\ Init
               /\ Exec!Init
               /\ origin = [s \in Sessions |-> 0]

-----------------------------------------------------------------------------
\* A call with an identifier reaches the table; its action is not running yet.
Call(i, d) == /\ RunShared(i, d) \/ RunRefused(i, d) \/ RunFresh(i, d)
              /\ UNCHANGED <<managerVars, origin>>

\* The action of exec() runs and reserves a session.
Start(o, s) == /\ Begin(o, TRUE, TRUE)
               /\ Exec!Reserve(s)
               /\ origin' = [origin EXCEPT ![s] = o]

\* A call without identifier runs the action at once, and pins nothing.
StartWithoutId(d, s) == /\ RunWithoutId(d, TRUE)
                        /\ Exec!Reserve(s)
                        /\ origin' = [origin EXCEPT ![s] = created + 1]

\* SERVER_CLOSING or SESSION_LIMIT; the rejection is what the table then remembers.
Refuse(o) == /\ Begin(o, accepting, FALSE)
             /\ ~accepting \/ Cardinality(Exec!Active(Exec!Kept)) >= MaxActive
             /\ IF accepting THEN Exec!Sweep ELSE UNCHANGED <<now, managerVars>>
             /\ UNCHANGED origin
RefusalSettles(o) == /\ \A s \in Sessions : origin[s] # o
                     /\ Settle(o)
                     /\ UNCHANGED <<managerVars, origin>>

\* releaseRetry() of the session s: a no-op for a call without identifier.
ReleaseNothing(s) == UNCHANGED tableVars
ReleaseFor(s) == IF ops[origin[s]].id = NoId THEN UNCHANGED tableVars
                                             ELSE Release(origin[s])

End(s) == /\ Exec!StartFails(s) \/ \E faulty \in BOOLEAN : Exec!Closed(s, faulty)
          /\ ReleaseFor(s)
          /\ UNCHANGED origin

Answer(s) == /\ Exec!ExecReply(s)
             /\ Settle(origin[s])
             /\ UNCHANGED origin

\* What the manager does with a sweep of both, and what does not concern the table.
SweepingStep(s) == /\ \/ \E force \in BOOLEAN : Exec!Terminate(s, force)
                      \/ \E at \in 0 .. log[s].end \cup {-1}, input \in BOOLEAN :
                           Exec!WriteBegins(s, at, input)
                   /\ Sweep
                   /\ UNCHANGED origin
OtherStep(s) == /\ \/ \E timed \in BOOLEAN : Exec!Spawn(s, timed)
                   \/ \E n \in 1 .. MaxOutput : Exec!Output(s, n)
                   \/ Exec!TimeoutFires(s)
                   \/ Exec!EscalationFires(s)
                   \/ Exec!WriteReply(s)
                /\ UNCHANGED <<tableVars, origin>>

SweepBoth == Exec!Sweep /\ Sweep /\ UNCHANGED origin
Shutdown == /\ Exec!Close \/ Exec!CloseDrained \/ Exec!CloseReturns
            /\ UNCHANGED <<tableVars, origin>>
TickBoth == Exec!Tick /\ Tick /\ UNCHANGED origin

ServiceNext == \/ \E i \in Ids, d \in Digests : Call(i, d)
               \/ \E o \in Ops : \/ \E s \in Sessions : Start(o, s)
                                 \/ Refuse(o)
                                 \/ RefusalSettles(o)
               \/ \E d \in Digests, s \in Sessions : StartWithoutId(d, s)
               \/ \E s \in Sessions : End(s) \/ Answer(s) \/ SweepingStep(s) \/ OtherStep(s)
               \/ SweepBoth
               \/ Shutdown
               \/ TickBoth

ServiceSpec == ServiceInit /\ [][ServiceNext]_serviceVars
-----------------------------------------------------------------------------
RequestOf(s) == IF origin[s] = 0 THEN NoId ELSE ops[origin[s]].id
Running(s) == s \in 1 .. seq /\ ~Exec!Terminal(sess[s])

(* A client that repeats a call whose answer it lost cannot start its command *)
(* again, however long it runs and whatever is swept meanwhile: its request_id*)
(* starts another one only after the retention time, counted from the end of  *)
(* the command.  Stated for a table large enough never to evict.              *)
NoRerunBeforeTTL ==
  [][\A s \in 1 .. seq :
       seq' = seq + 1 /\ RequestOf(s) # NoId /\ RequestOf(s) = ops[origin'[seq']].id =>
         Exec!Terminal(sess[s]) /\ now - sess[s].ended >= TTL]_serviceVars

(* What the table believes of an operation is what the manager does: its     *)
(* release function is owed exactly while its command has not ended, and its  *)
(* promise is open exactly until the session's call has been answered, so End *)
(* and Answer are never blocked by the table.  And a repeated call finds the  *)
(* command as long as it runs: its identifier leads to the operation that     *)
(* started it, and is held there.                                             *)
FoundByRetry(s) == /\ RequestOf(s) \in DOMAIN entries
                   /\ entries[RequestOf(s)].op = origin[s]
                   /\ entries[RequestOf(s)].pins > 0
BooksAgree ==
  \A s \in 1 .. seq :
    /\ Running(s) /\ RequestOf(s) # NoId => FoundByRetry(s)
    /\ ops[origin[s]].phase = IF Exec!Pending(sess[s]) THEN "running" ELSE "settled"
    /\ ops[origin[s]].pin = IF RequestOf(s) = NoId THEN "none"
                            ELSE IF Running(s) THEN "held" ELSE "released"
=============================================================================
