------------------------------- MODULE Server -------------------------------
(***************************************************************************)
(* The server process around ExecManager: main.ts, runtime.ts and the two   *)
(* transports of mcp/.  A shutdown meets requests whose body is still being *)
(* read, a skill service still being imported and a history that may never  *)
(* come to rest; main() exits when everything closed,*)
(* 15 s after the shutdown began, or at once on the same signal again.      *)
(* exec_command, write_stdin and terminate_exec_session are the actions of  *)
(* ExecManager; of the other tools, the skill tools share state with the    *)
(* shutdown, and apply_patch and view_image keep to themselves.             *)
(***************************************************************************)
EXTENDS Integers, FiniteSets

CONSTANTS MaxSessions, MaxTime, MaxOutput, Ttys, Escaped, MaxActive, MaxEnded, RetainFor,
          PerSession, Total, ReadBudget,   \* of ExecManager
          Requests,
          Http             \* config.transport, or else stdio

VARIABLES now, accepting, closing, draining, remaining, seq, records, sess, log, cached,
          request,    \* how far each request has come
          skills,     \* runtime.skillsTask, and whether its service is closed
          exit        \* the exit code, -1 while the process runs

Exec == INSTANCE ExecManager

ASSUME ServerAssumption == Exec!ExecAssumption /\ Http \in BOOLEAN

managerVars == <<now, accepting, closing, draining, remaining, seq, records, sess, log, cached>>
serverVars == <<request, skills, exit>>
vars == <<managerVars, serverVars>>

Sessions == 1 .. MaxSessions
Runs == exit = -1
Died == 2               \* the default action of a signal
SkillsClosed == closing # "no"
InProgress == {"reading", "awaiting skills"}

TypeOK == /\ Exec!TypeOK
          /\ request \in [Requests -> InProgress \cup {"none", "answered", "cut"}]
          /\ skills \in {"none", "importing", "open", "closed"}
          /\ exit \in {-1, 0, 1, Died}

Init == /\ Exec!Init
        /\ request = [r \in Requests |-> "none"]
        /\ skills = "none"
        /\ exit = -1

-----------------------------------------------------------------------------
(* Requests                                                                  *)

RequestBecomes(r, from, to) == /\ Runs
                               /\ request[r] = from
                               /\ request' = [request EXCEPT ![r] = to]
                               /\ UNCHANGED <<managerVars, exit>>

\* HTTP refuses at the headers and then reads the body; stdio hands over whole messages.
Arrive(r) == /\ RequestBecomes(r, "none", IF Http /\ SkillsClosed THEN "answered" ELSE "reading")
             /\ UNCHANGED skills
\* A malformed body, or a tool that is not about skills, in a closing server too.
Answer(r) == RequestBecomes(r, "reading", "answered") /\ UNCHANGED skills

\* skillService() and what the service answers.
SkillTool(r) ==
  \/ SkillsClosed /\ RequestBecomes(r, "reading", "answered") /\ UNCHANGED skills
  \/ ~SkillsClosed /\ RequestBecomes(r, "reading", IF skills = "open" THEN "answered" ELSE "awaiting skills")
     /\ skills' = IF skills = "none" THEN "importing" ELSE skills

\* The import of the skill service ends.  Everyone who awaits it goes on, or fails with it.
OpenedRegardless == "open"
OpenedUnlessClosed == IF SkillsClosed THEN "closed" ELSE "open"
Import == /\ Runs
          /\ skills = "importing"
          /\ skills' \in {OpenedUnlessClosed, "none"}
          /\ request' = [r \in Requests |-> IF request[r] = "awaiting skills" THEN "answered" ELSE request[r]]
          /\ UNCHANGED <<managerVars, exit>>

RequestStep(r) == Arrive(r) \/ Answer(r) \/ SkillTool(r)

-----------------------------------------------------------------------------
(* Shutdown                                                                  *)

\* stop(), up to its wait: both transports close the runtime first, and that the skill
\* service if there is one, and ExecManager.
Stop == /\ Runs
        /\ Exec!Close
        /\ skills' = IF skills = "open" THEN "closed" ELSE skills
        /\ UNCHANGED <<request, exit>>

Exits(code) == /\ exit' = code
               /\ request' = [r \in Requests |-> IF request[r] \in InProgress THEN "cut" ELSE request[r]]
               /\ UNCHANGED <<managerVars, skills>>

\* The runtime has closed; the transport closes its connections, or fails to.
CodeAlways0(left) == 0
Code(left) == IF left = {} THEN 0 ELSE 1
Finish == /\ Runs
          /\ closing = "closed"
          /\ Exits(Code(remaining)) \/ Exits(1)

\* The emergency timer outlasts every grace period (at most 10 s, and 1.5 s for the wait).
EmergencyWhileDraining == closing = "draining"
EmergencyDue == closing \in {"archiving", "closed"}
Emergency == Runs /\ EmergencyDue /\ Exits(1)

\* Listeners are registered `once': the signal that began the shutdown ends it, too.
SignalledAgain == Runs /\ SkillsClosed /\ Exits(Died)

\* Whatever else ExecManager does, while there is a process to do it.
ManagerStep == \/ \E s \in Sessions : Exec!SessionStep(s)
               \/ Exec!Sweep \/ Exec!CloseDrained \/ Exec!CloseReturns \/ Exec!Tick
WhileRunning(A) == Runs /\ A /\ UNCHANGED serverVars

Next == \/ WhileRunning(ManagerStep)
        \/ \E r \in Requests : RequestStep(r)
        \/ Import
        \/ Stop \/ Finish \/ Emergency \/ SignalledAgain

Spec == Init /\ [][Next]_vars

(* Fairness: that of ExecManager, except that the history may never come to   *)
(* rest (a file operation that hangs); timers fire, imports resolve.          *)
Fairness == /\ \A s \in Sessions : /\ WF_vars(WhileRunning(Exec!Opened(s)))
                                   /\ WF_vars(WhileRunning(Exec!ExecReply(s)))
                                   /\ WF_vars(WhileRunning(Exec!WriteReply(s)))
                                   /\ WF_vars(WhileRunning(Exec!EscalationFires(s)))
            /\ \A s \in Sessions \ Escaped : WF_vars(WhileRunning(Exec!Reaped(s)))
            /\ WF_vars(WhileRunning(Exec!CloseDrained))
            /\ WF_vars(Emergency) /\ WF_vars(Import)

FairSpec == Spec /\ Fairness
-----------------------------------------------------------------------------
(* The exit code can be trusted: 0 means that no command this server started  *)
(* is left, however late it was spawned, and after any exit of its own a       *)
(* command that is left has had SIGKILL (its pipes are held open elsewhere).   *)
ExitIsHonest == /\ exit = 0 => \A s \in 1 .. seq : Exec!Terminal(sess[s])
                /\ exit \in {0, 1} => \A s \in Sessions : sess[s].handle => sess[s].sent = "kill"

(* A skill service whose import outlives the beginning of the shutdown does    *)
(* not stay open.                                                             *)
SkillsEndClosed == SkillsClosed => skills # "open"
(* The process exits once told to, whatever the commands and the history do.  *)
ProcessExits == SkillsClosed ~> ~Runs

(* Every termination of a command ends, graceful or not, unless its pipes are  *)
(* held open elsewhere or the server is gone.                                  *)
TerminationCompletes ==
  \A s \in Sessions \ Escaped : sess[s].state = "terminating" ~> Exec!Terminal(sess[s]) \/ ~Runs

(* Every call is answered as long as the server runs, a skill request whether  *)
(* its import succeeds or fails.                                               *)
CallsAreAnswered ==
  /\ \A s \in Sessions : /\ Exec!Pending(sess[s]) ~> sess[s].call = "answered" \/ ~Runs
                         /\ sess[s].reader # "idle" ~> sess[s].reader = "idle" \/ ~Runs
  /\ \A r \in Requests : request[r] = "awaiting skills" ~> request[r] # "awaiting skills"

\* The properties of ExecManager in a server: its limit, its records, its verdicts.
ProcessLimit == Exec!ProcessLimit
InUseIsKept == Exec!InUseIsKept
FirstReasonDecides == Exec!FirstReasonDecides
=============================================================================
