---------------------------- MODULE Server_proofs ----------------------------
(***************************************************************************)
(* Proofs about Server, for every number of sessions and requests and both  *)
(* transports.  Whatever the server does is, for its execution sessions, a   *)
(* step of ExecManager or none; so the invariant proved there holds here,    *)
(* and what main() exits with can be read off it.                           *)
(***************************************************************************)
EXTENDS Server, TLAPS

M == INSTANCE ExecManager_proofs

-----------------------------------------------------------------------------
(* Exec, the ExecManager that Server runs, and M, the one whose theorems are   *)
(* known, are two instances with the same parameters; up to SameSpec, each      *)
(* definition of the one is shown to be that of the other.                      *)

LEMMA SameInit == Exec!Init <=> M!Init
BY DEF Exec!Init, M!Init, Exec!EmptyLog, M!EmptyLog, Exec!Unborn, M!Unborn, Exec!Null, M!Null, Exec!Sessions, M!Sessions

LEMMA SameSize ==
  ASSUME NEW S, NEW lg PROVE Exec!SizeOf(S, lg) = M!SizeOf(S, lg)
BY DEF Exec!Size, M!Size, Exec!SizeOf, M!SizeOf, Exec!MapThenSumSet, M!MapThenSumSet,
      Exec!MapThenFoldSet, M!MapThenFoldSet

LEMMA SameCardinality ==
  ASSUME NEW S PROVE Exec!Cardinality(S) = Cardinality(S) /\ M!Cardinality(S) = Cardinality(S)
BY DEF Exec!Cardinality, M!Cardinality, Cardinality

LEMMA SameSwept == Exec!Swept = M!Swept
<1> DEFINE ended == {s \in records : Exec!Evictable(sess[s])}
<1>1. /\ \A s, t : Exec!Older(s, t) <=> M!Older(s, t)
      /\ \A s : Exec!Stale(s) <=> M!Stale(s)
  BY DEF Exec!Evictable, M!Evictable, Exec!Terminal, M!Terminal, Exec!TerminalStates, M!TerminalStates,
         Exec!Older, M!Older, Exec!Stale, M!Stale
<1>2. ended = {s \in records : M!Evictable(sess[s])}
  BY DEF Exec!Evictable, M!Evictable, Exec!Terminal, M!Terminal, Exec!TerminalStates, M!TerminalStates
<1> DEFINE P(s) == Exec!Stale(s) \/ Cardinality({t \in ended : Exec!Older(t, s)}) <= Cardinality(ended) - MaxEnded
           Q(s) == M!Stale(s) \/ Cardinality({t \in ended : M!Older(t, s)}) <= Cardinality(ended) - MaxEnded
<1>3. Exec!Swept = {s \in ended : P(s)}
  BY SameCardinality DEF Exec!Swept
<1>4. M!Swept = {s \in ended : Q(s)}
  BY <1>2, SameCardinality DEF M!Swept
<1>5. ASSUME NEW s PROVE P(s) <=> Q(s)
  <2>1. {t \in ended : Exec!Older(t, s)} = {t \in ended : M!Older(t, s)}
    BY <1>1
  <2> QED BY <1>1, <2>1
<1> HIDE DEF P, Q, ended
<1> QED BY <1>3, <1>4, <1>5

LEMMA SameActive ==
  ASSUME NEW R PROVE Exec!Active(R) = M!Active(R)
BY DEF Exec!Active, M!Active, Exec!CountsAsActive, M!CountsAsActive, Exec!Terminal, M!Terminal,
      Exec!TerminalStates, M!TerminalStates

LEMMA SameSweep ==
  Exec!Kept = M!Kept /\ Exec!CachedAfterSweep = M!CachedAfterSweep
BY SameSize, SameSwept DEF Exec!CachedAfterSweep, M!CachedAfterSweep, Exec!Kept, M!Kept

LEMMA SameReserve ==
  ASSUME NEW s PROVE Exec!Reserve(s) <=> M!Reserve(s)
BY SameSweep, SameActive, SameCardinality DEF Exec!EmptyLog, M!EmptyLog, Exec!Null, M!Null, Exec!Reserve, M!Reserve, Exec!Reserved,
      M!Reserved, Exec!Sessions, M!Sessions, Exec!Unborn, M!Unborn, Exec!Update, M!Update,
      Exec!shutdownVars, M!shutdownVars

LEMMA SameStartFails ==
  ASSUME NEW s PROVE Exec!StartFails(s) <=> M!StartFails(s)
BY DEF Exec!Ended, M!Ended, Exec!Null, M!Null, Exec!ReadPosition, M!ReadPosition, Exec!Ready,
      M!Ready, Exec!StartFails, M!StartFails, Exec!Terminal, M!Terminal, Exec!TerminalStates,
      M!TerminalStates, Exec!Update, M!Update, Exec!Woken, M!Woken, Exec!shutdownVars,
      M!shutdownVars

LEMMA SameExecReply ==
  ASSUME NEW s PROVE Exec!ExecReply(s) <=> M!ExecReply(s)
BY DEF Exec!ExecReply, M!ExecReply, Exec!Larger, M!Larger, Exec!ReadUpTo, M!ReadUpTo,
      Exec!Resumable, M!Resumable, Exec!Smaller, M!Smaller, Exec!Update, M!Update,
      Exec!shutdownVars, M!shutdownVars

LEMMA SameTimeoutFires ==
  ASSUME NEW s PROVE Exec!TimeoutFires(s) <=> M!TimeoutFires(s)
BY DEF Exec!BeginTermination, M!BeginTermination, Exec!SignalUnlessEnded, M!SignalUnlessEnded,
      Exec!Terminal, M!Terminal, Exec!TerminalStates, M!TerminalStates, Exec!TimeoutFires,
      M!TimeoutFires, Exec!Update, M!Update, Exec!shutdownVars, M!shutdownVars

LEMMA SameEscalationFires ==
  ASSUME NEW s PROVE Exec!EscalationFires(s) <=> M!EscalationFires(s)
BY DEF Exec!EscalationFires, M!EscalationFires, Exec!SignalUnlessEnded, M!SignalUnlessEnded,
      Exec!Terminal, M!Terminal, Exec!TerminalStates, M!TerminalStates, Exec!Update, M!Update,
      Exec!shutdownVars, M!shutdownVars

LEMMA SameWriteReply ==
  ASSUME NEW s PROVE Exec!WriteReply(s) <=> M!WriteReply(s)
BY DEF Exec!Larger, M!Larger, Exec!Null, M!Null, Exec!ReadUpTo, M!ReadUpTo, Exec!Smaller,
      M!Smaller, Exec!Update, M!Update, Exec!WriteReply, M!WriteReply, Exec!shutdownVars,
      M!shutdownVars

LEMMA SameSpawn ==
  ASSUME NEW s, NEW timed PROVE Exec!Spawn(s, timed) <=> M!Spawn(s, timed)
BY DEF Exec!BeginTermination, M!BeginTermination, Exec!MustDieAtOnce, M!MustDieAtOnce, Exec!Null,
      M!Null, Exec!ReadPosition, M!ReadPosition, Exec!Ready, M!Ready, Exec!SignalUnlessEnded,
      M!SignalUnlessEnded, Exec!Spawn, M!Spawn, Exec!Terminal, M!Terminal, Exec!TerminalStates,
      M!TerminalStates, Exec!Update, M!Update, Exec!Woken, M!Woken, Exec!shutdownVars,
      M!shutdownVars

LEMMA SameOutput ==
  ASSUME NEW s, NEW n PROVE Exec!Output(s, n) <=> M!Output(s, n)
BY DEF Exec!Appended, M!Appended, Exec!Enforced, M!Enforced, Exec!Larger, M!Larger, Exec!Null,
      M!Null, Exec!Output, M!Output, Exec!Quieter, M!Quieter, Exec!ReadPosition, M!ReadPosition,
      Exec!Ready, M!Ready, Exec!Sessions, M!Sessions, Exec!Size, M!Size, Exec!SizeOf, M!SizeOf,
      Exec!Smaller, M!Smaller, Exec!Terminal, M!Terminal, Exec!TerminalStates, M!TerminalStates,
      Exec!TrimmedBy, M!TrimmedBy, Exec!Update, M!Update, Exec!Woken, M!Woken, Exec!shutdownVars,
      M!shutdownVars, Exec!MapThenSumSet, M!MapThenSumSet, Exec!MapThenFoldSet, M!MapThenFoldSet

LEMMA SameClosed ==
  ASSUME NEW s, NEW faulty PROVE Exec!Closed(s, faulty) <=> M!Closed(s, faulty)
BY DEF Exec!Closed, M!Closed, Exec!Ended, M!Ended, Exec!FinalState, M!FinalState, Exec!Null,
      M!Null, Exec!ReadPosition, M!ReadPosition, Exec!Ready, M!Ready, Exec!Terminal, M!Terminal,
      Exec!TerminalStates, M!TerminalStates, Exec!Update, M!Update, Exec!Woken, M!Woken,
      Exec!shutdownVars, M!shutdownVars

LEMMA SameTerminate ==
  ASSUME NEW s, NEW force PROVE Exec!Terminate(s, force) <=> M!Terminate(s, force)
BY SameSweep DEF Exec!BeginTermination, M!BeginTermination, Exec!SignalUnlessEnded, M!SignalUnlessEnded,
      Exec!SweepNow, M!SweepNow, Exec!Terminal, M!Terminal, Exec!TerminalStates, M!TerminalStates,
      Exec!Terminate, M!Terminate, Exec!Update, M!Update, Exec!shutdownVars, M!shutdownVars

LEMMA SameWriteBegins ==
  ASSUME NEW s, NEW at, NEW input PROVE Exec!WriteBegins(s, at, input) <=> M!WriteBegins(s, at, input)
BY SameSweep DEF Exec!FreeForWriting, M!FreeForWriting, Exec!Null, M!Null, Exec!ReadPosition, M!ReadPosition,
      Exec!Ready, M!Ready, Exec!SweepNow, M!SweepNow, Exec!Terminal, M!Terminal,
      Exec!TerminalStates, M!TerminalStates, Exec!Update, M!Update, Exec!Woken, M!Woken,
      Exec!WriteBegins, M!WriteBegins, Exec!shutdownVars, M!shutdownVars

LEMMA SameSessionStep ==
  ASSUME NEW s PROVE Exec!SessionStep(s) <=> M!SessionStep(s)
BY SameReserve, SameStartFails, SameSpawn, SameExecReply, SameOutput, SameClosed, SameTimeoutFires, SameEscalationFires, SameTerminate, SameWriteBegins, SameWriteReply DEF Exec!Null, M!Null, Exec!SessionStep, M!SessionStep

LEMMA SameRest ==
  /\ Exec!Sweep <=> M!Sweep
  /\ Exec!Close <=> M!Close
  /\ Exec!CloseDrained <=> M!CloseDrained
  /\ Exec!CloseReturns <=> M!CloseReturns
  /\ Exec!Tick <=> M!Tick
BY SameSweep DEF Exec!Active, M!Active, Exec!BeginTermination, M!BeginTermination, Exec!Close, M!Close,
      Exec!CloseDrained, M!CloseDrained, Exec!CloseReturns, M!CloseReturns, Exec!CountsAsActive,
      M!CountsAsActive, Exec!DrainOver, M!DrainOver, Exec!Sessions, M!Sessions,
      Exec!SignalUnlessEnded, M!SignalUnlessEnded, Exec!Sweep, M!Sweep, Exec!SweepNow, M!SweepNow,
      Exec!Terminal, M!Terminal, Exec!TerminalStates, M!TerminalStates, Exec!Tick, M!Tick,
      Exec!shutdownVars, M!shutdownVars

LEMMA SameSpec == Exec!Spec <=> M!Spec
<1>1. Exec!vars = M!vars /\ Exec!vars' = M!vars'
  BY DEF Exec!vars, M!vars
<1>2. Exec!Next <=> M!Next
  BY SameSessionStep, SameRest DEF Exec!Next, M!Next, Exec!Sessions, M!Sessions
<1>3. [Exec!Next]_(Exec!vars) <=> [M!Next]_(M!vars)
  BY <1>1, <1>2
<1> QED BY <1>3, SameInit, PTL DEF Exec!Spec, M!Spec

-----------------------------------------------------------------------------
(* The server runs its sessions as ExecManager does: a request, an import, a   *)
(* shutdown, an exit take no step that ExecManager does not have.              *)
THEOREM RunsExecManager == Spec => Exec!Spec
<1>1. Init => Exec!Init
  BY DEF Init
<1>2. [Next]_vars => [Exec!Next]_(Exec!vars)
  <2>1. Exec!vars = managerVars /\ Exec!vars' = managerVars'
    BY DEF Exec!vars, managerVars
  <2>2. ASSUME WhileRunning(ManagerStep) PROVE Exec!Next
    BY <2>2 DEF WhileRunning, ManagerStep, Exec!Next, Sessions, Exec!Sessions
  <2>3. ASSUME NEW r \in Requests, RequestStep(r) PROVE UNCHANGED managerVars
    BY <2>3 DEF RequestStep, Arrive, Answer, SkillTool, RequestBecomes
  <2>4. ASSUME Stop PROVE Exec!Next
    BY <2>4 DEF Stop, Exec!Next
  <2>5. ASSUME Import \/ Finish \/ Emergency \/ SignalledAgain PROVE UNCHANGED managerVars
    BY <2>5 DEF Import, Finish, Emergency, SignalledAgain, Exits
  <2>6. ASSUME UNCHANGED vars PROVE UNCHANGED managerVars
    BY <2>6 DEF vars
  <2> QED BY <2>1, <2>2, <2>3, <2>4, <2>5, <2>6 DEF Next
<1> QED BY <1>1, <1>2, PTL DEF Spec, Exec!Spec

-----------------------------------------------------------------------------
(* ExecManager_proofs may be relied on: its assumption is the server's.       *)
LEMMA SameAssumption == M!ExecAssumption
BY ServerAssumption DEF Exec!ExecAssumption, M!ExecAssumption, Exec!Sessions, M!Sessions

(* Its invariant of the sessions holds in a server.                           *)
THEOREM SessionsInServer == Spec => []M!Lifecycle
BY RunsExecManager, SameSpec, SameAssumption, M!LifecycleInvariant, PTL

(* The limit on active processes, among requests, imports and a shutdown.     *)
THEOREM ProcessLimitHolds == Spec => []ProcessLimit
<1>1. M!ProcessLimit <=> ProcessLimit
  BY SameCardinality DEF ProcessLimit, M!ProcessLimit, Exec!ProcessLimit, M!Sessions, Exec!Sessions
<1> QED BY <1>1, RunsExecManager, SameSpec, SameAssumption, M!ProcessLimitHolds, PTL

(* No sweep of a running server loses a child or a call.                      *)
THEOREM InUseIsKeptHolds == Spec => []InUseIsKept
<1>1. M!InUseIsKept <=> InUseIsKept
  BY DEF InUseIsKept, M!InUseIsKept, Exec!InUseIsKept, M!Sessions, Exec!Sessions, M!Pending, Exec!Pending,
         M!Terminal, Exec!Terminal, M!TerminalStates, Exec!TerminalStates
<1> QED BY <1>1, RunsExecManager, SameSpec, SameAssumption, M!InUseIsKeptHolds, PTL

(* The first reason to end a session, a shutdown of the server among them,     *)
(* decides its verdict.                                                        *)
THEOREM FirstReasonDecidesHolds == Spec => FirstReasonDecides
<1>1. M!FirstReasonDecides <=> FirstReasonDecides
  BY PTL DEF FirstReasonDecides, M!FirstReasonDecides, Exec!FirstReasonDecides, M!Sessions, Exec!Sessions,
         M!Terminal, Exec!Terminal, M!TerminalStates, Exec!TerminalStates, M!Verdict, Exec!Verdict, M!vars, Exec!vars
<1> QED BY <1>1, RunsExecManager, SameSpec, SameAssumption, M!FirstReasonDecidesHolds, PTL

-----------------------------------------------------------------------------
(* What the server adds: it exits on its own only when nothing is left to      *)
(* escalate, with 0 only when close() has reported no one, and no skill service *)
(* opens in a closing server.                                                   *)
ServerOK == /\ request \in [Requests -> InProgress \cup {"none", "answered", "cut"}]
            /\ skills \in {"none", "importing", "open", "closed"}
            /\ exit \in {-1, 0, 1, Died}
            /\ exit = 0 => closing = "closed" /\ remaining = {}
            /\ exit \in {0, 1} => closing \in {"archiving", "closed"}
            /\ SkillsClosed => skills # "open"

LEMMA ManagerStepsKeepClosing == ManagerStep => (closing' = "no" <=> closing = "no")
BY DEF ManagerStep, Exec!SessionStep, Exec!Reserve, Exec!StartFails, Exec!Spawn, Exec!ExecReply,
       Exec!Output, Exec!Closed, Exec!TimeoutFires, Exec!EscalationFires, Exec!Terminate,
       Exec!WriteBegins, Exec!WriteReply, Exec!Sweep, Exec!CloseDrained, Exec!CloseReturns,
       Exec!Tick, Exec!shutdownVars

LEMMA InitServerOK == Init => ServerOK
BY DEF Init, ServerOK, Exec!Init, SkillsClosed, InProgress, Died

LEMMA ExitServerOK ==
  ASSUME ServerOK, NEW code \in {0, 1, Died}, Exits(code),
         code = 0 => closing = "closed" /\ remaining = {},
         code = 1 => closing \in {"archiving", "closed"}
  PROVE  ServerOK'
<1>1. exit' = code /\ closing' = closing /\ remaining' = remaining /\ skills' = skills
  BY DEF Exits, managerVars
<1>2. request' \in [Requests -> InProgress \cup {"none", "answered", "cut"}]
  BY DEF Exits, ServerOK
<1>3. (exit' = 0 => closing' = "closed" /\ remaining' = {})
      /\ (exit' \in {0, 1} => closing' \in {"archiving", "closed"})
      /\ exit' \in {-1, 0, 1, Died}
  BY <1>1 DEF Died
<1> QED BY <1>1, <1>2, <1>3 DEF ServerOK, SkillsClosed

LEMMA RunningServerOK ==
  ASSUME ServerOK, exit' = -1,
         request' \in [Requests -> InProgress \cup {"none", "answered", "cut"}],
         skills' \in {"none", "importing", "open", "closed"},
         SkillsClosed' => skills' # "open"
  PROVE  ServerOK'
<1>1. exit' \notin {0, 1} /\ exit' # 0 /\ exit' \in {-1, 0, 1, Died}
  OBVIOUS
<1> QED BY <1>1 DEF ServerOK

LEMMA NextServerOK == ServerOK /\ [Next]_vars => ServerOK'
<1> SUFFICES ASSUME ServerOK, Next PROVE ServerOK'
  BY DEF vars, managerVars, serverVars, ServerOK, SkillsClosed
<1>0. /\ request \in [Requests -> InProgress \cup {"none", "answered", "cut"}]
      /\ skills \in {"none", "importing", "open", "closed"}
      /\ SkillsClosed => skills # "open"
  BY DEF ServerOK
<1>1. CASE WhileRunning(ManagerStep)
  <2>1. ManagerStep /\ exit = -1 /\ UNCHANGED <<request, skills, exit>>
    BY <1>1 DEF WhileRunning, Runs, serverVars
  <2>2. SkillsClosed' => SkillsClosed
    BY <2>1, ManagerStepsKeepClosing DEF SkillsClosed
  <2> QED BY <2>1, <2>2, <1>0, RunningServerOK
<1>2. ASSUME NEW r \in Requests, RequestStep(r) PROVE ServerOK'
  <2>1. exit = -1 /\ exit' = exit /\ (SkillsClosed' => SkillsClosed)
    BY <1>2 DEF RequestStep, Arrive, Answer, SkillTool, RequestBecomes, Runs, managerVars, SkillsClosed
  <2>2. request' \in [Requests -> InProgress \cup {"none", "answered", "cut"}]
    BY <1>0, <1>2 DEF RequestStep, Arrive, Answer, SkillTool, RequestBecomes, InProgress
  <2>3. \/ skills' = skills
        \/ skills' = "importing"
    BY <1>2 DEF RequestStep, Arrive, Answer, SkillTool
  <2>4. skills' \in {"none", "importing", "open", "closed"} /\ (SkillsClosed' => skills' # "open")
    BY <2>1, <2>3, <1>0
  <2> QED BY <2>4, <2>1, <2>2, <2>3, <1>0, RunningServerOK
<1>3. CASE Import
  <2>1. exit = -1 /\ exit' = exit /\ (SkillsClosed' => SkillsClosed)
    BY <1>3 DEF Import, Runs, managerVars, SkillsClosed
  <2>2. request' \in [Requests -> InProgress \cup {"none", "answered", "cut"}]
    BY <1>0, <1>3 DEF Import, InProgress
  <2>3. skills' \in {"none", IF SkillsClosed THEN "closed" ELSE "open"}
    BY <1>3 DEF Import, OpenedUnlessClosed
  <2> QED BY <2>1, <2>2, <2>3, RunningServerOK
<1>4. CASE Stop
  <2>1. exit = -1 /\ UNCHANGED <<request, exit>> /\ skills' = IF skills = "open" THEN "closed" ELSE skills
    BY <1>4 DEF Stop, Runs
  <2> QED BY <2>1, <1>0, RunningServerOK
<1>5. CASE Finish
  <2>1. closing = "closed" /\ (Exits(Code(remaining)) \/ Exits(1))
    BY <1>5 DEF Finish
  <2>2. Code(remaining) \in {0, 1} /\ (Code(remaining) = 0 => remaining = {})
    BY DEF Code
  <2> QED BY <2>1, <2>2, ExitServerOK
<1>6. CASE Emergency
  BY <1>6, ExitServerOK DEF Emergency, EmergencyDue
<1>7. CASE SignalledAgain
  BY <1>7, ExitServerOK DEF SignalledAgain, Died
<1> QED BY <1>1, <1>2, <1>3, <1>4, <1>5, <1>6, <1>7 DEF Next

(* The phase of stop(), the manager's drain, the timers, the skill service and *)
(* the exit agree: the inductive invariant of the process.                     *)
THEOREM ServerOKInvariant == Spec => []ServerOK
BY InitServerOK, NextServerOK, PTL DEF Spec

(* A skill service whose import outlives the beginning of the shutdown is       *)
(* closed as it arrives (skillService() and close() of runtime.ts).             *)
THEOREM SkillsEndClosedHolds == Spec => []SkillsEndClosed
<1>1. ServerOK => SkillsEndClosed
  BY DEF ServerOK, SkillsEndClosed
<1> QED BY <1>1, ServerOKInvariant, PTL

(* The exit code of main() can be trusted: with 0 every session is over, and   *)
(* after 0 or 1 every child that is left has had SIGKILL: by then close() has   *)
(* waited for each escalation, and everyone it found alive has one.             *)
THEOREM ExitIsHonestHolds == Spec => []ExitIsHonest
<1>1. ServerOK /\ M!Lifecycle => ExitIsHonest
  <2> SUFFICES ASSUME ServerOK, M!Lifecycle PROVE ExitIsHonest
    OBVIOUS
  <2> USE DEF M!Terminal, Exec!Terminal, M!TerminalStates, Exec!TerminalStates
  <2>1. ASSUME exit = 0, NEW s \in 1 .. seq PROVE Exec!Terminal(sess[s])
    BY <2>1 DEF ServerOK, M!Lifecycle, M!ClosingOK
  <2>2. ASSUME exit \in {0, 1}, NEW s \in Sessions, sess[s].handle PROVE sess[s].sent = "kill"
    <3>1. M!RecordOK(sess[s]) /\ M!SessionOK(s)
      BY DEF M!Lifecycle, M!SessionOK, Sessions, M!Sessions
    <3>2. ~M!Terminal(sess[s]) /\ s \in 1 .. seq
      BY <2>2, <3>1 DEF M!RecordOK, M!SessionOK, M!Unborn
    <3>3. sess[s].escalation \notin {"none", "armed"}
      BY <2>2, <3>2 DEF ServerOK, M!Lifecycle, M!ClosingOK
    <3> QED BY <2>2, <3>1, <3>3 DEF M!RecordOK, M!Session
  <2> QED BY <2>1, <2>2 DEF ExitIsHonest
<1> QED BY <1>1, ServerOKInvariant, SessionsInServer, PTL
=============================================================================
