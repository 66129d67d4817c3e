---------------------------- MODULE ExecManager ----------------------------
(***************************************************************************)
(* src/runtime/exec-manager.ts: the execution sessions of one server.  A   *)
(* call of exec_command reserves a session, opens it asynchronously (the   *)
(* history record, the working directory, the spawn) and waits for output; *)
(* the child, the timers, terminate_exec_session, write_stdin, the         *)
(* maintenance sweep and the shutdown then act on it in any order.  Every  *)
(* action below is one synchronous stretch of the event loop.              *)
(*                                                                         *)
(* A session is named by its seq number (the random session_id only has to *)
(* be unique in the Map).  Output is counted in characters; what a read,   *)
(* a search and a tail return of it is in LogQuery, over bytes.            *)
(***************************************************************************)
EXTENDS Integers, FiniteSets, FiniteSetsExt

CONSTANTS MaxSessions,  \* bound: sessions ever created
          MaxTime,      \* bound: readings of the clock
          MaxOutput,    \* bound: characters a child prints
          Ttys,         \* the sessions started with tty=true
          Escaped,      \* the sessions whose pipes outlive a SIGKILL of the group
          MaxActive,    \* exec.max_active_sessions
          MaxEnded,     \* exec.max_ended_sessions
          RetainFor,    \* exec.retained_session_ms, 0 when age does not matter
          PerSession,   \* exec.per_session_output_bytes
          Total,        \* exec.total_output_bytes
          ReadBudget    \* most characters one read returns

Sessions == 1 .. MaxSessions
Times == 0 .. MaxTime
Null == -1

ASSUME ExecAssumption == /\ MaxSessions \in Nat /\ MaxTime \in Nat /\ MaxOutput \in Nat
                         /\ Ttys \subseteq Sessions /\ Escaped \subseteq Sessions
                         /\ MaxActive \in Nat \ {0} /\ MaxEnded \in Nat \ {0}
                         /\ RetainFor \in Nat
                         /\ PerSession \in Nat \ {0} /\ Total \in Nat \ {0}
                         /\ ReadBudget \in Nat \ {0}

VARIABLES now,        \* Date.now()
          accepting,  \* this.accepting
          closing,    \* progress of close()
          draining,   \* the sessions close() waits for
          remaining,  \* what close() returned
          seq,        \* this.seq
          records,    \* the keys of this.records
          sess,       \* the lifecycle of each session
          log,        \* its output log and default cursor
          cached      \* this.cachedOutputBytes

vars == <<now, accepting, closing, draining, remaining, seq, records, sess, log, cached>>

TerminalStates == {"exited", "terminated", "timed_out", "start_failed"}
Terminal(r) == r.state \in TerminalStates
Reasons == {"timeout", "terminate"}

(* call:  the exec_command call that created the session: before the spawn,  *)
(*        in wait(), resumed by an event but not yet run, answered.          *)
(* sent:  the strongest signal handed to the child so far.                   *)
(* timer, escalation: the pending timeout and SIGKILL timers.                *)
(* reader, readAt: the exclusive write_stdin call, and its explicit cursor   *)
(*        or Null for the default one.                                       *)
(* pinned: releaseRetry has not been called.                                 *)
(* archived: the state given to history.finish(), "open" before that.        *)
Session == [state: {"unborn", "running", "terminating"} \cup TerminalStates,
            reason: Reasons \cup {"none"},
            call: {"none", "opening", "waiting", "woken", "answered"},
            handle: BOOLEAN,
            sent: {"none", "term", "kill"},
            timer: BOOLEAN,
            escalation: {"none", "armed", "fired"},
            busy: BOOLEAN,
            reader: {"idle", "waiting", "woken"},
            readAt: Nat \cup {Null},
            ended: Times \cup {Null},
            pinned: BOOLEAN,
            archived: TerminalStates \cup {"open"}]

Log == [end: Nat, from: Nat, cursor: Nat, last: Times]

LifecycleTypeOK == /\ now \in Times
                   /\ accepting \in BOOLEAN
                   /\ closing \in {"no", "draining", "archiving", "closed"}
                   /\ draining \in SUBSET Sessions
                   /\ remaining \in SUBSET Sessions
                   /\ seq \in 0 .. MaxSessions
                   /\ records \in SUBSET (1 .. seq)
                   /\ sess \in [Sessions -> Session]

TypeOK == /\ LifecycleTypeOK
          /\ log \in [Sessions -> Log]
          /\ cached \in Nat

Unborn == [state |-> "unborn", reason |-> "none", call |-> "none", handle |-> FALSE,
           sent |-> "none", timer |-> FALSE, escalation |-> "none", busy |-> FALSE,
           reader |-> "idle", readAt |-> Null, ended |-> Null, pinned |-> FALSE,
           archived |-> "open"]
Reserved == [Unborn EXCEPT !.state = "running", !.call = "opening", !.busy = TRUE,
                           !.pinned = TRUE]
EmptyLog(t) == [end |-> 0, from |-> 0, cursor |-> 0, last |-> t]

Init == /\ now = 0
        /\ accepting = TRUE
        /\ closing = "no"
        /\ draining = {}
        /\ remaining = {}
        /\ seq = 0
        /\ records = {}
        /\ sess = [s \in Sessions |-> Unborn]
        /\ log = [s \in Sessions |-> EmptyLog(0)]
        /\ cached = 0

-----------------------------------------------------------------------------
(* Output budgets                                                            *)

Larger(a, b) == IF a >= b THEN a ELSE b
Smaller(a, b) == IF a <= b THEN a ELSE b

Size(l) == l.end - l.from
SizeOf(S, lg) == MapThenSumSet(LAMBDA s : Size(lg[s]), S)

\* OutputLog.append and trimTo
Appended(l, n) == [l EXCEPT !.end = @ + n, !.from = Larger(@, l.end + n - PerSession)]
TrimmedBy(l, n) == [l EXCEPT !.from = @ + n]

\* The order in which enforceOutputBudget() takes the records.
Quieter(lg, s, t) == \/ lg[s].last < lg[t].last
                     \/ lg[s].last = lg[t].last /\ s < t

\* enforceOutputBudget() when total characters are counted for the records R: each
\* log in turn gives up what is still over the limit after the quieter ones.
Enforced(lg, R, total) ==
  [s \in Sessions |->
     IF s \in R
       THEN LET quieter == {t \in R : Quieter(lg, t, s)}
                over == total - Total - SizeOf(quieter, lg)
            IN  TrimmedBy(lg[s], Smaller(Size(lg[s]), Larger(0, over)))
       ELSE lg[s]]

-----------------------------------------------------------------------------
(* sweep(): the records it deletes, oldest end first, and the counter        *)

EvictableBusy(r) == Terminal(r)
Evictable(r) == Terminal(r) /\ ~r.busy

Older(s, t) == \/ sess[s].ended < sess[t].ended
               \/ sess[s].ended = sess[t].ended /\ s <= t

Stale(s) == RetainFor > 0 /\ now - sess[s].ended >= RetainFor

\* The early return of sweep() changes nothing: with no age limit and at most MaxEnded
\* records, no ended one is Stale or beyond the limit.
Swept == LET ended == {s \in records : Evictable(sess[s])} IN
  {s \in ended : \/ Stale(s)
                 \/ Cardinality({t \in ended : Older(t, s)}) <= Cardinality(ended) - MaxEnded}

Kept == records \ Swept
CachedKeepingSwept == cached
CachedAfterSweep == cached - SizeOf(Swept, log)

SweepNow == /\ records' = Kept
            /\ cached' = CachedAfterSweep

-----------------------------------------------------------------------------
(* Waiting: wait() re-examines its condition on every 'change' event          *)

Ready(r, l, at) == Terminal(r) \/ l.end > at \/ l.from > at
ReadPosition(r, l) == IF r.readAt = Null THEN l.cursor ELSE r.readAt

Unnoticed(r, l) == r
Woken(r, l) ==
  [r EXCEPT !.call = IF @ = "waiting" /\ Terminal(r) THEN "woken" ELSE @,
            !.reader = IF @ = "waiting" /\ Ready(r, l, ReadPosition(r, l)) THEN "woken" ELSE @]

\* Where read() leaves a cursor: bounded by the log and by the budget of the call.
ReadUpTo(l, at) == Smaller(l.end, Larger(at, l.from) + ReadBudget)

-----------------------------------------------------------------------------
(* Termination                                                               *)

SignalUnlessEnded(r, name) ==
  IF Terminal(r) \/ ~r.handle \/ r.sent = "kill" THEN r ELSE [r EXCEPT !.sent = name]

\* beginTermination(): the first reason stays; a child that is not spawned yet gets no
\* signal; a graceful request arms the escalation once.
BeginTerminationLastReason(r, force, reason) ==
  IF Terminal(r) THEN r
  ELSE LET marked == [r EXCEPT !.reason = reason, !.state = "terminating"]
           signalled == SignalUnlessEnded(marked, IF force THEN "kill" ELSE "term")
       IN  [signalled EXCEPT !.escalation = IF ~force /\ @ = "none" THEN "armed" ELSE @]
BeginTerminationPatiently(r, force, reason) ==
  IF Terminal(r) THEN r
  ELSE SignalUnlessEnded([r EXCEPT !.reason = IF @ = "none" THEN reason ELSE @,
                                   !.state = "terminating"], IF force THEN "kill" ELSE "term")
BeginTermination(r, force, reason) ==
  IF Terminal(r) THEN r
  ELSE LET marked == [r EXCEPT !.reason = IF @ = "none" THEN reason ELSE @,
                               !.state = "terminating"]
           signalled == SignalUnlessEnded(marked, IF force THEN "kill" ELSE "term")
       IN  [signalled EXCEPT !.escalation = IF ~force /\ @ = "none" THEN "armed" ELSE @]

\* The end of a session, in the 'closed' event and in the catch of exec().
Ended(r, state) == [r EXCEPT !.state = state, !.ended = now, !.handle = FALSE,
                             !.pinned = FALSE, !.archived = state]

-----------------------------------------------------------------------------
(* Actions                                                                   *)

shutdownVars == <<accepting, closing, draining, remaining>>

Update(s, r) == sess' = [sess EXCEPT ![s] = r]

ActiveWithProcess(r) == r.handle
CountsAsActive(r) == ~Terminal(r)
Active(R) == {s \in R : CountsAsActive(sess[s])}

\* The synchronous first part of exec(): the slot is reserved before anything is
\* awaited.  A refused call (SERVER_CLOSING, SESSION_LIMIT) does no more than Sweep.
Reserve(s) == /\ s \in Sessions
              /\ s = seq + 1
              /\ accepting
              /\ Cardinality(Active(Kept)) < MaxActive
              /\ seq' = s
              /\ records' = Kept \cup {s}
              /\ cached' = CachedAfterSweep
              /\ Update(s, Reserved)
              /\ log' = [log EXCEPT ![s] = EmptyLog(now)]
              /\ UNCHANGED <<now, shutdownVars>>

\* history.start() or the working directory fails, or the spawn throws: the catch of
\* exec().  It also ends a session that terminate or close() has marked meanwhile.
StartFails(s) == /\ sess[s].call = "opening"
                 /\ Update(s, Woken([Ended(sess[s], "start_failed") EXCEPT !.call = "waiting"],
                                     log[s]))
                 /\ UNCHANGED <<now, shutdownVars, seq, records, log, cached>>

\* The child is spawned.  A termination or a shutdown requested during the awaits had
\* no child to signal, so it is carried out now, by force.
MustDieAtOnce(r) == ~accepting \/ r.reason # "none"
Spawn(s, timed) ==
  /\ sess[s].call = "opening"
  /\ LET spawned == [sess[s] EXCEPT !.handle = TRUE, !.call = "waiting"]
         checked == IF MustDieAtOnce(spawned)
                      THEN BeginTermination(spawned, TRUE, "terminate") ELSE spawned
     IN  Update(s, Woken([checked EXCEPT !.timer = timed /\ checked.reason = "none"], log[s]))
  /\ UNCHANGED <<now, shutdownVars, seq, records, log, cached>>

WokenOnly(r) == r.call = "woken"
Resumable(r) == r.call \in {"waiting", "woken"}

\* exec() resumes, by an event or because yield_time_ms is over: read() moves the
\* default cursor and the finally clears busy.
ExecReply(s) == /\ Resumable(sess[s])
                /\ Update(s, [sess[s] EXCEPT !.call = "answered", !.busy = FALSE])
                /\ log' = [log EXCEPT ![s].cursor = ReadUpTo(log[s], @)]
                /\ UNCHANGED <<now, shutdownVars, seq, records, cached>>

\* The 'output' event of a live child, n characters.
Output(s, n) ==
  /\ sess[s].handle
  /\ log[s].end + n <= MaxOutput
  /\ LET grown == [log EXCEPT ![s] = [Appended(@, n) EXCEPT !.last = now]]
         counted == cached + Size(grown[s]) - Size(log[s])
     IN  /\ log' = Enforced(grown, records, counted)
         /\ cached' = counted - (SizeOf(records, grown) - SizeOf(records, log'))
         /\ Update(s, Woken(sess[s], log'[s]))
  /\ UNCHANGED <<now, shutdownVars, seq, records>>

\* The 'closed' event: the child is gone and its output is drained.
FinalState(r, faulty) == IF faulty THEN "start_failed"
                         ELSE IF r.reason = "timeout" THEN "timed_out"
                         ELSE IF r.reason = "terminate" THEN "terminated"
                         ELSE "exited"
Closed(s, faulty) ==
  /\ sess[s].handle
  /\ LET r == Ended(sess[s], FinalState(sess[s], faulty))
     IN  Update(s, Woken([r EXCEPT !.timer = FALSE,
                                   !.escalation = IF @ = "armed" THEN "fired" ELSE @], log[s]))
  /\ UNCHANGED <<now, shutdownVars, seq, records, log, cached>>

TimeoutFires(s) == /\ sess[s].timer
                   /\ Update(s, [BeginTermination(sess[s], FALSE, "timeout") EXCEPT !.timer = FALSE])
                   /\ UNCHANGED <<now, shutdownVars, seq, records, log, cached>>

EscalationFires(s) == /\ sess[s].escalation = "armed"
                      /\ Update(s, [SignalUnlessEnded(sess[s], "kill") EXCEPT !.escalation = "fired"])
                      /\ UNCHANGED <<now, shutdownVars, seq, records, log, cached>>

\* terminate(): its wait and its answer change nothing.
Terminate(s, force) == /\ s \in Kept
                       /\ Update(s, BeginTermination(sess[s], force, "terminate"))
                       /\ SweepNow
                       /\ UNCHANGED <<now, shutdownVars, seq, log>>

\* An exclusive write_stdin: a default-cursor poll (at = Null), or input, which may name
\* a cursor and needs a live terminal.  A refused call does no more than Sweep, and so
\* does a poll with an explicit cursor, a tail or a search.
FreeForWriting(r) == ~r.busy
WriteBegins(s, at, input) ==
  /\ s \in Kept
  /\ FreeForWriting(sess[s])
  /\ at # Null => input
  /\ input => s \in Ttys /\ sess[s].handle
  /\ Update(s, Woken([sess[s] EXCEPT !.busy = TRUE, !.reader = "waiting", !.readAt = at], log[s]))
  /\ SweepNow
  /\ UNCHANGED <<now, shutdownVars, seq, log>>

\* It resumes, by an event or at the end of its yield time.
WriteReply(s) == /\ sess[s].reader # "idle"
                 /\ Update(s, [sess[s] EXCEPT !.reader = "idle", !.readAt = Null, !.busy = FALSE])
                 /\ log' = IF sess[s].readAt = Null
                             THEN [log EXCEPT ![s].cursor = ReadUpTo(log[s], @)] ELSE log
                 /\ UNCHANGED <<now, shutdownVars, seq, records, cached>>

\* The maintenance timer until close() clears it, and list() at any time.
Sweep == /\ SweepNow
         /\ UNCHANGED <<now, shutdownVars, seq, sess, log>>

\* close(), up to its wait.
Close == /\ closing = "no"
         /\ closing' = "draining"
         /\ accepting' = FALSE
         /\ draining' = Active(records)
         /\ sess' = [s \in Sessions |-> IF s \in Active(records)
                                          THEN BeginTermination(sess[s], FALSE, "terminate")
                                          ELSE sess[s]]
         /\ UNCHANGED <<now, remaining, seq, records, log, cached>>

\* The wait ends with the last session, or after the grace period and 1.5 s: by then
\* every escalation armed no later than the wait itself has fired.
DrainOver == \A s \in draining : Terminal(sess[s]) \/ sess[s].escalation # "armed"
CloseDrained == /\ closing = "draining"
                /\ DrainOver
                /\ closing' = "archiving"
                /\ UNCHANGED <<now, accepting, draining, remaining, seq, records, sess, log, cached>>

\* history.close() has resolved.
CloseReturns == /\ closing = "archiving"
                /\ closing' = "closed"
                /\ remaining' = {s \in draining : ~Terminal(sess[s])}
                /\ UNCHANGED <<now, accepting, draining, seq, records, sess, log, cached>>

Tick == /\ now < MaxTime
        /\ now' = now + 1
        /\ UNCHANGED <<shutdownVars, seq, records, sess, log, cached>>

SessionStep(s) == \/ Reserve(s)
                  \/ StartFails(s)
                  \/ \E timed \in BOOLEAN : Spawn(s, timed)
                  \/ ExecReply(s)
                  \/ \E n \in 1 .. MaxOutput : Output(s, n)
                  \/ \E faulty \in BOOLEAN : Closed(s, faulty)
                  \/ TimeoutFires(s)
                  \/ EscalationFires(s)
                  \/ \E force \in BOOLEAN : Terminate(s, force)
                  \/ \E at \in 0 .. log[s].end \cup {Null}, input \in BOOLEAN : WriteBegins(s, at, input)
                  \/ WriteReply(s)

Next == \/ \E s \in Sessions : SessionStep(s)
        \/ Sweep
        \/ Close
        \/ CloseDrained
        \/ CloseReturns
        \/ Tick

Spec == Init /\ [][Next]_vars

-----------------------------------------------------------------------------
(* The steps that scheduling guarantees (Server): awaited file operations and  *)
(* spawns resolve, and a child that got SIGKILL goes away, unless it is one of *)
(* Escaped, whose pipes a process outside its group keeps open.                *)
Opened(s) == StartFails(s) \/ \E timed \in BOOLEAN : Spawn(s, timed)
Reaped(s) == sess[s].sent = "kill" /\ \E faulty \in BOOLEAN : Closed(s, faulty)

-----------------------------------------------------------------------------
Pending(r) == r.call \in {"opening", "waiting", "woken"}

(* The limit on active sessions holds for children and for calls still on    *)
(* their way to a spawn: concurrent starts cannot pass it together (the slot *)
(* is reserved before any await).                                            *)
ProcessLimit ==
  Cardinality({s \in Sessions : sess[s].handle \/ sess[s].call = "opening"}) <= MaxActive

(* No sweep loses a child or a call: whatever has a live process, a pending   *)
(* exec_command or an exclusive write_stdin is still in the records, and a    *)
(* session with a process is never shown as ended.                            *)
InUseIsKept ==
  \A s \in Sessions :
    /\ sess[s].handle \/ Pending(sess[s]) \/ sess[s].reader # "idle" => s \in records
    /\ sess[s].handle => ~Terminal(sess[s])

(* The first reason to end a session decides what it says for good: a timeout,*)
(* terminate calls and the shutdown race for it, a late one changes neither   *)
(* the reason nor the verdict, and what has ended stays as it ended.          *)
Verdict(reason) == CASE reason = "timeout" -> "timed_out"
                     [] reason = "terminate" -> "terminated"
                     [] OTHER -> "exited"
FirstReasonDecides ==
  [][\A s \in Sessions : LET r == sess[s] q == sess'[s] IN
       /\ r.reason # "none" => q.reason = r.reason
       /\ Terminal(q) => q.state \in {"start_failed", Verdict(q.reason)}
       /\ Terminal(r) => /\ q.state = r.state /\ q.reason = r.reason
                        /\ q.ended = r.ended /\ q.archived = r.archived
                        /\ ~q.handle]_vars

(* No lost wake-up: a call sleeps in wait() only while what it waits for has   *)
(* not happened, although only events re-examine the condition and the total  *)
(* budget trims logs without an event.                                        *)
NoLostWakeup ==
  \A s \in Sessions :
    /\ sess[s].call = "waiting" => ~Terminal(sess[s])
    /\ sess[s].reader = "waiting" => ~Ready(sess[s], log[s], ReadPosition(sess[s], log[s]))

(* The incremental byte counter is the size of the retained logs, through     *)
(* appends, trims of other sessions and evictions, and so neither a log nor    *)
(* all of them together exceed their limit.                                    *)
OutputIsAccounted == /\ cached = SizeOf(records, log)
                     /\ \A s \in Sessions : Size(log[s]) <= PerSession
                     /\ cached <= Total
=============================================================================
