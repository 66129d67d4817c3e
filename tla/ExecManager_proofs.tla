-------------------------- MODULE ExecManager_proofs --------------------------
(***************************************************************************)
(* Proofs about ExecManager, for every number of sessions, every limit and  *)
(* every length of the output and of the run.                               *)
(***************************************************************************)
EXTENDS ExecManager, FiniteSetTheorems, WellFoundedInduction, TLAPS

(* What the record of a session says by itself.  Only a session that is not  *)
(* over has a child or is on its way to one; busy is exactly "a call is in    *)
(* wait() or before it"; the verdict is the one of the first reason; and an   *)
(* escalation that has fired has left its child with SIGKILL.                 *)
RecordOK(r) ==
  /\ r \in Session
  /\ r.state = "unborn" => r = Unborn
  /\ r.handle => ~Terminal(r) /\ r.call # "opening"
  /\ r.call = "opening" => ~Terminal(r)
  /\ r.busy <=> Pending(r) \/ r.reader # "idle"
  /\ Pending(r) => r.reader = "idle"
  /\ Terminal(r) => r.state \in {"start_failed", Verdict(r.reason)}
  /\ r.call = "waiting" => ~Terminal(r)
  /\ r.escalation # "none" => r.reason # "none"
  /\ r.escalation = "fired" /\ r.handle => r.sent = "kill"

(* A session in use is on record: a sweep took only what is over and idle.   *)
SessionOK(s) == /\ RecordOK(sess[s])
                /\ s \in 1 .. seq <=> sess[s].state # "unborn"
                /\ s \in 1 .. seq /\ s \notin records => Evictable(sess[s])

(* What the shutdown knows: nothing starts any more, it waits for everyone    *)
(* who was not over, and everyone it waits for is being ended for a reason    *)
(* that has an escalation.                                                    *)
ClosingOK == /\ accepting <=> closing = "no"
             /\ closing # "no" =>
                  \A s \in 1 .. seq : ~Terminal(sess[s]) =>
                    s \in draining /\ sess[s].escalation # "none"
             /\ closing \in {"archiving", "closed"} =>
                  \A s \in 1 .. seq : Terminal(sess[s]) \/ sess[s].escalation # "armed"
             /\ closing = "closed" => \A s \in 1 .. seq : Terminal(sess[s]) \/ s \in remaining

(* The lifecycle part of the inductive invariant.                            *)
Lifecycle == /\ LifecycleTypeOK
             /\ \A s \in Sessions : SessionOK(s)
             /\ Cardinality(Active(records)) <= MaxActive
             /\ ClosingOK

(* The part about output: logs keep what they count, a reader sleeps only     *)
(* while there is nothing for it, and the counter is the sum of the logs.      *)
LogOK(l) == /\ l.from <= l.end
            /\ Size(l) <= PerSession

Asleep(s) == sess[s].reader = "waiting" => ~Ready(sess[s], log[s], ReadPosition(sess[s], log[s]))

OutputInv == /\ log \in [Sessions -> Log]
             /\ \A s \in Sessions : LogOK(log[s]) /\ Asleep(s)
             /\ cached = SizeOf(records, log)
             /\ cached <= Total

IInv == Lifecycle /\ OutputInv

-----------------------------------------------------------------------------
(* Records                                                                   *)

LEMMA UnbornOK == RecordOK(Unborn) /\ RecordOK(Reserved)
BY ExecAssumption DEF RecordOK, Unborn, Reserved, Session, Terminal, TerminalStates, Pending, Null, Times, Reasons

(* What a step may do to the record of a session that exists: the first      *)
(* reason stays, an end is for good, an escalation only fires.                *)
Evolves(r, q) ==
  /\ RecordOK(q)
  /\ q.state # "unborn"
  /\ r.reason # "none" => q.reason = r.reason
  /\ Terminal(r) => /\ q.state = r.state /\ q.reason = r.reason
                   /\ q.ended = r.ended /\ q.archived = r.archived
                   /\ ~q.handle
  /\ r.escalation # "none" => q.escalation \in {r.escalation, "fired"}

(* What a step shows of a session to whoever waits for its call or for its    *)
(* command: nothing, the end of the command, or the answer of the call.       *)
Alike(r, q) == (Pending(q) <=> Pending(r)) /\ (Terminal(q) <=> Terminal(r))
Ends(r, q) == /\ ~Terminal(r) /\ r.state # "unborn" /\ Terminal(q) /\ q.ended = now
              /\ Pending(q) <=> Pending(r)
Answers(r, q) == Pending(r) /\ ~Pending(q) /\ (Terminal(q) <=> Terminal(r))

USE DEF Terminal, TerminalStates, Reasons

LEMMA SignalEvolves ==
  ASSUME NEW r, RecordOK(r), r.state # "unborn", NEW name \in {"term", "kill"},
         name = "term" => r.escalation # "fired"
  PROVE  /\ Evolves(r, SignalUnlessEnded(r, name))
         /\ SignalUnlessEnded(r, name) = [r EXCEPT !.sent = SignalUnlessEnded(r, name).sent]
         /\ SignalUnlessEnded(r, name).sent \in {r.sent, name}
         /\ name = "kill" /\ r.handle => SignalUnlessEnded(r, name).sent = "kill"
<1> DEFINE q == SignalUnlessEnded(r, name)
<1>1. CASE Terminal(r) \/ ~r.handle \/ r.sent = "kill"
  BY <1>1 DEF SignalUnlessEnded, Evolves, RecordOK, Session
<1>2. CASE ~(Terminal(r) \/ ~r.handle \/ r.sent = "kill")
  <2>1. q = [r EXCEPT !.sent = name]
    BY <1>2 DEF SignalUnlessEnded
  <2> QED BY <2>1, <1>2 DEF Evolves, RecordOK, Session, Pending, Verdict
<1> QED BY <1>1, <1>2

LEMMA BeginTerminationFields ==
  ASSUME NEW r \in Session, ~Terminal(r), NEW force \in BOOLEAN, NEW reason \in Reasons
  PROVE  LET q == BeginTermination(r, force, reason) IN
         /\ q \in Session /\ q.state = "terminating"
         /\ q.handle = r.handle /\ q.call = r.call /\ q.busy = r.busy
         /\ q.reader = r.reader /\ q.readAt = r.readAt
         /\ q.reason = IF r.reason = "none" THEN reason ELSE r.reason
         /\ q.escalation = IF ~force /\ r.escalation = "none" THEN "armed" ELSE r.escalation
         /\ r.sent = "kill" => q.sent = "kill"
         /\ force /\ r.handle => q.sent = "kill"
<1> DEFINE q == BeginTermination(r, force, reason)
<1>1. PICK why \in Reasons : why = IF r.reason = "none" THEN reason ELSE r.reason
  BY DEF Session
<1>2. PICK sent \in {"none", "term", "kill"} :
         /\ SignalUnlessEnded([r EXCEPT !.reason = why, !.state = "terminating"],
                              IF force THEN "kill" ELSE "term")
            = [r EXCEPT !.reason = why, !.state = "terminating", !.sent = sent]
         /\ r.sent = "kill" => sent = "kill"
         /\ force /\ r.handle => sent = "kill"
  <2> DEFINE m == [r EXCEPT !.reason = why, !.state = "terminating"]
             name == IF force THEN "kill" ELSE "term"
  <2>1. /\ m.state = "terminating" /\ m.handle = r.handle /\ m.sent = r.sent
        /\ r.sent \in {"none", "term", "kill"}
        /\ m = [r EXCEPT !.reason = why, !.state = "terminating", !.sent = r.sent]
    BY DEF Session
  <2>2. CASE ~r.handle \/ r.sent = "kill"
    <3>1. SignalUnlessEnded(m, name) = m
      BY <2>1, <2>2 DEF SignalUnlessEnded
    <3> QED BY <2>1, <2>2, <3>1
  <2>3. CASE ~(~r.handle \/ r.sent = "kill")
    <3>1. SignalUnlessEnded(m, name) = [m EXCEPT !.sent = name]
      BY <2>1, <2>3 DEF SignalUnlessEnded
    <3>2. [m EXCEPT !.sent = name] = [r EXCEPT !.reason = why, !.state = "terminating", !.sent = name]
      BY DEF Session
    <3> QED BY <2>1, <2>3, <3>1, <3>2
  <2> QED BY <2>2, <2>3
<1>3. PICK esc \in {"none", "armed", "fired"} :
        esc = IF ~force /\ r.escalation = "none" THEN "armed" ELSE r.escalation
  BY DEF Session
<1>4. q = [r EXCEPT !.reason = why, !.state = "terminating", !.sent = sent, !.escalation = esc]
  <2>1. q = [[r EXCEPT !.reason = why, !.state = "terminating", !.sent = sent]
               EXCEPT !.escalation = IF ~force /\ @ = "none" THEN "armed" ELSE @]
    BY <1>1, <1>2 DEF BeginTermination
  <2>2. [r EXCEPT !.reason = why, !.state = "terminating", !.sent = sent].escalation = r.escalation
    BY DEF Session
  <2>3. q = [[r EXCEPT !.reason = why, !.state = "terminating", !.sent = sent]
               EXCEPT !.escalation = esc]
    BY <2>1, <2>2, <1>3
  <2> HIDE DEF q
  <2> QED BY <2>3 DEF Session
<1> HIDE DEF q
<1>5. /\ q \in Session /\ q.state = "terminating" /\ q.reason = why /\ q.sent = sent
      /\ q.escalation = esc /\ q.handle = r.handle /\ q.call = r.call /\ q.busy = r.busy
      /\ q.reader = r.reader /\ q.readAt = r.readAt
  BY <1>4 DEF Session
<1> QED BY <1>1, <1>2, <1>3, <1>5 DEF q

LEMMA BeginTerminationEvolves ==
  ASSUME NEW r, RecordOK(r), r.state # "unborn", NEW force \in BOOLEAN, NEW reason \in Reasons
  PROVE  LET q == BeginTermination(r, force, reason) IN
         /\ Evolves(r, q)
         /\ q.busy = r.busy /\ q.call = r.call /\ q.reader = r.reader /\ q.readAt = r.readAt
         /\ Terminal(q) <=> Terminal(r)
         /\ ~Terminal(r) /\ ~force => q.escalation # "none"
<1> DEFINE q == BeginTermination(r, force, reason)
<1>1. CASE Terminal(r)
  BY <1>1 DEF BeginTermination, Evolves, RecordOK
<1>2. CASE ~Terminal(r)
  <2>1. /\ q \in Session /\ q.state = "terminating"
        /\ q.handle = r.handle /\ q.call = r.call /\ q.busy = r.busy
        /\ q.reader = r.reader /\ q.readAt = r.readAt
        /\ q.reason = IF r.reason = "none" THEN reason ELSE r.reason
        /\ q.escalation = IF ~force /\ r.escalation = "none" THEN "armed" ELSE r.escalation
        /\ r.sent = "kill" => q.sent = "kill"
    BY <1>2, BeginTerminationFields DEF RecordOK
  <2> HIDE DEF q
  <2>2. RecordOK(q)
    BY <1>2, <2>1 DEF RecordOK, Pending
  <2>3. Evolves(r, q)
    BY <1>2, <2>1, <2>2 DEF Evolves
  <2> QED BY <1>2, <2>1, <2>3 DEF q
<1> QED BY <1>1, <1>2

\* A wake-up is all that Woken does, and it leaves nobody asleep who should not be.
LEMMA WokenEvolves ==
  ASSUME NEW r, r \in Session, NEW l
  PROVE  LET q == Woken(r, l) IN
         /\ q \in Session
         /\ q.state = r.state /\ q.reason = r.reason /\ q.handle = r.handle /\ q.sent = r.sent
         /\ q.escalation = r.escalation /\ q.busy = r.busy /\ q.readAt = r.readAt
         /\ q.ended = r.ended /\ q.archived = r.archived
         /\ q.call = IF r.call = "waiting" /\ Terminal(r) THEN "woken" ELSE r.call
         /\ q.reader \in {r.reader, "woken"}
         /\ q.reader = "idle" <=> r.reader = "idle"
         /\ q.reader = "waiting" => ~Ready(q, l, ReadPosition(q, l))
<1>1. PICK call \in {"none", "opening", "waiting", "woken", "answered"} :
        call = IF r.call = "waiting" /\ Terminal(r) THEN "woken" ELSE r.call
  BY DEF Session
<1>2. PICK reader \in {"idle", "waiting", "woken"} :
        reader = IF r.reader = "waiting" /\ Ready(r, l, ReadPosition(r, l)) THEN "woken" ELSE r.reader
  BY DEF Session
<1>3. Woken(r, l) = [r EXCEPT !.call = call, !.reader = reader]
  BY <1>1, <1>2 DEF Woken
<1> DEFINE q == Woken(r, l)
<1> HIDE DEF q
<1>4. q = [r EXCEPT !.call = call, !.reader = reader]
  BY <1>3 DEF q
<1>5. /\ q.call = call /\ q.reader = reader /\ q \in Session
      /\ q.state = r.state /\ q.reason = r.reason /\ q.handle = r.handle /\ q.sent = r.sent
      /\ q.escalation = r.escalation /\ q.busy = r.busy /\ q.readAt = r.readAt
      /\ q.ended = r.ended /\ q.archived = r.archived
  BY <1>4 DEF Session
<1>6. Ready(q, l, ReadPosition(q, l)) <=> Ready(r, l, ReadPosition(r, l))
  BY <1>5 DEF Ready, ReadPosition
<1>7. q.reader = "waiting" => ~Ready(q, l, ReadPosition(q, l))
  BY <1>2, <1>5, <1>6
<1> QED BY <1>1, <1>2, <1>5, <1>7 DEF q

-----------------------------------------------------------------------------
(* Steps                                                                     *)

\* What is not over is never swept.
LEMMA SweptIsOver ==
  /\ Swept \subseteq records /\ Kept \subseteq records
  /\ \A s \in records \ Kept : Evictable(sess[s])
BY DEF Swept, Kept

LEMMA ActiveOfKept == Active(Kept) = Active(records)
BY SweptIsOver DEF Active, CountsAsActive, Evictable

LEMMA ActiveIsFinite ==
  ASSUME NEW R, R \in SUBSET (1 .. seq), seq \in Nat
  PROVE  IsFiniteSet(Active(R))
<1>1. IsFiniteSet(1 .. seq)
  BY FS_Interval
<1>2. Active(R) \in SUBSET (1 .. seq)
  BY DEF Active
<1> QED BY <1>1, <1>2, FS_Subset

\* A step that changes one record, of a session that exists, and may sweep.
LEMMA OneSessionStep ==
  ASSUME Lifecycle, NEW s \in Sessions, sess[s].state # "unborn",
         NEW q, Evolves(sess[s], q), Update(s, q),
         UNCHANGED <<now, accepting, closing, draining, remaining, seq>>,
         records' = records \/ records' = Kept,
         s \in records' \/ q.busy = sess[s].busy
  PROVE  Lifecycle'
<1> USE ExecAssumption
<1>1. /\ sess'[s] = q /\ RecordOK(q)
      /\ \A t \in Sessions \ {s} : sess'[t] = sess[t]
      /\ sess' \in [Sessions -> Session]
  BY DEF Lifecycle, LifecycleTypeOK, Update, Evolves, RecordOK
<1>2. records' \subseteq records /\ \A t \in records \ records' : Evictable(sess[t])
  BY SweptIsOver
<1>3. LifecycleTypeOK'
  BY <1>1, <1>2 DEF Lifecycle, LifecycleTypeOK
<1>4. \A t \in Sessions : SessionOK(t)'
  <2> SUFFICES ASSUME NEW t \in Sessions PROVE SessionOK(t)'
    OBVIOUS
  <2>1. SessionOK(t) /\ SessionOK(s)
    BY DEF Lifecycle
  <2>2. CASE t # s
    BY <1>1, <1>2, <2>1, <2>2 DEF SessionOK
  <2>3. CASE t = s
    <3>1. s \notin records' => Evictable(q)
      BY <1>2, <2>1 DEF SessionOK, Evictable, Evolves
    <3> QED BY <1>1, <2>1, <2>3, <3>1 DEF SessionOK, Evolves
  <2> QED BY <2>2, <2>3
<1>5. Cardinality(Active(records))' <= MaxActive
  <2>1. Active(records)' \in SUBSET Active(records)
    <3>1. \A t \in records' : t \in Sessions /\ t \in records
      BY <1>2 DEF Lifecycle, LifecycleTypeOK, Sessions
    <3>2. \A t \in records' : CountsAsActive(sess'[t]) => CountsAsActive(sess[t])
      BY <1>1, <3>1 DEF CountsAsActive, Evolves
    <3> QED BY <3>1, <3>2 DEF Active
  <2>2. IsFiniteSet(Active(records)) /\ seq \in Nat
    BY ActiveIsFinite DEF Lifecycle, LifecycleTypeOK
  <2>3. /\ Cardinality(Active(records)') <= Cardinality(Active(records))
        /\ Cardinality(Active(records)') \in Nat /\ Cardinality(Active(records)) \in Nat
    BY <2>1, <2>2, FS_Subset, FS_CardinalityType
  <2> QED BY <2>3 DEF Lifecycle
<1>6. ClosingOK'
  <2>1. \A t \in 1 .. seq : t \in Sessions
    BY DEF Lifecycle, LifecycleTypeOK, Sessions
  <2> QED BY <1>1, <2>1 DEF Lifecycle, ClosingOK, Evolves, LifecycleTypeOK, RecordOK, Session
<1> QED BY <1>3, <1>4, <1>5, <1>6 DEF Lifecycle

\* A step that leaves the sessions and the shutdown alone.
LEMMA OutsideStep ==
  ASSUME Lifecycle, UNCHANGED <<accepting, closing, draining, remaining, seq, sess>>,
         now' \in Times, records' = records \/ records' = Kept
  PROVE  Lifecycle'
<1>1. records' \subseteq records /\ \A t \in records \ records' : Evictable(sess[t])
  BY SweptIsOver
<1>2. LifecycleTypeOK'
  BY <1>1 DEF Lifecycle, LifecycleTypeOK
<1>3. \A t \in Sessions : SessionOK(t)'
  BY <1>1 DEF Lifecycle, SessionOK
<1>4. Active(records)' = Active(records)
  <2>1. sess' = sess
    OBVIOUS
  <2>2. \A t : t \in Active(records)' <=> t \in Active(records)
    BY <1>1, <2>1 DEF Active, CountsAsActive, Evictable
  <2> QED BY <2>2
<1>5. ClosingOK'
  BY DEF Lifecycle, ClosingOK
<1> QED BY <1>2, <1>3, <1>4, <1>5 DEF Lifecycle

\* exec() up to its first await: the slot is taken before anything else can run.
LEMMA ReserveLifecycle ==
  ASSUME Lifecycle, NEW s \in Sessions, Reserve(s)
  PROVE  Lifecycle'
<1> USE ExecAssumption
<1>1. /\ s = seq + 1 /\ seq' = s /\ seq \in Nat /\ s \in 1 .. s
      /\ records' = Kept \cup {s} /\ Kept \subseteq records
      /\ sess' = [sess EXCEPT ![s] = Reserved]
      /\ UNCHANGED <<now, accepting, closing, draining, remaining>> /\ closing = "no"
  BY SweptIsOver DEF Reserve, Update, Lifecycle, ClosingOK, LifecycleTypeOK, Sessions, shutdownVars
<1>2. /\ sess'[s] = Reserved /\ sess' \in [Sessions -> Session]
      /\ \A t \in Sessions \ {s} : sess'[t] = sess[t]
  BY <1>1, UnbornOK DEF Lifecycle, LifecycleTypeOK, RecordOK
<1>3. LifecycleTypeOK'
  <2>1. records' \in SUBSET (1 .. seq')
    BY <1>1 DEF Lifecycle, LifecycleTypeOK
  <2> QED BY <1>1, <1>2, <2>1 DEF Lifecycle, LifecycleTypeOK, Sessions
<1>4. \A t \in Sessions : SessionOK(t)'
  <2> SUFFICES ASSUME NEW t \in Sessions PROVE SessionOK(t)'
    OBVIOUS
  <2>1. CASE t = s
    BY <1>1, <1>2, <2>1, UnbornOK DEF SessionOK, Reserved, Unborn
  <2>2. CASE t # s
    <3>1. t \in 1 .. seq' <=> t \in 1 .. seq
      BY <1>1, <2>2 DEF Sessions
    <3>2. SessionOK(t) /\ sess'[t] = sess[t]
      BY <1>2, <2>2 DEF Lifecycle
    <3>3. t \in records /\ t \notin records' => Evictable(sess[t])
      BY <1>1, SweptIsOver
    <3>4. t \in records' => t \in records
      BY <1>1, <2>2
    <3> QED BY <3>1, <3>2, <3>3, <3>4 DEF SessionOK
  <2> QED BY <2>1, <2>2
<1>5. Cardinality(Active(records))' <= MaxActive
  <2>1. Active(records)' \subseteq Active(Kept) \cup {s}
    BY <1>1, <1>2 DEF Active, CountsAsActive, Lifecycle, LifecycleTypeOK, Sessions
  <2>2. IsFiniteSet(Active(Kept)) /\ Cardinality(Active(Kept)) \in Nat
    BY <1>1, ActiveIsFinite, FS_CardinalityType DEF Lifecycle, LifecycleTypeOK
  <2>3. /\ IsFiniteSet(Active(Kept) \cup {s})
        /\ Cardinality(Active(Kept) \cup {s}) \in Nat
        /\ Cardinality(Active(Kept) \cup {s}) <= Cardinality(Active(Kept)) + 1
    BY <2>2, FS_AddElement, FS_CardinalityType
  <2>4. /\ Cardinality(Active(records)') \in Nat
        /\ Cardinality(Active(records)') <= Cardinality(Active(Kept) \cup {s})
    BY <2>1, <2>3, FS_Subset, FS_CardinalityType
  <2>5. Cardinality(Active(Kept)) < MaxActive
    BY DEF Reserve
  <2> QED BY <2>2, <2>3, <2>4, <2>5
<1>6. ClosingOK'
  BY <1>1 DEF Lifecycle, ClosingOK
<1> QED BY <1>3, <1>4, <1>5, <1>6 DEF Lifecycle

\* The end of a session.
LEMMA EndedOK ==
  ASSUME NEW r \in Session, NEW state \in TerminalStates, now \in Times
  PROVE  LET q == Ended(r, state) IN
         /\ q \in Session /\ q.state = state /\ q.handle = FALSE /\ q.ended = now
         /\ q.reason = r.reason /\ q.call = r.call /\ q.busy = r.busy /\ q.reader = r.reader
         /\ q.escalation = r.escalation
<1> DEFINE q == Ended(r, state)
<1>1. q = [r EXCEPT !.state = state, !.ended = now, !.handle = FALSE,
                   !.pinned = FALSE, !.archived = state]
  BY DEF Ended
<1> HIDE DEF q
<1>2. /\ q.state = state /\ q.handle = FALSE /\ q.ended = now /\ q.pinned = FALSE
      /\ q.archived = state
      /\ q.reason = r.reason /\ q.call = r.call /\ q.busy = r.busy /\ q.reader = r.reader
      /\ q.escalation = r.escalation /\ q.sent = r.sent /\ q.timer = r.timer
      /\ q.readAt = r.readAt
  BY <1>1 DEF Session
<1>3. q = [state |-> q.state, reason |-> q.reason, call |-> q.call, handle |-> q.handle,
           sent |-> q.sent, timer |-> q.timer, escalation |-> q.escalation, busy |-> q.busy,
           reader |-> q.reader, readAt |-> q.readAt, ended |-> q.ended,
           pinned |-> q.pinned, archived |-> q.archived]
  BY <1>1 DEF Session
<1>4. q \in Session
  BY <1>2, <1>3 DEF Session
<1> QED BY <1>2, <1>4 DEF q

LEMMA StartFailsLifecycle ==
  ASSUME Lifecycle, NEW s \in Sessions, StartFails(s)
  PROVE  Lifecycle' /\ Evolves(sess[s], sess'[s]) /\ Ends(sess[s], sess'[s])
<1> DEFINE r == sess[s]
           e == Ended(r, "start_failed")
           w == [e EXCEPT !.call = "waiting"]
           q == Woken(w, log[s])
<1>1. /\ RecordOK(r) /\ r.call = "opening" /\ ~Terminal(r) /\ r.state # "unborn"
      /\ now \in Times /\ sess \in [Sessions -> Session]
  BY DEF Lifecycle, LifecycleTypeOK, SessionOK, RecordOK, StartFails, Unborn
<1>2. Update(s, q) /\ UNCHANGED <<now, accepting, closing, draining, remaining, seq, records>>
  BY DEF StartFails, shutdownVars
<1>3. /\ e \in Session /\ Terminal(e) /\ e.state = "start_failed" /\ ~e.handle /\ e.ended = now
      /\ e.reason = r.reason /\ e.busy = r.busy /\ e.reader = r.reader
      /\ e.escalation = r.escalation
  BY <1>1, EndedOK
<1> HIDE DEF r, e
<1>4. /\ w \in Session /\ w.call = "waiting" /\ w.state = "start_failed" /\ ~w.handle /\ w.ended = now
      /\ w.reason = r.reason /\ w.busy = r.busy /\ w.reader = r.reader
      /\ w.escalation = r.escalation
  BY <1>3 DEF Session
<1> HIDE DEF w
<1>5. /\ q \in Session /\ q.state = w.state /\ q.reason = w.reason /\ q.handle = w.handle
      /\ q.escalation = w.escalation /\ q.busy = w.busy /\ q.ended = w.ended
      /\ q.call = "woken" /\ (q.reader = "idle" <=> w.reader = "idle")
  BY <1>4, WokenEvolves
<1> HIDE DEF q
<1>6. /\ q.state = "start_failed" /\ ~q.handle
      /\ q.reason = r.reason /\ q.busy = r.busy
      /\ q.escalation = r.escalation
  BY <1>4, <1>5
<1>7. RecordOK(q)
  BY <1>1, <1>4, <1>5, <1>6 DEF RecordOK, Pending
<1>8. Evolves(r, q)
  BY <1>1, <1>6, <1>7 DEF Evolves
<1>9. sess'[s] = q
  BY <1>1, <1>2 DEF Update
<1>10. Ends(r, q)
  BY <1>1, <1>4, <1>5, <1>6 DEF Ends, Pending
<1> QED BY <1>1, <1>2, <1>6, <1>8, <1>9, <1>10, OneSessionStep DEF r

LEMMA SpawnLifecycle ==
  ASSUME Lifecycle, NEW s \in Sessions, NEW timed \in BOOLEAN, Spawn(s, timed)
  PROVE  Lifecycle' /\ Evolves(sess[s], sess'[s]) /\ Alike(sess[s], sess'[s])
<1> DEFINE r == sess[s]
           spawned == [r EXCEPT !.handle = TRUE, !.call = "waiting"]
           checked == IF MustDieAtOnce(spawned)
                        THEN BeginTermination(spawned, TRUE, "terminate") ELSE spawned
           w == [checked EXCEPT !.timer = timed /\ checked.reason = "none"]
           q == Woken(w, log[s])
<1>1. /\ RecordOK(r) /\ r.call = "opening" /\ ~Terminal(r) /\ r.state # "unborn"
      /\ sess \in [Sessions -> Session]
  BY DEF Lifecycle, LifecycleTypeOK, SessionOK, RecordOK, Spawn, Unborn
<1>2. Update(s, q) /\ UNCHANGED <<now, accepting, closing, draining, remaining, seq, records>>
  BY DEF Spawn, shutdownVars
<1>3. /\ spawned \in Session /\ spawned.handle /\ spawned.call = "waiting"
      /\ spawned.state = r.state /\ spawned.reason = r.reason /\ spawned.busy = r.busy
      /\ spawned.reader = r.reader /\ spawned.escalation = r.escalation
  BY <1>1 DEF RecordOK, Session
<1> HIDE DEF r, spawned
<1>4. /\ checked \in Session /\ checked.handle /\ checked.call = "waiting"
      /\ checked.state \in {r.state, "terminating"}
      /\ r.reason # "none" => checked.reason = r.reason /\ checked.sent = "kill"
      /\ checked.busy = r.busy /\ checked.reader = r.reader
      /\ checked.escalation = r.escalation
  <2>1. CASE MustDieAtOnce(spawned)
    <3>1. checked = BeginTermination(spawned, TRUE, "terminate")
      BY <2>1
    <3>2. ~Terminal(spawned)
      BY <1>1, <1>3
    <3> HIDE DEF checked
    <3> QED BY <1>3, <3>1, <3>2, BeginTerminationFields
  <2>2. CASE ~MustDieAtOnce(spawned)
    BY <1>3, <2>2 DEF MustDieAtOnce
  <2> QED BY <2>1, <2>2
<1> HIDE DEF checked
<1>5. /\ w \in Session /\ w.handle /\ w.call = "waiting" /\ w.state = checked.state
      /\ w.reason = checked.reason /\ w.sent = checked.sent /\ w.busy = r.busy
      /\ w.reader = r.reader /\ w.escalation = r.escalation
  BY <1>4 DEF Session
<1> HIDE DEF w
<1>6. /\ q \in Session /\ q.state = w.state /\ q.reason = w.reason /\ q.handle = w.handle
      /\ q.sent = w.sent /\ q.escalation = w.escalation /\ q.busy = w.busy
      /\ q.call = IF w.call = "waiting" /\ Terminal(w) THEN "woken" ELSE w.call
      /\ (q.reader = "idle" <=> w.reader = "idle")
  BY <1>5, WokenEvolves
<1> HIDE DEF q
<1>7. /\ q.state = checked.state /\ q.handle /\ q.reason = checked.reason
      /\ q.sent = checked.sent /\ q.busy = r.busy /\ q.escalation = r.escalation
      /\ q.call = "waiting"
  BY <1>1, <1>4, <1>5, <1>6
<1>8. RecordOK(q)
  BY <1>1, <1>4, <1>5, <1>6, <1>7 DEF RecordOK, Pending
<1>9. Evolves(r, q)
  BY <1>1, <1>4, <1>7, <1>8 DEF Evolves, RecordOK
<1>10. sess'[s] = q
  BY <1>1, <1>2 DEF Update
<1>11. Alike(r, q)
  BY <1>1, <1>4, <1>7 DEF Alike, Pending
<1> QED BY <1>1, <1>2, <1>7, <1>9, <1>10, <1>11, OneSessionStep DEF r

\* Nothing in what follows depends on how a session got to exist.
LEMMA Exists ==
  ASSUME Lifecycle, NEW s \in Sessions
  PROVE  /\ RecordOK(sess[s]) /\ sess[s] \in Session
         /\ now \in Times /\ sess \in [Sessions -> Session]
         /\ \/ sess[s].handle \/ sess[s].timer \/ Terminal(sess[s]) \/ Pending(sess[s])
            \/ sess[s].escalation # "none" \/ sess[s].reader # "idle" \/ s \in records
            => sess[s].state # "unborn"
<1>1. /\ RecordOK(sess[s]) /\ sess[s] \in Session
      /\ now \in Times /\ sess \in [Sessions -> Session]
      /\ s \in records => sess[s].state # "unborn"
  BY DEF Lifecycle, LifecycleTypeOK, SessionOK, RecordOK
<1>2. CASE sess[s].state = "unborn"
  <2>1. sess[s] = Unborn
    BY <1>1, <1>2 DEF RecordOK
  <2> QED BY <1>1, <1>2, <2>1 DEF Unborn, Pending
<1>3. CASE sess[s].state # "unborn"
  BY <1>1, <1>3
<1> QED BY <1>2, <1>3

LEMMA ExecReplyLifecycle ==
  ASSUME Lifecycle, NEW s \in Sessions, ExecReply(s)
  PROVE  Lifecycle' /\ Evolves(sess[s], sess'[s]) /\ Answers(sess[s], sess'[s])
<1> DEFINE r == sess[s]
           q == [r EXCEPT !.call = "answered", !.busy = FALSE]
<1>1. /\ RecordOK(r) /\ r \in Session /\ r.state # "unborn" /\ r.reader = "idle"
      /\ sess \in [Sessions -> Session]
  BY Exists DEF ExecReply, Resumable, RecordOK, Pending
<1>2. Update(s, q) /\ UNCHANGED <<now, accepting, closing, draining, remaining, seq, records>>
  BY DEF ExecReply, shutdownVars
<1> HIDE DEF r
<1>3. /\ q \in Session /\ q.call = "answered" /\ q.busy = FALSE /\ q.state = r.state
      /\ q.reason = r.reason /\ q.handle = r.handle /\ q.sent = r.sent /\ q.reader = r.reader
      /\ q.escalation = r.escalation /\ q.ended = r.ended /\ q.archived = r.archived
  BY <1>1 DEF Session
<1> HIDE DEF q
<1>4. RecordOK(q)
  BY <1>1, <1>3 DEF RecordOK, Pending
<1>5. Evolves(r, q)
  BY <1>1, <1>3, <1>4 DEF Evolves, RecordOK
<1>6. sess'[s] = q
  BY <1>1, <1>2 DEF Update
<1>7. s \in records' \/ q.busy = r.busy
  <2>1. r.busy /\ s \in Sessions /\ SessionOK(s)
    BY <1>1 DEF r, Lifecycle, ExecReply, Resumable, RecordOK, Pending
  <2> QED BY <1>1, <1>2, <2>1 DEF SessionOK, Evictable, r
<1>8. Answers(r, q)
  BY <1>3 DEF Answers, Pending, ExecReply, Resumable, r
<1> QED BY <1>1, <1>2, <1>5, <1>6, <1>7, <1>8, OneSessionStep DEF r

LEMMA ClosedLifecycle ==
  ASSUME Lifecycle, NEW s \in Sessions, NEW faulty \in BOOLEAN, Closed(s, faulty)
  PROVE  Lifecycle' /\ Evolves(sess[s], sess'[s]) /\ Ends(sess[s], sess'[s])
<1> DEFINE r == sess[s]
           e == Ended(r, FinalState(r, faulty))
           w == [e EXCEPT !.timer = FALSE, !.escalation = IF @ = "armed" THEN "fired" ELSE @]
           q == Woken(w, log[s])
<1>1. /\ RecordOK(r) /\ r \in Session /\ r.handle /\ ~Terminal(r) /\ r.state # "unborn"
      /\ now \in Times /\ sess \in [Sessions -> Session]
  BY Exists DEF RecordOK, Closed
<1>2. Update(s, q) /\ UNCHANGED <<now, accepting, closing, draining, remaining, seq, records>>
  BY DEF Closed, shutdownVars
<1>3. /\ FinalState(r, faulty) \in TerminalStates
      /\ FinalState(r, faulty) \in {"start_failed", Verdict(r.reason)}
  BY DEF FinalState, Verdict
<1>4. /\ e \in Session /\ e.state = FinalState(r, faulty) /\ e.handle = FALSE /\ e.ended = now
      /\ e.reason = r.reason /\ e.call = r.call /\ e.busy = r.busy /\ e.reader = r.reader
      /\ e.escalation = r.escalation
  BY <1>1, <1>3, EndedOK
<1> HIDE DEF r, e
<1>5. PICK esc \in {"none", "armed", "fired"} :
        esc = IF e.escalation = "armed" THEN "fired" ELSE e.escalation
  BY <1>4 DEF Session
<1>6. w = [e EXCEPT !.timer = FALSE, !.escalation = esc]
  BY <1>4, <1>5 DEF Session
<1> HIDE DEF w
<1>7. /\ w \in Session /\ w.state = e.state /\ w.handle = e.handle /\ w.reason = e.reason
      /\ w.call = e.call /\ w.busy = e.busy /\ w.reader = e.reader /\ w.escalation = esc
      /\ w.ended = e.ended
  BY <1>4, <1>6 DEF Session
<1>8. /\ q \in Session /\ q.state = w.state /\ q.reason = w.reason /\ q.handle = w.handle
      /\ q.escalation = w.escalation /\ q.busy = w.busy /\ q.ended = w.ended
      /\ q.call = IF w.call = "waiting" /\ Terminal(w) THEN "woken" ELSE w.call
      /\ (q.reader = "idle" <=> w.reader = "idle")
  BY <1>7, WokenEvolves
<1> HIDE DEF q
<1>9. /\ q.state \in TerminalStates /\ q.state \in {"start_failed", Verdict(q.reason)}
      /\ q.reason = r.reason /\ q.handle = FALSE /\ q.busy = r.busy
      /\ q.call = IF r.call = "waiting" THEN "woken" ELSE r.call
      /\ q.reader = "idle" <=> r.reader = "idle"
      /\ q.escalation \in {r.escalation, "fired"}
      /\ r.escalation = "none" => q.escalation = "none"
  BY <1>3, <1>4, <1>5, <1>7, <1>8
<1>10. Evolves(r, q)
  <2>1. RecordOK(q)
    BY <1>1, <1>8, <1>9 DEF RecordOK, Pending
  <2> QED BY <1>1, <1>9, <2>1 DEF Evolves
<1>11. sess'[s] = q
  BY <1>1, <1>2 DEF Update
<1>12. Ends(r, q)
  BY <1>1, <1>4, <1>7, <1>8, <1>9 DEF Ends, Pending
<1> QED BY <1>1, <1>2, <1>9, <1>10, <1>11, <1>12, OneSessionStep DEF r

\* The parts of an output event that the lifecycle sees.
LEMMA OutputLifecycle ==
  ASSUME Lifecycle, NEW s \in Sessions, NEW n \in Nat, Output(s, n)
  PROVE  Lifecycle' /\ Evolves(sess[s], sess'[s]) /\ Alike(sess[s], sess'[s])
<1> DEFINE r == sess[s]
<1> PICK l : l = log'[s]
  OBVIOUS
<1> DEFINE q == Woken(r, l)
<1>1. /\ RecordOK(r) /\ r \in Session /\ r.handle /\ ~Terminal(r) /\ r.state # "unborn"
      /\ sess \in [Sessions -> Session]
  BY Exists DEF RecordOK, Output
<1>2. Update(s, q) /\ UNCHANGED <<now, accepting, closing, draining, remaining, seq, records>>
  BY DEF Output, shutdownVars
<1> HIDE DEF r
<1>3. /\ q \in Session /\ q.state = r.state /\ q.reason = r.reason /\ q.handle = r.handle
      /\ q.sent = r.sent /\ q.escalation = r.escalation /\ q.busy = r.busy
      /\ q.call = IF r.call = "waiting" /\ Terminal(r) THEN "woken" ELSE r.call
      /\ (q.reader = "idle" <=> r.reader = "idle")
  <2>1. r \in Session
    BY <1>1
  <2> HIDE DEF q
  <2>2. q = Woken(r, l)
    BY DEF q
  <2> QED BY ONLY <2>1, <2>2, WokenEvolves
<1> HIDE DEF q
<1>4. RecordOK(q)
  BY <1>1, <1>3 DEF RecordOK, Pending
<1>5. Evolves(r, q)
  BY <1>1, <1>3, <1>4 DEF Evolves
<1>6. sess'[s] = q
  BY <1>1, <1>2 DEF Update
<1>7. Alike(r, q)
  BY <1>1, <1>3 DEF Alike, Pending
<1> QED BY <1>1, <1>2, <1>3, <1>5, <1>6, <1>7, OneSessionStep DEF r

LEMMA TimeoutFiresLifecycle ==
  ASSUME Lifecycle, NEW s \in Sessions, TimeoutFires(s)
  PROVE  Lifecycle' /\ Evolves(sess[s], sess'[s]) /\ Alike(sess[s], sess'[s])
<1> DEFINE r == sess[s]
           b == BeginTermination(r, FALSE, "timeout")
           q == [b EXCEPT !.timer = FALSE]
<1>1. /\ RecordOK(r) /\ r.state # "unborn" /\ sess \in [Sessions -> Session]
  BY Exists DEF TimeoutFires
<1>2. Update(s, q) /\ UNCHANGED <<now, accepting, closing, draining, remaining, seq, records>>
  BY DEF TimeoutFires, shutdownVars
<1> HIDE DEF r
<1>3. Evolves(r, b) /\ b.busy = r.busy /\ Alike(r, b)
  BY <1>1, BeginTerminationEvolves DEF Alike, Pending
<1> HIDE DEF b
<1>4. /\ q \in Session /\ q.state = b.state /\ q.reason = b.reason /\ q.handle = b.handle
      /\ q.sent = b.sent /\ q.escalation = b.escalation /\ q.busy = b.busy
      /\ q.call = b.call /\ q.reader = b.reader /\ q.ended = b.ended /\ q.archived = b.archived
  BY <1>3 DEF Session, Evolves, RecordOK
<1> HIDE DEF q
<1>5. Evolves(r, q)
  BY <1>3, <1>4 DEF Evolves, RecordOK, Pending
<1>6. sess'[s] = q
  BY <1>1, <1>2 DEF Update
<1>7. Alike(r, q)
  BY <1>3, <1>4 DEF Alike, Pending
<1> QED BY <1>1, <1>2, <1>3, <1>4, <1>5, <1>6, <1>7, OneSessionStep DEF r

LEMMA EscalationFiresLifecycle ==
  ASSUME Lifecycle, NEW s \in Sessions, EscalationFires(s)
  PROVE  Lifecycle' /\ Evolves(sess[s], sess'[s]) /\ Alike(sess[s], sess'[s])
<1> DEFINE r == sess[s]
           b == SignalUnlessEnded(r, "kill")
           q == [b EXCEPT !.escalation = "fired"]
<1>1. /\ RecordOK(r) /\ r.state # "unborn" /\ sess \in [Sessions -> Session]
      /\ r.escalation = "armed"
  BY Exists DEF EscalationFires
<1>2. Update(s, q) /\ UNCHANGED <<now, accepting, closing, draining, remaining, seq, records>>
  BY DEF EscalationFires, shutdownVars
<1> HIDE DEF r
<1>3. Evolves(r, b) /\ (r.handle => b.sent = "kill") /\ b = [r EXCEPT !.sent = b.sent]
  BY <1>1, SignalEvolves
<1> HIDE DEF b
<1>4. /\ b.busy = r.busy /\ b.handle = r.handle /\ b.escalation = r.escalation
      /\ b.reason = r.reason /\ b.call = r.call /\ b.state = r.state
  BY <1>1, <1>3 DEF RecordOK, Session
<1>5. /\ q \in Session /\ q.state = b.state /\ q.reason = b.reason /\ q.handle = b.handle
      /\ q.sent = b.sent /\ q.escalation = "fired" /\ q.busy = b.busy
      /\ q.call = b.call /\ q.reader = b.reader /\ q.ended = b.ended /\ q.archived = b.archived
  BY <1>3 DEF Session, Evolves, RecordOK
<1> HIDE DEF q
<1>6. RecordOK(q)
  BY <1>1, <1>3, <1>4, <1>5 DEF Evolves, RecordOK, Pending
<1>7. Evolves(r, q)
  BY <1>3, <1>4, <1>5, <1>6 DEF Evolves
<1>8. sess'[s] = q
  BY <1>1, <1>2 DEF Update
<1>9. Alike(r, q)
  BY <1>4, <1>5 DEF Alike, Pending
<1> QED BY <1>1, <1>2, <1>4, <1>5, <1>7, <1>8, <1>9, OneSessionStep DEF r

LEMMA TerminateLifecycle ==
  ASSUME Lifecycle, NEW s \in Sessions, NEW force \in BOOLEAN, Terminate(s, force)
  PROVE  Lifecycle' /\ Evolves(sess[s], sess'[s]) /\ Alike(sess[s], sess'[s])
<1> DEFINE r == sess[s]
           q == BeginTermination(r, force, "terminate")
<1>1. /\ RecordOK(r) /\ r.state # "unborn" /\ sess \in [Sessions -> Session] /\ s \in Kept
  BY Exists, SweptIsOver DEF Terminate
<1>2. Update(s, q) /\ UNCHANGED <<now, accepting, closing, draining, remaining, seq>> /\ records' = Kept
  BY DEF Terminate, SweepNow, shutdownVars
<1> HIDE DEF r
<1>3. Evolves(r, q) /\ Alike(r, q)
  BY <1>1, BeginTerminationEvolves DEF Alike, Pending
<1> HIDE DEF q
<1>4. sess'[s] = q
  BY <1>1, <1>2 DEF Update
<1> QED BY <1>1, <1>2, <1>3, <1>4, OneSessionStep DEF r

LEMMA WriteBeginsLifecycle ==
  ASSUME Lifecycle, NEW s \in Sessions, NEW at \in Nat \cup {Null}, NEW input \in BOOLEAN,
         WriteBegins(s, at, input)
  PROVE  Lifecycle' /\ Evolves(sess[s], sess'[s]) /\ Alike(sess[s], sess'[s])
<1> DEFINE r == sess[s]
           w == [r EXCEPT !.busy = TRUE, !.reader = "waiting", !.readAt = at]
           q == Woken(w, log[s])
<1>1. /\ RecordOK(r) /\ r.state # "unborn" /\ ~r.busy
      /\ sess \in [Sessions -> Session] /\ s \in Kept
  BY Exists, SweptIsOver DEF WriteBegins, FreeForWriting
<1>2. Update(s, q) /\ UNCHANGED <<now, accepting, closing, draining, remaining, seq>> /\ records' = Kept
  BY DEF WriteBegins, SweepNow, shutdownVars
<1> HIDE DEF r
<1>3. /\ w \in Session /\ w.state = r.state /\ w.reason = r.reason /\ w.handle = r.handle
      /\ w.sent = r.sent /\ w.escalation = r.escalation /\ w.busy = TRUE
      /\ w.call = r.call /\ w.reader = "waiting" /\ w.ended = r.ended /\ w.archived = r.archived
  BY <1>1 DEF RecordOK, Session
<1> HIDE DEF w
<1>4. ~Pending(r)
  BY <1>1 DEF RecordOK
<1>5. /\ q \in Session /\ q.state = w.state /\ q.reason = w.reason /\ q.handle = w.handle
      /\ q.sent = w.sent /\ q.escalation = w.escalation /\ q.busy = w.busy
      /\ q.call = IF w.call = "waiting" /\ Terminal(w) THEN "woken" ELSE w.call
      /\ q.reader # "idle" /\ q.ended = w.ended /\ q.archived = w.archived
  BY <1>3, WokenEvolves
<1> HIDE DEF q
<1>6. RecordOK(q)
  BY <1>1, <1>3, <1>4, <1>5 DEF RecordOK, Pending
<1>7. Evolves(r, q)
  BY <1>1, <1>3, <1>5, <1>6 DEF Evolves, RecordOK
<1>8. sess'[s] = q
  BY <1>1, <1>2 DEF Update
<1>9. Alike(r, q)
  BY <1>3, <1>4, <1>5 DEF Alike, Pending
<1> QED BY <1>1, <1>2, <1>7, <1>8, <1>9, OneSessionStep DEF r

LEMMA WriteReplyLifecycle ==
  ASSUME Lifecycle, NEW s \in Sessions, WriteReply(s)
  PROVE  Lifecycle' /\ Evolves(sess[s], sess'[s]) /\ Alike(sess[s], sess'[s])
<1> DEFINE r == sess[s]
           q == [r EXCEPT !.reader = "idle", !.readAt = Null, !.busy = FALSE]
<1>1. /\ RecordOK(r) /\ r.state # "unborn" /\ r.reader # "idle" /\ r.busy /\ ~Pending(r)
      /\ sess \in [Sessions -> Session] /\ s \in records
  <2>1. /\ RecordOK(r) /\ r.state # "unborn" /\ r.reader # "idle"
        /\ sess \in [Sessions -> Session]
    BY Exists DEF WriteReply
  <2>2. r.busy /\ ~Pending(r)
    BY <2>1 DEF RecordOK
  <2> QED BY <2>1, <2>2 DEF Lifecycle, SessionOK, Evictable
<1>2. Update(s, q) /\ UNCHANGED <<now, accepting, closing, draining, remaining, seq, records>>
  BY DEF WriteReply, shutdownVars
<1> HIDE DEF r
<1>3. /\ q \in Session /\ q.state = r.state /\ q.reason = r.reason /\ q.handle = r.handle
      /\ q.sent = r.sent /\ q.escalation = r.escalation /\ q.busy = FALSE
      /\ q.call = r.call /\ q.reader = "idle" /\ q.ended = r.ended /\ q.archived = r.archived
  BY <1>1 DEF RecordOK, Session
<1> HIDE DEF q
<1>4. RecordOK(q)
  BY <1>1, <1>3 DEF RecordOK, Pending
<1>5. Evolves(r, q)
  BY <1>1, <1>3, <1>4 DEF Evolves, RecordOK
<1>6. sess'[s] = q
  BY <1>1, <1>2 DEF Update
<1>7. Alike(r, q)
  BY <1>3 DEF Alike, Pending
<1> QED BY <1>1, <1>2, <1>5, <1>6, <1>7, OneSessionStep DEF r

LEMMA CloseLifecycle ==
  ASSUME Lifecycle, Close
  PROVE  /\ Lifecycle'
         /\ \A s \in Sessions : /\ sess'[s] = sess[s] \/ Evolves(sess[s], sess'[s])
                                /\ Alike(sess[s], sess'[s])
<1> USE ExecAssumption
<1> DEFINE b(s) == BeginTermination(sess[s], FALSE, "terminate")
<1>1. /\ accepting' = FALSE /\ closing' = "draining" /\ draining' = Active(records)
      /\ sess' = [s \in Sessions |-> IF s \in Active(records) THEN b(s) ELSE sess[s]]
      /\ UNCHANGED <<now, remaining, seq, records>>
  BY DEF Close
<1> HIDE DEF b
<1>2. ASSUME NEW s \in Active(records)
      PROVE  /\ s \in Sessions /\ Evolves(sess[s], b(s)) /\ b(s) \in Session
             /\ b(s).busy = sess[s].busy /\ ~Terminal(b(s)) /\ b(s).escalation # "none"
             /\ Alike(sess[s], b(s))
  <2>1. /\ s \in records /\ s \in Sessions /\ ~Terminal(sess[s])
    BY DEF Active, CountsAsActive, Lifecycle, LifecycleTypeOK, Sessions
  <2>2. RecordOK(sess[s]) /\ sess[s].state # "unborn"
    BY <2>1, Exists
  <2> QED BY <2>1, <2>2, BeginTerminationEvolves DEF b, Evolves, RecordOK, Alike, Pending
<1>3. \A s \in Sessions : /\ s \in Active(records) => sess'[s] = b(s)
                          /\ s \notin Active(records) => sess'[s] = sess[s]
  BY <1>1
<1>4. \A s \in 1 .. seq : ~Terminal(sess[s]) => s \in Active(records)
  BY DEF Lifecycle, LifecycleTypeOK, SessionOK, Active, CountsAsActive, Evictable, Sessions
<1>5. LifecycleTypeOK'
  <2>1. sess' \in [Sessions -> Session]
    BY <1>1, <1>2 DEF Lifecycle, LifecycleTypeOK
  <2>2. draining' \in SUBSET Sessions
    BY <1>1, <1>2
  <2> QED BY <1>1, <2>1, <2>2 DEF Lifecycle, LifecycleTypeOK
<1>6. \A s \in Sessions : SessionOK(s)'
  <2> SUFFICES ASSUME NEW s \in Sessions PROVE SessionOK(s)'
    OBVIOUS
  <2>1. SessionOK(s)
    BY DEF Lifecycle
  <2>2. CASE s \in Active(records)
    <3>1. s \in records /\ s \in 1 .. seq
      BY <2>2 DEF Active, Lifecycle, LifecycleTypeOK
    <3>2. RecordOK(b(s)) /\ b(s).state # "unborn"
      BY <1>2, <2>2 DEF Evolves
    <3> QED BY <1>1, <1>3, <2>2, <3>1, <3>2 DEF SessionOK
  <2>3. CASE s \notin Active(records)
    BY <1>1, <1>3, <2>1, <2>3 DEF SessionOK
  <2> QED BY <2>2, <2>3
<1>7. Active(records)' = Active(records)
  <2>1. \A s \in records : s \in Sessions
    BY DEF Lifecycle, LifecycleTypeOK, Sessions
  <2>2. \A s \in records : Terminal(sess'[s]) <=> Terminal(sess[s])
    BY <1>2, <1>3, <2>1 DEF Active, CountsAsActive
  <2> QED BY <1>1, <2>2 DEF Active, CountsAsActive
<1>8. ClosingOK'
  <2>1. \A s \in 1 .. seq : s \in Sessions
    BY DEF Lifecycle, LifecycleTypeOK, Sessions
  <2>2. \A s \in 1 .. seq : ~Terminal(sess'[s]) =>
           s \in Active(records) /\ sess'[s].escalation # "none"
    BY <1>2, <1>3, <1>4, <2>1
  <2> QED BY <1>1, <2>2 DEF ClosingOK
<1>9. \A s \in Sessions : /\ sess'[s] = sess[s] \/ Evolves(sess[s], sess'[s])
                          /\ Alike(sess[s], sess'[s])
  BY <1>2, <1>3 DEF Alike
<1> QED BY <1>1, <1>5, <1>6, <1>7, <1>8, <1>9 DEF Lifecycle

LEMMA CloseDrainedLifecycle == Lifecycle /\ CloseDrained => Lifecycle' /\ sess' = sess
<1> SUFFICES ASSUME Lifecycle, CloseDrained PROVE Lifecycle' /\ sess' = sess
  OBVIOUS
<1>1. /\ closing = "draining" /\ DrainOver /\ closing' = "archiving"
      /\ UNCHANGED <<now, accepting, draining, remaining, seq, records, sess>>
  BY DEF CloseDrained
<1>2. LifecycleTypeOK' /\ \A s \in Sessions : SessionOK(s)'
  BY <1>1 DEF Lifecycle, LifecycleTypeOK, SessionOK
<1>3. Active(records)' = Active(records)
  BY <1>1 DEF Active, CountsAsActive
<1>4. ClosingOK'
  BY <1>1 DEF Lifecycle, ClosingOK, DrainOver
<1> QED BY <1>1, <1>2, <1>3, <1>4 DEF Lifecycle

LEMMA CloseReturnsLifecycle == Lifecycle /\ CloseReturns => Lifecycle' /\ sess' = sess
<1> SUFFICES ASSUME Lifecycle, CloseReturns PROVE Lifecycle' /\ sess' = sess
  OBVIOUS
<1>1. /\ closing = "archiving" /\ closing' = "closed"
      /\ remaining' = {s \in draining : ~Terminal(sess[s])}
      /\ UNCHANGED <<now, accepting, draining, seq, records, sess>>
  BY DEF CloseReturns
<1>2. LifecycleTypeOK' /\ \A s \in Sessions : SessionOK(s)'
  BY <1>1 DEF Lifecycle, LifecycleTypeOK, SessionOK
<1>3. Active(records)' = Active(records)
  BY <1>1 DEF Active, CountsAsActive
<1>4. ClosingOK'
  BY <1>1 DEF Lifecycle, ClosingOK
<1> QED BY <1>1, <1>2, <1>3, <1>4 DEF Lifecycle

LEMMA InitLifecycle == Init => Lifecycle
<1> SUFFICES ASSUME Init PROVE Lifecycle
  OBVIOUS
<1> USE ExecAssumption DEF Init
<1>1. \A s \in Sessions : SessionOK(s) /\ sess[s] \in Session
  BY UnbornOK DEF SessionOK, Sessions, RecordOK, Unborn
<1>2. Active(records) = {}
  BY DEF Active
<1>3. LifecycleTypeOK
  BY <1>1 DEF LifecycleTypeOK, Sessions, Times
<1>4. ClosingOK
  BY DEF ClosingOK
<1> QED BY <1>1, <1>2, <1>3, <1>4, FS_EmptySet DEF Lifecycle

\* What one step of the event loop may do to the records, and that it keeps the invariant.
LEMMA NextLifecycle ==
  ASSUME Lifecycle, [Next]_vars
  PROVE  /\ Lifecycle'
         /\ \A s \in Sessions : \/ sess'[s] = sess[s]
                                \/ Evolves(sess[s], sess'[s])
                                \/ sess[s] = Unborn /\ sess'[s] = Reserved
<1>1. ASSUME NEW s \in Sessions,
             Lifecycle', Evolves(sess[s], sess'[s]), NEW q, Update(s, q)
      PROVE  \A t \in Sessions : sess'[t] = sess[t] \/ Evolves(sess[t], sess'[t])
  BY <1>1 DEF Update, Lifecycle, LifecycleTypeOK
<1>2. ASSUME NEW s \in Sessions, Reserve(s) PROVE Lifecycle' /\ \A t \in Sessions :
         sess'[t] = sess[t] \/ (sess[t] = Unborn /\ sess'[t] = Reserved)
  <2>1. Lifecycle'
    BY <1>2, ReserveLifecycle
  <2>2. sess[s] = Unborn
    <3>1. s \notin 1 .. seq
      BY <1>2 DEF Reserve, Lifecycle, LifecycleTypeOK
    <3> QED BY <3>1 DEF Lifecycle, SessionOK, RecordOK
  <2>3. Update(s, Reserved)
    BY <1>2 DEF Reserve
  <2> QED BY <2>1, <2>2, <2>3 DEF Update, Lifecycle, LifecycleTypeOK
<1>3. ASSUME NEW s \in Sessions, StartFails(s)
      PROVE  Lifecycle' /\ \A t \in Sessions : sess'[t] = sess[t] \/ Evolves(sess[t], sess'[t])
  BY <1>1, <1>3, StartFailsLifecycle DEF StartFails
<1>4. ASSUME NEW s \in Sessions, NEW timed \in BOOLEAN, Spawn(s, timed)
      PROVE  Lifecycle' /\ \A t \in Sessions : sess'[t] = sess[t] \/ Evolves(sess[t], sess'[t])
  BY <1>1, <1>4, SpawnLifecycle DEF Spawn
<1>5. ASSUME NEW s \in Sessions, ExecReply(s)
      PROVE  Lifecycle' /\ \A t \in Sessions : sess'[t] = sess[t] \/ Evolves(sess[t], sess'[t])
  BY <1>1, <1>5, ExecReplyLifecycle DEF ExecReply
<1>6. ASSUME NEW s \in Sessions, NEW n \in 1 .. MaxOutput, Output(s, n)
      PROVE  Lifecycle' /\ \A t \in Sessions : sess'[t] = sess[t] \/ Evolves(sess[t], sess'[t])
  <2>1. n \in Nat
    BY ExecAssumption
  <2>2. Lifecycle' /\ Evolves(sess[s], sess'[s])
    BY <1>6, <2>1, OutputLifecycle
  <2> QED BY <1>1, <1>6, <2>2 DEF Output
<1>7. ASSUME NEW s \in Sessions, NEW faulty \in BOOLEAN, Closed(s, faulty)
      PROVE  Lifecycle' /\ \A t \in Sessions : sess'[t] = sess[t] \/ Evolves(sess[t], sess'[t])
  BY <1>1, <1>7, ClosedLifecycle DEF Closed
<1>8. ASSUME NEW s \in Sessions, TimeoutFires(s)
      PROVE  Lifecycle' /\ \A t \in Sessions : sess'[t] = sess[t] \/ Evolves(sess[t], sess'[t])
  BY <1>1, <1>8, TimeoutFiresLifecycle DEF TimeoutFires
<1>9. ASSUME NEW s \in Sessions, EscalationFires(s)
      PROVE  Lifecycle' /\ \A t \in Sessions : sess'[t] = sess[t] \/ Evolves(sess[t], sess'[t])
  BY <1>1, <1>9, EscalationFiresLifecycle DEF EscalationFires
<1>10. ASSUME NEW s \in Sessions, NEW force \in BOOLEAN, Terminate(s, force)
       PROVE  Lifecycle' /\ \A t \in Sessions : sess'[t] = sess[t] \/ Evolves(sess[t], sess'[t])
  BY <1>1, <1>10, TerminateLifecycle DEF Terminate
<1>11. ASSUME NEW s \in Sessions, NEW at \in 0 .. log[s].end \cup {Null}, NEW input \in BOOLEAN,
              WriteBegins(s, at, input)
       PROVE  Lifecycle' /\ \A t \in Sessions : sess'[t] = sess[t] \/ Evolves(sess[t], sess'[t])
  <2>1. at \in Nat \cup {Null}
    BY DEF Null
  <2>2. Lifecycle' /\ Evolves(sess[s], sess'[s])
    BY <1>11, <2>1, WriteBeginsLifecycle
  <2> QED BY <1>1, <1>11, <2>2 DEF WriteBegins
<1>12. ASSUME NEW s \in Sessions, WriteReply(s)
       PROVE  Lifecycle' /\ \A t \in Sessions : sess'[t] = sess[t] \/ Evolves(sess[t], sess'[t])
  BY <1>1, <1>12, WriteReplyLifecycle DEF WriteReply
<1>13. CASE Sweep
  BY <1>13, OutsideStep DEF Sweep, SweepNow, shutdownVars, Lifecycle, LifecycleTypeOK
<1>14. CASE Tick
  <2>1. now + 1 \in Times
    BY <1>14, ExecAssumption DEF Tick, Times, Lifecycle, LifecycleTypeOK
  <2> QED BY <1>14, <2>1, OutsideStep DEF Tick, shutdownVars
<1>15. CASE UNCHANGED vars
  BY <1>15, OutsideStep DEF vars, Lifecycle, LifecycleTypeOK
<1> QED
  BY <1>2, <1>3, <1>4, <1>5, <1>6, <1>7, <1>8, <1>9, <1>10, <1>11, <1>12, <1>13, <1>14, <1>15,
     CloseLifecycle, CloseDrainedLifecycle, CloseReturnsLifecycle DEF Next, SessionStep

(* What is over stays over, with the date of its end.                         *)
LEMMA EndsStay ==
  ASSUME Lifecycle, [Next]_vars, NEW s \in Sessions, Terminal(sess[s])
  PROVE  Terminal(sess'[s]) /\ sess'[s].ended = sess[s].ended
BY NextLifecycle DEF Evolves, Unborn

(* The clock does not go back.                                                *)
LEMMA ClockAdvances ==
  ASSUME [Next]_vars
  PROVE  now' \in {now, now + 1}
BY DEF vars, Next, SessionStep, Reserve, StartFails, Spawn, ExecReply, Output, Closed, TimeoutFires,
       EscalationFires, Terminate, WriteBegins, WriteReply, Sweep, Close, CloseDrained, CloseReturns, Tick

(* A step is about one session, the others stay as they are.                  *)
LEMMA OneSession ==
  ASSUME Lifecycle, NEW s \in Sessions, NEW q, Update(s, q)
  PROVE  sess'[s] = q /\ \A t \in Sessions \ {s} : sess'[t] = sess[t]
BY DEF Update, Lifecycle, LifecycleTypeOK

(* A child that starts or prints, a timer, a signal and a write_stdin show     *)
(* nothing of a session to whoever waits for its call or its command; nor does *)
(* what concerns no session in particular, the beginning of a shutdown among it.*)
LEMMA QuietStepsAlike ==
  ASSUME Lifecycle, NEW s \in Sessions,
         \/ \E timed \in BOOLEAN : Spawn(s, timed)
         \/ \E n \in 1 .. MaxOutput : Output(s, n)
         \/ TimeoutFires(s)
         \/ EscalationFires(s)
         \/ WriteReply(s)
         \/ \E force \in BOOLEAN : Terminate(s, force)
         \/ \E at \in 0 .. log[s].end \cup {Null}, input \in BOOLEAN : WriteBegins(s, at, input)
  PROVE  \A t \in Sessions : Alike(sess[t], sess'[t])
<1>1. Alike(sess[s], sess'[s])
  <2>1. \A at \in 0 .. log[s].end \cup {Null} : at \in Nat \cup {Null}
    BY DEF Null
  <2>2. \A n \in 1 .. MaxOutput : n \in Nat
    BY ExecAssumption
  <2> QED BY <2>1, <2>2, SpawnLifecycle, OutputLifecycle, TimeoutFiresLifecycle, EscalationFiresLifecycle,
             WriteReplyLifecycle, TerminateLifecycle, WriteBeginsLifecycle
<1>2. PICK q : Update(s, q)
  BY DEF Spawn, Output, TimeoutFires, EscalationFires, WriteReply, Terminate, WriteBegins
<1> QED BY <1>1, <1>2, OneSession DEF Alike

LEMMA OutsideAlike ==
  ASSUME Lifecycle, Sweep \/ Close \/ CloseDrained \/ CloseReturns \/ Tick
  PROVE  \A t \in Sessions : Alike(sess[t], sess'[t])
<1>1. CASE Close
  BY <1>1, CloseLifecycle
<1>2. CASE Sweep \/ CloseDrained \/ CloseReturns \/ Tick
  BY <1>2 DEF Sweep, CloseDrained, CloseReturns, Tick, Alike
<1> QED BY <1>1, <1>2

(* State, child, call, timers and slot of every session fit one another after  *)
(* any event, timer or call: the inductive invariant of the lifecycle.         *)
THEOREM LifecycleInvariant == Spec => []Lifecycle
BY InitLifecycle, NextLifecycle, PTL DEF Spec

-----------------------------------------------------------------------------
(* What the lifecycle invariant gives                                        *)

(* However many commands are started at once, and however their awaits         *)
(* interleave with ends, sweeps and a shutdown, children and calls on their way *)
(* to one never exceed exec.max_active_sessions.                               *)
THEOREM ProcessLimitHolds == Spec => []ProcessLimit
<1>1. Lifecycle => ProcessLimit
  <2> SUFFICES ASSUME Lifecycle PROVE ProcessLimit
    OBVIOUS
  <2> DEFINE live == {s \in Sessions : sess[s].handle \/ sess[s].call = "opening"}
  <2>1. live \in SUBSET Active(records)
    <3> SUFFICES ASSUME NEW s \in live PROVE s \in Active(records)
      OBVIOUS
    <3>1. RecordOK(sess[s]) /\ SessionOK(s)
      BY DEF Lifecycle, SessionOK
    <3>2. ~Terminal(sess[s]) /\ sess[s].state # "unborn"
      BY <3>1 DEF RecordOK, Unborn
    <3> QED BY <3>1, <3>2 DEF SessionOK, Active, CountsAsActive, Evictable
  <2>2. IsFiniteSet(Active(records))
    <3>1. seq \in Nat /\ records \in SUBSET (1 .. seq)
      BY ExecAssumption DEF Lifecycle, LifecycleTypeOK
    <3> QED BY <3>1, ActiveIsFinite
  <2> HIDE DEF live
  <2>3. IsFiniteSet(live) /\ Cardinality(live) <= Cardinality(Active(records))
    BY <2>1, <2>2, FS_Subset
  <2>4. Cardinality(live) \in Nat /\ Cardinality(Active(records)) \in Nat
    BY <2>2, <2>3, FS_CardinalityType
  <2>5. Cardinality(live) <= MaxActive
    BY <2>3, <2>4, ExecAssumption DEF Lifecycle
  <2> QED BY <2>5 DEF ProcessLimit, live
<1> QED BY <1>1, LifecycleInvariant, PTL

(* No sweep, by whichever call or timer, drops a session that has a child, a   *)
(* pending exec_command or an exclusive write_stdin.                           *)
THEOREM InUseIsKeptHolds == Spec => []InUseIsKept
<1>1. Lifecycle => InUseIsKept
  <2> SUFFICES ASSUME Lifecycle, NEW s \in Sessions
               PROVE  /\ sess[s].handle \/ Pending(sess[s]) \/ sess[s].reader # "idle" => s \in records
                      /\ sess[s].handle => ~Terminal(sess[s])
    BY DEF InUseIsKept
  <2>1. RecordOK(sess[s]) /\ SessionOK(s)
    BY DEF Lifecycle, SessionOK
  <2>2. sess[s].handle \/ Pending(sess[s]) \/ sess[s].reader # "idle" => sess[s].state # "unborn"
    BY <2>1 DEF RecordOK, Unborn, Pending
  <2> QED BY <2>1, <2>2 DEF RecordOK, SessionOK, Evictable
<1> QED BY <1>1, LifecycleInvariant, PTL

(* Whatever races to end a session, the first reason decides its verdict, and *)
(* an ended session changes neither its state nor its reason nor its archive.  *)
THEOREM FirstReasonDecidesHolds == Spec => FirstReasonDecides
<1>1. ASSUME Lifecycle, [Next]_vars, NEW s \in Sessions
      PROVE  LET r == sess[s] q == sess'[s] IN
             /\ r.reason # "none" => q.reason = r.reason
             /\ Terminal(q) => q.state \in {"start_failed", Verdict(q.reason)}
             /\ Terminal(r) => /\ q.state = r.state /\ q.reason = r.reason
                              /\ q.ended = r.ended /\ q.archived = r.archived
                              /\ ~q.handle
  <2>1. RecordOK(sess[s])
    BY <1>1 DEF Lifecycle, SessionOK
  <2>2. CASE sess'[s] = sess[s]
    BY <2>1, <2>2 DEF RecordOK
  <2>3. CASE Evolves(sess[s], sess'[s])
    BY <2>3 DEF Evolves, RecordOK
  <2>4. CASE sess[s] = Unborn /\ sess'[s] = Reserved
    BY <2>4 DEF Unborn, Reserved
  <2> QED BY <1>1, <2>2, <2>3, <2>4, NextLifecycle
<1>2. Lifecycle /\ [Next]_vars =>
        [\A s \in Sessions : LET r == sess[s] q == sess'[s] IN
           /\ r.reason # "none" => q.reason = r.reason
           /\ Terminal(q) => q.state \in {"start_failed", Verdict(q.reason)}
           /\ Terminal(r) => /\ q.state = r.state /\ q.reason = r.reason
                            /\ q.ended = r.ended /\ q.archived = r.archived
                            /\ ~q.handle]_vars
  BY <1>1
<1> QED BY <1>2, LifecycleInvariant, PTL DEF Spec, FirstReasonDecides

-----------------------------------------------------------------------------
(* Sums over sets of sessions.  SizeOf is a fold of the community modules: a   *)
(* recursive function over the subsets of its set, which takes an element      *)
(* with CHOOSE.  That it exists, and that the order does not matter, is by     *)
(* induction on the cardinality.                                              *)

LEMMA NatInductionOnSets ==
  ASSUME NEW T, 0 \in T, \A n \in Nat : n \in T => n + 1 \in T
  PROVE  Nat \subseteq T
<1> SUFFICES ASSUME Nat \ T # {} PROVE FALSE
  OBVIOUS
<1>1. PICK x \in Nat \ T : \A y \in Nat \ T : <<y, x>> \notin OpToRel(<, Nat)
  <2>1. IsWellFoundedOn(OpToRel(<, Nat), Nat)
    BY NatLessThanWellFounded
  <2> QED BY <2>1, WFMin
<1>2. \A y \in Nat \ T : ~(y < x)
  BY <1>1 DEF OpToRel
<1>3. x # 0
  OBVIOUS
<1>4. x - 1 \in Nat /\ x - 1 \in T
  BY <1>2, <1>3
<1> QED BY <1>4

\* To show something of every subset of a finite set, take it for the subset less any element.
LEMMA SubsetInduction ==
  ASSUME NEW U, IsFiniteSet(U), NEW T, {} \in T,
         \A S \in SUBSET U : S # {} /\ (\A x \in S : S \ {x} \in T) => S \in T
  PROVE  \A S \in SUBSET U : S \in T
<1> DEFINE Done == {n \in Nat : \A S \in SUBSET U : Cardinality(S) = n => S \in T}
<1>1. \A S \in SUBSET U : IsFiniteSet(S) /\ Cardinality(S) \in Nat
  BY FS_Subset, FS_CardinalityType
<1>2. 0 \in Done
  BY <1>1, FS_EmptySet
<1>3. \A n \in Nat : n \in Done => n + 1 \in Done
  <2> SUFFICES ASSUME NEW n \in Nat, n \in Done, NEW S \in SUBSET U, Cardinality(S) = n + 1
               PROVE  S \in T
    OBVIOUS
  <2>1. S # {}
    <3>1. Cardinality(S) # 0
      OBVIOUS
    <3> QED BY <3>1, FS_EmptySet
  <2>2. \A x \in S : Cardinality(S \ {x}) = n
    BY <1>1, FS_RemoveElement
  <2>3. \A x \in S : S \ {x} \in T
    BY <2>2
  <2> QED BY <2>1, <2>3
<1> HIDE DEF Done
<1>4. Nat \subseteq Done
  BY <1>2, <1>3, NatInductionOnSets
<1> QED BY <1>1, <1>4 DEF Done

Pick(S) == CHOOSE x \in S : TRUE
Sizes(S, lg) == \A s \in S : Size(lg[s]) \in Nat

\* The recursion that SizeOf unfolds to.
SumStep(g, S, lg) == IF S = {} THEN 0 ELSE Size(lg[Pick(S)]) + g[S \ {Pick(S)}]
IsSum(g, U, lg) == g = [S \in SUBSET U |-> SumStep(g, S, lg)]

LEMMA SizeOfUnfolds ==
  ASSUME NEW S, NEW lg
  PROVE  SizeOf(S, lg) = (CHOOSE g : IsSum(g, S, lg))[S]
BY DEF SizeOf, MapThenSumSet, MapThenFoldSet, IsSum, SumStep, Pick

LEMMA PickIn == ASSUME NEW S, S # {} PROVE Pick(S) \in S
BY DEF Pick

LEMMA SumExists ==
  ASSUME NEW U, IsFiniteSet(U), NEW lg, Sizes(U, lg)
  PROVE  \E g \in [SUBSET U -> Nat] : IsSum(g, U, lg)
<1> DEFINE UpTo(g, n) == \A S \in SUBSET U : Cardinality(S) <= n => g[S] = SumStep(g, S, lg)
           Done == {n \in Nat : \E g \in [SUBSET U -> Nat] : UpTo(g, n)}
<1>1. \A S \in SUBSET U : IsFiniteSet(S) /\ Cardinality(S) \in Nat
  BY FS_Subset, FS_CardinalityType
<1>2. 0 \in Done
  <2> DEFINE g == [S \in SUBSET U |-> 0]
  <2>1. UpTo(g, 0)
    BY <1>1, FS_EmptySet DEF SumStep
  <2> QED BY <2>1
<1>3. \A n \in Nat : n \in Done => n + 1 \in Done
  <2> SUFFICES ASSUME NEW n \in Nat, n \in Done PROVE n + 1 \in Done
    OBVIOUS
  <2>1. PICK g \in [SUBSET U -> Nat] : UpTo(g, n)
    OBVIOUS
  <2> DEFINE h == [S \in SUBSET U |-> IF Cardinality(S) <= n THEN g[S] ELSE SumStep(g, S, lg)]
  <2>2. ASSUME NEW S \in SUBSET U, S # {}
        PROVE  /\ Pick(S) \in U /\ S \ {Pick(S)} \in SUBSET U
               /\ Cardinality(S \ {Pick(S)}) = Cardinality(S) - 1
    BY <2>2, <1>1, PickIn, FS_RemoveElement
  <2>3. \A S \in SUBSET U : SumStep(g, S, lg) \in Nat
    <3> SUFFICES ASSUME NEW S \in SUBSET U, S # {} PROVE SumStep(g, S, lg) \in Nat
      BY DEF SumStep
    <3>1. Size(lg[Pick(S)]) \in Nat /\ g[S \ {Pick(S)}] \in Nat
      BY <2>2 DEF Sizes
    <3> QED BY <3>1 DEF SumStep
  <2>4. h \in [SUBSET U -> Nat]
    BY <2>3
  <2>5. UpTo(h, n + 1)
    <3> SUFFICES ASSUME NEW S \in SUBSET U, Cardinality(S) <= n + 1
                 PROVE  h[S] = SumStep(h, S, lg)
      OBVIOUS
    <3>1. h[S] = SumStep(g, S, lg)
      BY <2>1
    <3>2. CASE S = {}
      BY <3>1, <3>2 DEF SumStep
    <3>3. CASE S # {}
      <4>1. h[S \ {Pick(S)}] = g[S \ {Pick(S)}]
        BY <1>1, <2>2, <3>3
      <4> QED BY <3>1, <3>3, <4>1 DEF SumStep
    <3> QED BY <3>2, <3>3
  <2> HIDE DEF h
  <2>6. \E f \in [SUBSET U -> Nat] : UpTo(f, n + 1)
    BY <2>4, <2>5
  <2> QED BY <2>6
<1> HIDE DEF Done
<1>4. Nat \subseteq Done
  BY <1>2, <1>3, NatInductionOnSets
<1>5. Cardinality(U) \in Done
  BY <1>1, <1>4
<1>6. PICK g \in [SUBSET U -> Nat] : UpTo(g, Cardinality(U))
  BY <1>5 DEF Done
<1>7. \A S \in SUBSET U : g[S] = SumStep(g, S, lg)
  BY <1>6, FS_Subset
<1>8. IsSum(g, U, lg)
  BY <1>7 DEF IsSum
<1> QED BY <1>8

LEMMA SumUnique ==
  ASSUME NEW U, NEW V, U \subseteq V, IsFiniteSet(U), NEW lg,
         NEW g, IsSum(g, U, lg), NEW h, IsSum(h, V, lg)
  PROVE  \A S \in SUBSET U : g[S] = h[S]
<1> DEFINE T == {S \in SUBSET U : g[S] = h[S]}
<1>1. \A S \in SUBSET U : g[S] = SumStep(g, S, lg) /\ h[S] = SumStep(h, S, lg)
  <2>1. g = [S \in SUBSET U |-> SumStep(g, S, lg)] /\ h = [S \in SUBSET V |-> SumStep(h, S, lg)]
    BY DEF IsSum
  <2> QED BY <2>1
<1>2. {} \in T
  BY <1>1 DEF SumStep
<1>3. \A S \in SUBSET U : S # {} /\ (\A x \in S : S \ {x} \in T) => S \in T
  BY <1>1, PickIn DEF SumStep
<1> HIDE DEF T
<1>4. \A S \in SUBSET U : S \in T
  BY <1>2, <1>3, SubsetInduction
<1> QED BY <1>4 DEF T

\* So all sums within a finite set are one function.
LEMMA SizeOfIsSum ==
  ASSUME NEW U, IsFiniteSet(U), NEW lg, Sizes(U, lg), NEW g, IsSum(g, U, lg), NEW S \in SUBSET U
  PROVE  SizeOf(S, lg) = g[S]
<1>1. IsFiniteSet(S) /\ Sizes(S, lg)
  BY FS_Subset DEF Sizes
<1>2. \E h : IsSum(h, S, lg)
  BY <1>1, SumExists
<1>3. IsSum(CHOOSE h : IsSum(h, S, lg), S, lg)
  BY <1>2
<1>4. (CHOOSE h : IsSum(h, S, lg))[S] = g[S]
  BY <1>1, <1>3, SumUnique
<1> QED BY <1>4, SizeOfUnfolds

LEMMA SizeOfSteps ==
  ASSUME NEW S, IsFiniteSet(S), NEW lg, Sizes(S, lg)
  PROVE  /\ SizeOf(S, lg) \in Nat
         /\ S = {} => SizeOf(S, lg) = 0
         /\ \A x \in S : SizeOf(S, lg) = Size(lg[x]) + SizeOf(S \ {x}, lg)
<1>1. PICK g \in [SUBSET S -> Nat] : IsSum(g, S, lg)
  BY SumExists
<1>2. \A R \in SUBSET S : g[R] = SumStep(g, R, lg)
  <2>1. g = [R \in SUBSET S |-> SumStep(g, R, lg)]
    BY <1>1 DEF IsSum
  <2> QED BY <2>1
<1>3. \A R \in SUBSET S : SizeOf(R, lg) = g[R]
  BY <1>1, SizeOfIsSum
<1> DEFINE T == {R \in SUBSET S : \A x \in R : g[R] = Size(lg[x]) + g[R \ {x}]}
<1>4. {} \in T
  OBVIOUS
<1>5. ASSUME NEW R \in SUBSET S, R # {}, \A x \in R : R \ {x} \in T
      PROVE  R \in T
  <2> SUFFICES ASSUME NEW x \in R PROVE g[R] = Size(lg[x]) + g[R \ {x}]
    OBVIOUS
  <2> DEFINE p == Pick(R)
  <2>1. p \in R /\ g[R] = Size(lg[p]) + g[R \ {p}]
    BY <1>2, <1>5, PickIn DEF SumStep
  <2> HIDE DEF p
  <2>2. CASE p = x
    BY <2>1, <2>2
  <2>3. CASE p # x
    <3>1. g[R \ {p}] = Size(lg[x]) + g[(R \ {p}) \ {x}]
      BY <1>5, <2>1, <2>3
    <3>2. g[R \ {x}] = Size(lg[p]) + g[(R \ {x}) \ {p}]
      BY <1>5, <2>1, <2>3
    <3>3. (R \ {p}) \ {x} = (R \ {x}) \ {p}
      OBVIOUS
    <3>4. g[(R \ {x}) \ {p}] \in Nat /\ Size(lg[x]) \in Nat /\ Size(lg[p]) \in Nat
      BY <1>1, <2>1 DEF Sizes
    <3>5. g[R] = Size(lg[p]) + (Size(lg[x]) + g[(R \ {x}) \ {p}])
      BY <2>1, <3>1, <3>3
    <3> QED BY <3>2, <3>4, <3>5
  <2> QED BY <2>2, <2>3
<1> HIDE DEF T
<1>6. \A R \in SUBSET S : R \in T
  BY <1>4, <1>5, SubsetInduction
<1>7. \A x \in S : g[S] = Size(lg[x]) + g[S \ {x}]
  BY <1>6 DEF T
<1>8. S = {} => g[S] = 0
  BY <1>2 DEF SumStep
<1> QED BY <1>1, <1>3, <1>7, <1>8

\* Logs of the same sizes have the same sum.
LEMMA SizeOfAgree ==
  ASSUME NEW S, IsFiniteSet(S), NEW lg, Sizes(S, lg), NEW mg,
         \A s \in S : Size(mg[s]) = Size(lg[s])
  PROVE  SizeOf(S, mg) = SizeOf(S, lg)
<1> DEFINE T == {R \in SUBSET S : SizeOf(R, mg) = SizeOf(R, lg)}
<1>1. \A R \in SUBSET S : IsFiniteSet(R) /\ Sizes(R, lg) /\ Sizes(R, mg)
  BY FS_Subset DEF Sizes
<1>2. {} \in T
  <2>1. SizeOf({}, mg) = 0 /\ SizeOf({}, lg) = 0
    BY <1>1, SizeOfSteps
  <2> QED BY <2>1
<1>3. ASSUME NEW R \in SUBSET S, R # {}, \A x \in R : R \ {x} \in T
      PROVE  R \in T
  <2>1. PICK x \in R : TRUE
    BY <1>3
  <2>2. /\ SizeOf(R, mg) = Size(mg[x]) + SizeOf(R \ {x}, mg)
        /\ SizeOf(R, lg) = Size(lg[x]) + SizeOf(R \ {x}, lg)
    BY <1>1, SizeOfSteps
  <2> QED BY <1>3, <2>2
<1> HIDE DEF T
<1>4. \A R \in SUBSET S : R \in T
  BY <1>2, <1>3, SubsetInduction
<1> QED BY <1>4 DEF T

\* What a sweep takes off the counter is what the evicted logs counted.
LEMMA SizeOfDifference ==
  ASSUME NEW S, IsFiniteSet(S), NEW lg, Sizes(S, lg), NEW E \in SUBSET S
  PROVE  SizeOf(S \ E, lg) = SizeOf(S, lg) - SizeOf(E, lg)
<1> DEFINE T == {R \in SUBSET S : SizeOf(S \ R, lg) = SizeOf(S, lg) - SizeOf(R, lg)}
<1>1. \A R \in SUBSET S : IsFiniteSet(R) /\ Sizes(R, lg) /\ SizeOf(R, lg) \in Nat
  BY FS_Subset, SizeOfSteps DEF Sizes
<1>2. {} \in T
  <2>1. SizeOf({}, lg) = 0 /\ SizeOf(S, lg) \in Nat
    BY <1>1, SizeOfSteps
  <2>2. S \ {} = S
    OBVIOUS
  <2> QED BY <2>1, <2>2
<1>3. ASSUME NEW R \in SUBSET S, R # {}, \A x \in R : R \ {x} \in T
      PROVE  R \in T
  <2>1. PICK x \in R : TRUE
    BY <1>3
  <2>2. SizeOf(R, lg) = Size(lg[x]) + SizeOf(R \ {x}, lg)
    BY <1>1, SizeOfSteps
  <2>3. SizeOf(S \ (R \ {x}), lg) = Size(lg[x]) + SizeOf(S \ R, lg)
    <3>1. x \in S \ (R \ {x}) /\ (S \ (R \ {x})) \ {x} = S \ R /\ S \ (R \ {x}) \in SUBSET S
      OBVIOUS
    <3>2. SizeOf(S \ (R \ {x}), lg) = Size(lg[x]) + SizeOf((S \ (R \ {x})) \ {x}, lg)
      BY <1>1, <3>1, SizeOfSteps
    <3> QED BY <3>1, <3>2
  <2>4. SizeOf(S \ (R \ {x}), lg) = SizeOf(S, lg) - SizeOf(R \ {x}, lg)
    BY <1>3
  <2>5. /\ Size(lg[x]) \in Nat /\ SizeOf(S, lg) \in Nat /\ SizeOf(R \ {x}, lg) \in Nat
        /\ SizeOf(S \ R, lg) \in Nat
    BY <1>1 DEF Sizes
  <2> QED BY <2>2, <2>3, <2>4, <2>5
<1> HIDE DEF T
<1>4. \A R \in SUBSET S : R \in T
  BY <1>2, <1>3, SubsetInduction
<1> QED BY <1>4 DEF T

-----------------------------------------------------------------------------
(* enforceOutputBudget()                                                     *)

Stamped(S, lg) == S \subseteq Nat /\ \A s \in S : lg[s].last \in Nat

\* Quieter is a total order, so a set of sessions has a loudest one.
LEMMA LoudestExists ==
  ASSUME NEW S, IsFiniteSet(S), S # {}, NEW lg, Stamped(S, lg)
  PROVE  \E m \in S : \A t \in S \ {m} : Quieter(lg, t, m)
<1> DEFINE T == {R \in SUBSET S : R # {} => \E m \in R : \A t \in R \ {m} : Quieter(lg, t, m)}
<1>1. {} \in T
  OBVIOUS
<1>2. ASSUME NEW R \in SUBSET S, R # {}, \A x \in R : R \ {x} \in T
      PROVE  R \in T
  <2>1. PICK x \in R : TRUE
    BY <1>2
  <2>2. CASE R \ {x} = {}
    <3>1. \A t \in R \ {x} : Quieter(lg, t, x)
      BY <2>2
    <3> QED BY <3>1
  <2>3. CASE R \ {x} # {}
    <3>1. PICK m \in R \ {x} : \A t \in (R \ {x}) \ {m} : Quieter(lg, t, m)
      BY <1>2, <2>3
    <3>2. CASE Quieter(lg, x, m)
      <4>1. \A t \in R \ {m} : Quieter(lg, t, m)
        BY <3>1, <3>2
      <4> QED BY <4>1
    <3>3. CASE ~Quieter(lg, x, m)
      <4>1. \A t \in R \ {x} : Quieter(lg, t, x)
        BY <3>1, <3>3 DEF Quieter, Stamped
      <4> QED BY <4>1
    <3> QED BY <3>2, <3>3
  <2> QED BY <2>2, <2>3
<1> HIDE DEF T
<1>3. \A R \in SUBSET S : R \in T
  BY <1>1, <1>2, SubsetInduction
<1> QED BY <1>3 DEF T

\* What one log gives up: nothing it does not have.
GivesUp(lg, R, total, s) ==
  Smaller(Size(lg[s]), Larger(0, total - Total - SizeOf({t \in R : Quieter(lg, t, s)}, lg)))

LEMMA EnforcedLog ==
  ASSUME NEW R \in SUBSET Sessions, IsFiniteSet(R), NEW lg \in [Sessions -> Log],
         \A s \in Sessions : lg[s].from <= lg[s].end, NEW total \in Nat, NEW s \in Sessions
  PROVE  LET l == lg[s] m == Enforced(lg, R, total)[s] IN
         /\ m \in Log /\ m.end = l.end /\ m.cursor = l.cursor /\ m.last = l.last
         /\ l.from <= m.from /\ m.from <= m.end
         /\ s \notin R => m = l
         /\ s \in R => GivesUp(lg, R, total, s) \in Nat /\ GivesUp(lg, R, total, s) <= Size(l)
         /\ s \in R => Size(m) = Size(l) - GivesUp(lg, R, total, s)
<1> DEFINE l == lg[s]
           m == Enforced(lg, R, total)[s]
           n == GivesUp(lg, R, total, s)
<1>1. l \in Log /\ l.from <= l.end /\ l.end \in Nat /\ l.from \in Nat /\ Size(l) \in Nat
  BY DEF Log, Size
<1>2. CASE s \notin R
  BY <1>1, <1>2 DEF Enforced
<1>3. CASE s \in R
  <2>1. SizeOf({t \in R : Quieter(lg, t, s)}, lg) \in Nat
    <3> DEFINE Q == {t \in R : Quieter(lg, t, s)}
    <3>1. IsFiniteSet(Q) /\ Q \subseteq Sessions
      BY FS_Subset
    <3>2. Sizes(Q, lg)
      BY <3>1 DEF Sizes, Size, Log
    <3> HIDE DEF Q
    <3>3. SizeOf(Q, lg) \in Nat
      BY <3>1, <3>2, SizeOfSteps
    <3> QED BY <3>3 DEF Q
  <2>2. n \in Nat /\ n <= Size(l)
    BY <1>1, <2>1, ExecAssumption DEF GivesUp, Smaller, Larger
  <2>3. m = [l EXCEPT !.from = @ + n]
    BY <1>3 DEF Enforced, TrimmedBy, GivesUp
  <2> HIDE DEF n, m, l
  <2>4. /\ m.from = l.from + n /\ m.end = l.end /\ m.cursor = l.cursor /\ m.last = l.last
        /\ m = [end |-> m.end, from |-> m.from, cursor |-> m.cursor, last |-> m.last]
        /\ l.cursor \in Nat /\ l.last \in Times
    BY <1>1, <2>3 DEF Log
  <2>5. m \in Log
    BY <1>1, <2>2, <2>4 DEF Log
  <2>6. m.from <= m.end /\ l.from <= m.from /\ Size(m) = Size(l) - n
    BY <1>1, <2>2, <2>4 DEF Size
  <2> QED BY <1>3, <2>2, <2>4, <2>5, <2>6 DEF n, m, l
<1> QED BY <1>2, <1>3

(* The trims of a budget add up: over any set of records that is closed under  *)
(* "quieter", the logs give up together what is over the limit, or all of it.   *)
LEMMA EnforcedSum ==
  ASSUME NEW R \in SUBSET Sessions, IsFiniteSet(R), NEW lg \in [Sessions -> Log],
         \A s \in Sessions : lg[s].from <= lg[s].end, NEW total \in Nat
  PROVE  SizeOf(R, Enforced(lg, R, total))
           = SizeOf(R, lg) - Smaller(SizeOf(R, lg), Larger(0, total - Total))
<1> DEFINE mg == Enforced(lg, R, total)
           excess == Larger(0, total - Total)
           DownClosed(D) == \A s \in D : \A t \in R : Quieter(lg, t, s) => t \in D
           T == {D \in SUBSET R : DownClosed(D) =>
                   SizeOf(D, mg) = SizeOf(D, lg) - Smaller(SizeOf(D, lg), excess)}
<1>1. excess \in Nat
  BY ExecAssumption DEF Larger
<1>2. \A s \in R : /\ Size(lg[s]) \in Nat /\ GivesUp(lg, R, total, s) \in Nat
                   /\ GivesUp(lg, R, total, s) <= Size(lg[s])
                   /\ Size(mg[s]) = Size(lg[s]) - GivesUp(lg, R, total, s)
  BY EnforcedLog DEF Size, Log
<1>3. ASSUME NEW D \in SUBSET R
      PROVE  IsFiniteSet(D) /\ Sizes(D, lg) /\ Sizes(D, mg) /\ Stamped(D, lg)
  <2>1. IsFiniteSet(D)
    BY FS_Subset
  <2>2. Sizes(D, lg) /\ Sizes(D, mg)
    BY <1>2 DEF Sizes
  <2>3. Stamped(D, lg)
    BY ExecAssumption DEF Stamped, Log, Times, Sessions
  <2> QED BY <2>1, <2>2, <2>3
<1> HIDE DEF mg, excess
<1>4. {} \in T
  <2>1. SizeOf({}, mg) = 0 /\ SizeOf({}, lg) = 0
    BY <1>3, SizeOfSteps
  <2> QED BY <1>1, <2>1 DEF Smaller
<1>5. ASSUME NEW D \in SUBSET R, D # {}, \A x \in D : D \ {x} \in T
      PROVE  D \in T
  <2> SUFFICES ASSUME DownClosed(D)
               PROVE  SizeOf(D, mg) = SizeOf(D, lg) - Smaller(SizeOf(D, lg), excess)
    OBVIOUS
  <2>1. PICK m \in D : \A t \in D \ {m} : Quieter(lg, t, m)
    BY <1>3, <1>5, LoudestExists
  <2>2. {t \in R : Quieter(lg, t, m)} = D \ {m}
    <3>1. ~Quieter(lg, m, m)
      BY <1>3 DEF Quieter, Stamped
    <3> QED BY <2>1, <3>1
  <2>3. DownClosed(D \ {m})
    <3> SUFFICES ASSUME NEW s \in D \ {m}, NEW t \in R, Quieter(lg, t, s) PROVE t \in D \ {m}
      OBVIOUS
    <3>1. t \in D
      OBVIOUS
    <3>2. t # m
      BY <1>3, <2>1 DEF Quieter, Stamped
    <3> QED BY <3>1, <3>2
  <2>4. SizeOf(D \ {m}, mg) = SizeOf(D \ {m}, lg) - Smaller(SizeOf(D \ {m}, lg), excess)
    BY <1>5, <2>3
  <2>5. /\ SizeOf(D, lg) = Size(lg[m]) + SizeOf(D \ {m}, lg)
        /\ SizeOf(D, mg) = Size(mg[m]) + SizeOf(D \ {m}, mg)
        /\ SizeOf(D \ {m}, lg) \in Nat /\ SizeOf(D \ {m}, mg) \in Nat
    BY <1>3, SizeOfSteps
  <2>6. GivesUp(lg, R, total, m)
          = Smaller(Size(lg[m]), Larger(0, total - Total - SizeOf(D \ {m}, lg)))
    BY <2>2 DEF GivesUp
  <2>7. Size(mg[m]) = Size(lg[m]) - GivesUp(lg, R, total, m) /\ Size(lg[m]) \in Nat
    BY <1>2 DEF mg
  <2> QED BY <2>4, <2>5, <2>6, <2>7, ExecAssumption DEF Smaller, Larger, excess
<1> HIDE DEF T
<1>6. \A D \in SUBSET R : D \in T
  BY <1>4, <1>5, SubsetInduction
<1> QED BY <1>6 DEF T, mg, excess

-----------------------------------------------------------------------------
(* The output part of the invariant, step by step                            *)

LEMMA SessionsAreFinite == IsFiniteSet(Sessions)
BY ExecAssumption, FS_Interval DEF Sessions

LEMMA Accounts ==
  ASSUME IInv
  PROVE  /\ records \in SUBSET Sessions /\ IsFiniteSet(records)
         /\ \A R \in SUBSET Sessions : IsFiniteSet(R) /\ Sizes(R, log) /\ SizeOf(R, log) \in Nat
         /\ cached \in Nat
<1>1. records \in SUBSET Sessions
  BY ExecAssumption DEF IInv, Lifecycle, LifecycleTypeOK, Sessions
<1>2. ASSUME NEW R \in SUBSET Sessions
      PROVE  IsFiniteSet(R) /\ Sizes(R, log) /\ SizeOf(R, log) \in Nat
  <2>1. IsFiniteSet(R)
    BY SessionsAreFinite, FS_Subset
  <2>2. Sizes(R, log)
    BY DEF IInv, OutputInv, LogOK, Log, Sizes, Size
  <2> QED BY <2>1, <2>2, SizeOfSteps
<1> QED BY <1>1, <1>2 DEF IInv, OutputInv

\* The counter of sweep() is exact.
LEMMA SweepAccounts ==
  ASSUME IInv
  PROVE  CachedAfterSweep = SizeOf(Kept, log) /\ CachedAfterSweep <= Total
<1>1. Swept \in SUBSET records
  BY SweptIsOver
<1>2. SizeOf(Kept, log) = SizeOf(records, log) - SizeOf(Swept, log)
  BY <1>1, Accounts, SizeOfDifference DEF Kept
<1>3. SizeOf(Swept, log) \in Nat /\ cached \in Nat
  BY <1>1, Accounts
<1> QED BY <1>2, <1>3, ExecAssumption DEF CachedAfterSweep, IInv, OutputInv

\* A step that appends nothing keeps the accounts.
LEMMA QuietStep ==
  ASSUME IInv, log' = log, (records' = records /\ cached' = cached) \/ SweepNow,
         \A s \in Sessions : Asleep(s)'
  PROVE  OutputInv'
<1>1. cached' = SizeOf(records', log) /\ cached' <= Total
  <2>1. CASE records' = records /\ cached' = cached
    BY <2>1 DEF IInv, OutputInv
  <2>2. CASE SweepNow
    BY <2>2, SweepAccounts DEF SweepNow
  <2> QED BY <2>1, <2>2
<1>2. SizeOf(records, log)' = SizeOf(records', log)
  OBVIOUS
<1> QED BY <1>1, <1>2 DEF IInv, OutputInv, LogOK, Size

\* A reader whose record and log say the same as before sleeps as rightly as before.
LEMMA StillAsleep ==
  ASSUME NEW s, Asleep(s), log'[s] = log[s], sess'[s].reader = sess[s].reader,
         sess'[s].readAt = sess[s].readAt, Terminal(sess'[s]) <=> Terminal(sess[s])
  PROVE  Asleep(s)'
BY DEF Asleep, Ready, ReadPosition

LEMMA WokenIsAsleep ==
  ASSUME NEW s, NEW r \in Session, sess'[s] = Woken(r, log'[s])
  PROVE  Asleep(s)'
<1> PICK l : l = log'[s]
  OBVIOUS
<1>1. sess'[s].reader = "waiting" => ~Ready(sess'[s], l, ReadPosition(sess'[s], l))
  BY WokenEvolves
<1> QED BY <1>1 DEF Asleep, Ready, ReadPosition

\* The default cursor moves in a read, and nothing else of the log.
LEMMA CursorStep ==
  ASSUME IInv, NEW s \in Sessions, log' = [log EXCEPT ![s].cursor = ReadUpTo(log[s], @)],
         UNCHANGED <<records, cached>>, \A t \in Sessions : Asleep(t)'
  PROVE  OutputInv'
<1> DEFINE l == log[s]
<1>1. /\ l \in Log /\ l.from \in Nat /\ l.end \in Nat /\ l.cursor \in Nat
  BY DEF IInv, OutputInv, Log
<1>2. ReadUpTo(l, l.cursor) \in Nat
  BY <1>1, ExecAssumption DEF ReadUpTo, Smaller, Larger
<1>3. /\ log'[s] = [l EXCEPT !.cursor = ReadUpTo(l, l.cursor)]
      /\ \A t \in Sessions \ {s} : log'[t] = log[t]
  BY DEF IInv, OutputInv
<1>4. log'[s] \in Log /\ log'[s].from = l.from /\ log'[s].end = l.end
  BY <1>1, <1>2, <1>3 DEF Log
<1>5. log' \in [Sessions -> Log]
  BY <1>4 DEF IInv, OutputInv
<1>6. \A t \in Sessions : Size(log'[t]) = Size(log[t]) /\ LogOK(log[t])'
  BY <1>3, <1>4 DEF Size, LogOK, IInv, OutputInv
<1>7. SizeOf(records, log') = SizeOf(records, log)
  BY <1>6, Accounts, SizeOfAgree
<1> QED BY <1>5, <1>6, <1>7 DEF IInv, OutputInv

LEMMA ReserveOutput ==
  ASSUME IInv, NEW s \in Sessions, Reserve(s)
  PROVE  OutputInv'
<1>1. /\ s = seq + 1 /\ records' = Kept \cup {s} /\ cached' = CachedAfterSweep
      /\ log' = [log EXCEPT ![s] = EmptyLog(now)]
      /\ sess' = [sess EXCEPT ![s] = Reserved]
  BY DEF Reserve, Update
<1>2. s \notin Kept /\ Kept \in SUBSET Sessions
  <2>1. Kept \subseteq 1 .. seq /\ seq \in Nat
    BY SweptIsOver, ExecAssumption DEF IInv, Lifecycle, LifecycleTypeOK
  <2>2. Kept \subseteq records
    BY SweptIsOver
  <2> QED BY <1>1, <2>1, <2>2, Accounts
<1>3. /\ log' \in [Sessions -> Log] /\ log'[s] = EmptyLog(now) /\ Size(log'[s]) = 0
      /\ \A t \in Sessions \ {s} : log'[t] = log[t] /\ sess'[t] = sess[t]
      /\ sess'[s] = Reserved
  <2>1. EmptyLog(now) \in Log /\ Size(EmptyLog(now)) = 0
    BY DEF EmptyLog, Log, Size, IInv, Lifecycle, LifecycleTypeOK
  <2> QED BY <1>1, <2>1 DEF IInv, OutputInv, Lifecycle, LifecycleTypeOK
<1>4. \A t \in Sessions : LogOK(log[t])'
  <2>1. EmptyLog(now).from <= EmptyLog(now).end
    BY DEF EmptyLog
  <2> QED BY <1>3, <2>1, ExecAssumption DEF LogOK, IInv, OutputInv, Size
<1>5. \A t \in Sessions : Asleep(t)'
  BY <1>3 DEF Asleep, IInv, OutputInv, Reserved, Unborn, Ready, ReadPosition
<1>6. SizeOf(records', log') = SizeOf(Kept, log)
  <2>1. IsFiniteSet(records') /\ Sizes(records', log')
    <3>1. IsFiniteSet(records')
      BY <1>1, <1>2, Accounts, FS_AddElement
    <3>2. \A t \in records' : Size(log'[t]) \in Nat
      BY <1>1, <1>2, <1>3, Accounts DEF Sizes
    <3> QED BY <3>1, <3>2 DEF Sizes
  <2>2. SizeOf(records', log') = Size(log'[s]) + SizeOf(records' \ {s}, log')
    <3>1. s \in records'
      BY <1>1
    <3> QED BY ONLY <2>1, <3>1, SizeOfSteps
  <2>3. records' \ {s} = Kept
    BY <1>1, <1>2
  <2>4. SizeOf(Kept, log') = SizeOf(Kept, log) /\ SizeOf(Kept, log) \in Nat
    <3>1. IsFiniteSet(Kept) /\ Sizes(Kept, log) /\ SizeOf(Kept, log) \in Nat
      BY <1>2, Accounts
    <3>2. \A t \in Kept : Size(log'[t]) = Size(log[t])
      BY <1>2, <1>3
    <3> QED BY <3>1, <3>2, SizeOfAgree
  <2> QED BY <1>3, <2>2, <2>3, <2>4
<1> QED BY <1>1, <1>3, <1>4, <1>5, <1>6, SweepAccounts DEF OutputInv

(* The 'output' event: append, trim one log to its budget and all of them to   *)
(* the common one, and take from the counter what the trims took.              *)
LEMMA OutputAccounts ==
  ASSUME IInv, NEW s \in Sessions, NEW n \in Nat, Output(s, n)
  PROVE  OutputInv'
<1> DEFINE l == log[s]
           a == [Appended(l, n) EXCEPT !.last = now]
           grown == [log EXCEPT ![s] = [Appended(@, n) EXCEPT !.last = now]]
           counted == cached + Size(grown[s]) - Size(log[s])
<1>1. /\ log' = Enforced(grown, records, counted)
      /\ cached' = counted - (SizeOf(records, grown) - SizeOf(records, log'))
      /\ sess' = [sess EXCEPT ![s] = Woken(sess[s], log'[s])]
      /\ records' = records /\ sess[s].handle
  BY DEF Output, Update
<1>2. /\ l \in Log /\ l.from <= l.end /\ Size(l) <= PerSession
      /\ l.from \in Nat /\ l.end \in Nat /\ l.cursor \in Nat /\ now \in Times
  BY DEF IInv, OutputInv, LogOK, Log, Lifecycle, LifecycleTypeOK
<1>3. /\ a = [end |-> l.end + n, from |-> Larger(l.from, l.end + n - PerSession),
              cursor |-> l.cursor, last |-> now]
  <2> DEFINE f == Larger(l.from, l.end + n - PerSession)
  <2>1. Appended(l, n) = [l EXCEPT !.end = l.end + n, !.from = f]
    BY DEF Appended
  <2> HIDE DEF f, l
  <2>2. Appended(l, n) = [end |-> l.end + n, from |-> f, cursor |-> l.cursor, last |-> l.last]
    BY <1>2, <2>1 DEF Log
  <2> QED BY <2>2 DEF f
<1>4. /\ a \in Log /\ a.from <= a.end /\ Size(a) <= PerSession /\ Size(a) \in Nat
      /\ l.from <= a.from
  BY <1>2, <1>3, ExecAssumption DEF Log, Larger, Size
<1>5. /\ grown \in [Sessions -> Log] /\ grown[s] = a
      /\ \A t \in Sessions \ {s} : grown[t] = log[t]
  BY <1>2, <1>4 DEF IInv, OutputInv
<1> HIDE DEF grown, a
<1>6. s \in records
  BY <1>1 DEF IInv, Lifecycle, SessionOK, RecordOK, Evictable, Unborn
<1>7. counted = SizeOf(records, grown) /\ counted \in Nat
  <2>1. IsFiniteSet(records) /\ Sizes(records, log) /\ Sizes(records, grown)
    BY <1>4, <1>5, Accounts DEF Sizes
  <2>2. /\ SizeOf(records, log) = Size(log[s]) + SizeOf(records \ {s}, log)
        /\ SizeOf(records, grown) = Size(grown[s]) + SizeOf(records \ {s}, grown)
        /\ SizeOf(records, grown) \in Nat
    BY <1>6, <2>1, SizeOfSteps
  <2>3. SizeOf(records \ {s}, grown) = SizeOf(records \ {s}, log)
    <3>1. records \ {s} \in SUBSET Sessions
      BY Accounts
    <3>2. IsFiniteSet(records \ {s}) /\ Sizes(records \ {s}, log)
      BY <3>1, Accounts
    <3>3. \A t \in records \ {s} : Size(grown[t]) = Size(log[t])
      BY <1>5, <3>1
    <3> QED BY <3>2, <3>3, SizeOfAgree
  <2>4. SizeOf(records \ {s}, log) \in Nat /\ Size(log[s]) \in Nat /\ Size(grown[s]) \in Nat
    <3>1. records \ {s} \in SUBSET Sessions /\ {s} \in SUBSET Sessions
      BY Accounts
    <3> QED BY <1>4, <1>5, <3>1, Accounts DEF Sizes
  <2> QED BY <2>2, <2>3, <2>4 DEF IInv, OutputInv
<1> HIDE DEF counted
<1>8. \A t \in Sessions : grown[t].from <= grown[t].end /\ Size(grown[t]) <= PerSession
  BY <1>4, <1>5 DEF IInv, OutputInv, LogOK
<1>9. ASSUME NEW t \in Sessions
      PROVE  /\ log'[t] \in Log /\ log'[t].end = grown[t].end /\ log'[t].cursor = grown[t].cursor
             /\ grown[t].from <= log'[t].from /\ log'[t].from <= log'[t].end
             /\ Size(log'[t]) <= PerSession
  <2>1. /\ log'[t] \in Log /\ log'[t].end = grown[t].end /\ log'[t].cursor = grown[t].cursor
        /\ grown[t].from <= log'[t].from /\ log'[t].from <= log'[t].end
    BY <1>1, <1>5, <1>7, <1>8, Accounts, EnforcedLog
  <2>2. Size(log'[t]) <= Size(grown[t])
    BY <1>5, <2>1 DEF Size, Log
  <2>3. Size(log'[t]) \in Int /\ Size(grown[t]) \in Int
    BY <1>5, <2>1 DEF Size, Log
  <2> QED BY <1>8, <2>1, <2>2, <2>3, ExecAssumption
<1>10. log' \in [Sessions -> Log]
  BY <1>1, <1>9 DEF Enforced
<1>11. cached' = SizeOf(records, log') /\ cached' <= Total
  <2>1. SizeOf(records, log') = SizeOf(records, grown)
                                 - Smaller(SizeOf(records, grown), Larger(0, counted - Total))
    BY <1>1, <1>5, <1>7, <1>8, Accounts, EnforcedSum
  <2> QED BY <1>1, <1>7, <2>1, ExecAssumption DEF Smaller, Larger
<1>12. ASSUME NEW t \in Sessions PROVE Asleep(t)'
  <2>1. sess[s] \in Session /\ sess \in [Sessions -> Session]
    BY DEF IInv, Lifecycle, LifecycleTypeOK
  <2>2. CASE t = s
    BY <1>1, <2>1, <2>2, WokenIsAsleep
  <2>3. CASE t # s
    <3>1. /\ sess'[t] = sess[t] /\ log'[t].end = log[t].end /\ log'[t].cursor = log[t].cursor
          /\ log'[t].from <= log[t].end
      BY <1>1, <1>5, <1>9, <2>1, <2>3
    <3>2. /\ Asleep(t) /\ log[t].end \in Nat /\ log'[t].from \in Nat /\ log[t].cursor \in Nat
          /\ sess[t].readAt \in Nat \cup {Null}
      BY <1>9, <2>1 DEF IInv, OutputInv, Log, Session
    <3>3. ReadPosition(sess[t], log[t]) \in Nat /\ ReadPosition(sess'[t], log'[t]) = ReadPosition(sess[t], log[t])
      BY <3>1, <3>2 DEF ReadPosition, Null
    <3> QED BY <3>1, <3>2, <3>3 DEF Asleep, Ready
  <2> QED BY <2>2, <2>3
<1> QED BY <1>1, <1>8, <1>9, <1>10, <1>11, <1>12 DEF OutputInv, LogOK

\* Steps that change one record and no log.
LEMMA OneSessionOutput ==
  ASSUME IInv, NEW s \in Sessions, NEW q, Update(s, q), log' = log,
         (records' = records /\ cached' = cached) \/ SweepNow,
         sess'[s] = q => Asleep(s)'
  PROVE  OutputInv'
<1>1. sess'[s] = q /\ \A t \in Sessions \ {s} : sess'[t] = sess[t]
  BY DEF Update, IInv, Lifecycle, LifecycleTypeOK
<1>2. \A t \in Sessions : Asleep(t)'
  BY <1>1 DEF Asleep, Ready, ReadPosition, IInv, OutputInv
<1> QED BY <1>2, QuietStep

LEMMA StartFailsOutput ==
  ASSUME IInv, NEW s \in Sessions, StartFails(s)
  PROVE  OutputInv'
<1> DEFINE e == Ended(sess[s], "start_failed")
           w == [e EXCEPT !.call = "waiting"]
<1>1. e \in Session
  BY EndedOK DEF IInv, Lifecycle, LifecycleTypeOK
<1> HIDE DEF e
<1>2. w \in Session
  BY <1>1 DEF Session
<1> HIDE DEF w
<1>3. Update(s, Woken(w, log[s])) /\ log' = log /\ UNCHANGED <<records, cached>>
  BY DEF StartFails, w, e
<1>4. sess'[s] = Woken(w, log[s]) => Asleep(s)'
  BY <1>2, <1>3, WokenIsAsleep
<1> QED BY <1>3, <1>4, OneSessionOutput

LEMMA SpawnOutput ==
  ASSUME IInv, NEW s \in Sessions, NEW timed \in BOOLEAN, Spawn(s, timed)
  PROVE  OutputInv'
<1> DEFINE spawned == [sess[s] EXCEPT !.handle = TRUE, !.call = "waiting"]
           checked == IF MustDieAtOnce(spawned)
                        THEN BeginTermination(spawned, TRUE, "terminate") ELSE spawned
           w == [checked EXCEPT !.timer = timed /\ checked.reason = "none"]
<1>1. sess[s] \in Session /\ sess[s].call = "opening" /\ ~Terminal(sess[s])
  BY DEF IInv, Lifecycle, LifecycleTypeOK, SessionOK, RecordOK, Spawn
<1>2. spawned \in Session /\ ~Terminal(spawned)
  BY <1>1 DEF Session
<1> HIDE DEF spawned
<1>3. checked \in Session
  BY <1>2, BeginTerminationFields
<1> HIDE DEF checked
<1>4. w \in Session
  BY <1>3 DEF Session
<1> HIDE DEF w
<1>5. Update(s, Woken(w, log[s])) /\ log' = log /\ UNCHANGED <<records, cached>>
  BY DEF Spawn, w, checked, spawned
<1>6. sess'[s] = Woken(w, log[s]) => Asleep(s)'
  BY <1>4, <1>5, WokenIsAsleep
<1> QED BY <1>5, <1>6, OneSessionOutput

LEMMA ClosedOutput ==
  ASSUME IInv, NEW s \in Sessions, NEW faulty \in BOOLEAN, Closed(s, faulty)
  PROVE  OutputInv'
<1> DEFINE e == Ended(sess[s], FinalState(sess[s], faulty))
           w == [e EXCEPT !.timer = FALSE, !.escalation = IF @ = "armed" THEN "fired" ELSE @]
<1>1. e \in Session
  <2>1. FinalState(sess[s], faulty) \in TerminalStates
    BY DEF FinalState
  <2> QED BY <2>1, EndedOK DEF IInv, Lifecycle, LifecycleTypeOK
<1> HIDE DEF e
<1>2. w \in Session
  <2>1. PICK esc \in {"none", "armed", "fired"} :
          esc = IF e.escalation = "armed" THEN "fired" ELSE e.escalation
    BY <1>1 DEF Session
  <2>2. w = [e EXCEPT !.timer = FALSE, !.escalation = esc]
    BY <1>1, <2>1 DEF Session
  <2> HIDE DEF w
  <2> QED BY <1>1, <2>2 DEF Session
<1> HIDE DEF w
<1>3. Update(s, Woken(w, log[s])) /\ log' = log /\ UNCHANGED <<records, cached>>
  BY DEF Closed, w, e
<1>4. sess'[s] = Woken(w, log[s]) => Asleep(s)'
  BY <1>2, <1>3, WokenIsAsleep
<1> QED BY <1>3, <1>4, OneSessionOutput

\* Requests to end a session touch neither what its reader waits for nor whether it is over.
LEMMA TerminatingOutput ==
  ASSUME IInv, NEW s \in Sessions, TimeoutFires(s) \/ EscalationFires(s)
  PROVE  OutputInv'
<1> DEFINE r == sess[s]
<1>1. RecordOK(r) /\ r.state # "unborn" /\ Asleep(s)
  BY Exists DEF IInv, OutputInv, TimeoutFires, EscalationFires
<1>2. CASE TimeoutFires(s)
  <2> DEFINE b == BeginTermination(r, FALSE, "timeout")
             q == [b EXCEPT !.timer = FALSE]
  <2>1. Update(s, q) /\ log' = log /\ UNCHANGED <<records, cached>>
    BY <1>2 DEF TimeoutFires
  <2>2. /\ b \in Session /\ b.reader = r.reader /\ b.readAt = r.readAt
        /\ Terminal(b) <=> Terminal(r)
    BY <1>1, BeginTerminationEvolves DEF Evolves, RecordOK
  <2> HIDE DEF b
  <2>3. q.reader = r.reader /\ q.readAt = r.readAt /\ (Terminal(q) <=> Terminal(r))
    BY <2>2 DEF Session
  <2> HIDE DEF q
  <2>4. sess'[s] = q => Asleep(s)'
    BY <1>1, <2>1, <2>3, StillAsleep
  <2> QED BY <2>1, <2>4, OneSessionOutput
<1>3. CASE EscalationFires(s)
  <2> DEFINE b == SignalUnlessEnded(r, "kill")
             q == [b EXCEPT !.escalation = "fired"]
  <2>1. Update(s, q) /\ log' = log /\ UNCHANGED <<records, cached>>
    BY <1>3 DEF EscalationFires
  <2>2. b \in Session /\ b = [r EXCEPT !.sent = b.sent] /\ r \in Session
    BY <1>1, SignalEvolves DEF Evolves, RecordOK
  <2> HIDE DEF b, r
  <2>3. b.reader = r.reader /\ b.readAt = r.readAt /\ b.state = r.state
    BY <2>2 DEF Session
  <2>4. q.reader = r.reader /\ q.readAt = r.readAt /\ (Terminal(q) <=> Terminal(r))
    BY <2>2, <2>3 DEF Session
  <2> HIDE DEF q
  <2>5. sess'[s] = q => Asleep(s)'
    BY <1>1, <2>1, <2>4, StillAsleep DEF r
  <2> QED BY <2>1, <2>5, OneSessionOutput
<1> QED BY <1>2, <1>3

LEMMA TerminateOutput ==
  ASSUME IInv, NEW s \in Sessions, NEW force \in BOOLEAN, Terminate(s, force)
  PROVE  OutputInv'
<1> DEFINE r == sess[s]
           q == BeginTermination(r, force, "terminate")
<1>1. RecordOK(r) /\ r.state # "unborn" /\ Asleep(s)
  BY Exists, SweptIsOver DEF IInv, OutputInv, Terminate
<1>2. Update(s, q) /\ log' = log /\ SweepNow
  BY DEF Terminate
<1>3. q.reader = r.reader /\ q.readAt = r.readAt /\ (Terminal(q) <=> Terminal(r))
  BY <1>1, BeginTerminationEvolves
<1> HIDE DEF q
<1>4. sess'[s] = q => Asleep(s)'
  BY <1>1, <1>2, <1>3, StillAsleep
<1> QED BY <1>2, <1>4, OneSessionOutput

LEMMA WriteBeginsOutput ==
  ASSUME IInv, NEW s \in Sessions, NEW at \in Nat \cup {Null}, NEW input \in BOOLEAN,
         WriteBegins(s, at, input)
  PROVE  OutputInv'
<1> DEFINE w == [sess[s] EXCEPT !.busy = TRUE, !.reader = "waiting", !.readAt = at]
<1>1. sess[s] \in Session
  BY DEF IInv, Lifecycle, LifecycleTypeOK
<1>2. w \in Session
  BY <1>1 DEF Session
<1> HIDE DEF w
<1>3. Update(s, Woken(w, log[s])) /\ log' = log /\ SweepNow
  BY DEF WriteBegins, w
<1>4. sess'[s] = Woken(w, log[s]) => Asleep(s)'
  BY <1>2, <1>3, WokenIsAsleep
<1> QED BY <1>3, <1>4, OneSessionOutput

\* Answers move the default cursor, of a session whose reader does not sleep any more.
LEMMA RepliesOutput ==
  ASSUME IInv, NEW s \in Sessions, ExecReply(s) \/ WriteReply(s)
  PROVE  OutputInv'
<1>1. sess[s] \in Session /\ sess \in [Sessions -> Session] /\ RecordOK(sess[s])
  BY DEF IInv, Lifecycle, LifecycleTypeOK, SessionOK
<1>2. sess'[s].reader = "idle" /\ \A t \in Sessions \ {s} : sess'[t] = sess[t]
  <2>1. CASE ExecReply(s)
    <3>1. sess' = [sess EXCEPT ![s] = [sess[s] EXCEPT !.call = "answered", !.busy = FALSE]]
      BY <2>1 DEF ExecReply, Update
    <3>2. sess[s].reader = "idle"
      BY <1>1, <2>1 DEF ExecReply, Resumable, RecordOK, Pending
    <3> QED BY <1>1, <3>1, <3>2 DEF Session
  <2>2. CASE WriteReply(s)
    <3>1. sess' = [sess EXCEPT ![s] = [sess[s] EXCEPT !.reader = "idle", !.readAt = Null, !.busy = FALSE]]
      BY <2>2 DEF WriteReply, Update
    <3> QED BY <1>1, <3>1 DEF Session
  <2> QED BY <2>1, <2>2
<1>3. /\ UNCHANGED <<records, cached>>
      /\ log' = log \/ log' = [log EXCEPT ![s].cursor = ReadUpTo(log[s], @)]
  BY DEF ExecReply, WriteReply
<1>4. \A t \in Sessions \ {s} : log'[t] = log[t]
  BY <1>3 DEF IInv, OutputInv
<1>5. \A t \in Sessions : Asleep(t)'
  BY <1>2, <1>4 DEF Asleep, Ready, ReadPosition, IInv, OutputInv
<1> QED BY <1>3, <1>5, CursorStep, QuietStep

LEMMA CloseOutput ==
  ASSUME IInv, Close
  PROVE  OutputInv'
<1>1. /\ log' = log /\ UNCHANGED <<records, cached>>
      /\ sess' = [s \in Sessions |-> IF s \in Active(records)
                                       THEN BeginTermination(sess[s], FALSE, "terminate")
                                       ELSE sess[s]]
  BY DEF Close
<1>2. ASSUME NEW s \in Sessions PROVE Asleep(s)'
  <2>1. Asleep(s) /\ RecordOK(sess[s])
    BY DEF IInv, OutputInv, Lifecycle, SessionOK
  <2>2. CASE s \in Active(records)
    <3>1. sess[s].state # "unborn"
      BY <2>2, Exists DEF Active, IInv
    <3>2. sess'[s] = BeginTermination(sess[s], FALSE, "terminate")
      BY <1>1, <2>2
    <3> DEFINE b == BeginTermination(sess[s], FALSE, "terminate")
    <3>3. /\ b.reader = sess[s].reader /\ b.readAt = sess[s].readAt
          /\ Terminal(b) <=> Terminal(sess[s])
      BY <2>1, <3>1, BeginTerminationEvolves
    <3> HIDE DEF b
    <3>4. sess'[s] = b
      BY <3>2 DEF b
    <3> QED BY <1>1, <2>1, <3>3, <3>4, StillAsleep
  <2>3. CASE s \notin Active(records)
    BY <1>1, <2>1, <2>3, StillAsleep
  <2> QED BY <2>2, <2>3
<1> QED BY <1>1, <1>2, QuietStep

LEMMA InitIInv == Init => IInv
<1> SUFFICES ASSUME Init PROVE OutputInv
  BY InitLifecycle DEF IInv
<1> USE ExecAssumption DEF Init
<1>1. \A s \in Sessions : /\ log[s] \in Log /\ LogOK(log[s]) /\ Size(log[s]) = 0 /\ Asleep(s)
  BY DEF EmptyLog, Log, LogOK, Size, Times, Asleep, Unborn
<1>2. SizeOf(records, log) = 0
  <2>1. IsFiniteSet(records) /\ Sizes(records, log) /\ records = {}
    BY FS_EmptySet DEF Sizes
  <2> QED BY <2>1, SizeOfSteps
<1> QED BY <1>1, <1>2 DEF OutputInv

LEMMA NextIInv == IInv /\ [Next]_vars => IInv'
<1> SUFFICES ASSUME IInv, [Next]_vars PROVE OutputInv'
  BY NextLifecycle DEF IInv
<1>1. ASSUME NEW s \in Sessions, NEW at \in 0 .. log[s].end \cup {Null}, NEW input \in BOOLEAN,
             WriteBegins(s, at, input)
      PROVE  OutputInv'
  <2>1. at \in Nat \cup {Null}
    BY DEF Null
  <2> QED BY <1>1, <2>1, WriteBeginsOutput
<1>2. ASSUME NEW s \in Sessions, NEW n \in 1 .. MaxOutput, Output(s, n) PROVE OutputInv'
  BY <1>2, OutputAccounts, ExecAssumption
<1>3. CASE Sweep \/ CloseDrained \/ CloseReturns \/ Tick \/ UNCHANGED vars
  <2>1. /\ log' = log /\ sess' = sess
        /\ (records' = records /\ cached' = cached) \/ SweepNow
    BY <1>3 DEF Sweep, CloseDrained, CloseReturns, Tick, vars
  <2>2. \A s \in Sessions : Asleep(s)'
    BY <2>1 DEF Asleep, IInv, OutputInv
  <2> QED BY <2>1, <2>2, QuietStep
<1> QED
  BY <1>1, <1>2, <1>3, ReserveOutput, StartFailsOutput, SpawnOutput, ClosedOutput,
     TerminatingOutput, TerminateOutput, RepliesOutput, CloseOutput DEF Next, SessionStep

(* With the lifecycle: the logs, the counter of retained output and the calls  *)
(* asleep in wait() agree after every step.                                    *)
THEOREM IInvInvariant == Spec => []IInv
BY InitIInv, NextIInv, PTL DEF Spec

(* Every reachable state has its type.                                         *)
THEOREM TypeCorrect == Spec => []TypeOK
<1>1. IInv => TypeOK
  BY Accounts DEF IInv, OutputInv, Lifecycle, TypeOK
<1> QED BY <1>1, IInvInvariant, PTL

(* A call sleeps in wait() only while what it waits for has not happened,       *)
(* though nothing but events re-examines the condition and the budget trims     *)
(* the logs of other sessions without one.                                      *)
THEOREM NoLostWakeupHolds == Spec => []NoLostWakeup
<1>1. IInv => NoLostWakeup
  BY DEF IInv, OutputInv, Asleep, NoLostWakeup, Lifecycle, SessionOK, RecordOK
<1> QED BY <1>1, IInvInvariant, PTL

(* The incremental counter is the sum of the retained logs, and neither one log *)
(* nor all of them pass their budgets, whatever is appended, trimmed and evicted. *)
THEOREM OutputIsAccountedHolds == Spec => []OutputIsAccounted
<1>1. IInv => OutputIsAccounted
  BY DEF IInv, OutputInv, LogOK, OutputIsAccounted
<1> QED BY <1>1, IInvInvariant, PTL
===============================================================================
