----------------------------- MODULE Supervisor -----------------------------
(***************************************************************************)
(* The launcher's supervisor (src/launcher/supervisor.ts, supervise()), as  *)
(* several launchers run it on one state directory: the launch lock, the    *)
(* start of the MCP server and then of the tunnel, and the stop.  Every     *)
(* action is one file operation, or one await, with the code up to the next.*)
(* POSIX, with the tunnel enabled.                                          *)
(***************************************************************************)
EXTENDS FiniteSets

CONSTANTS Launchers,   \* the launchers ever started, each with its own pid and run_id
          Earlier,     \* those that have died already, anywhere, their children gone too
          Outsider,    \* a program that is not a launcher's child
          Nobody,      \* no launcher, no program
          Contested    \* the kinds whose port an outsider may take

Kinds == {"mcp", "tunnel"}

ASSUME SupervisorAssumption == /\ Earlier \subseteq Launchers
                               /\ Nobody \notin Launchers \cup {Outsider}
                               /\ Outsider \notin Launchers
                               /\ Contested \subseteq Kinds

VARIABLES pc,          \* what each launcher does next
          turn,        \* the kind of child it is starting or stopping
          cancelled,   \* cancelled
          failed,      \* failed is set
          seen,        \* the run record read before a lock is judged
          lock,        \* launch.lock exists
          owner,       \* whose pid is in launch.lock/owner.json
          record,      \* whose run is in supervisor.json
          socket,      \* who has bound control.sock
          child,       \* each launcher's children
          port,        \* whose child, or who else, holds the port of each kind
          overlap      \* history: two launchers have been removing a lock at the same time

process == <<pc, turn, cancelled, failed, seen>>
disk == <<lock, owner, record, socket>>
world == <<child, port>>
vars == <<process, disk, world, overlap>>

(* off; mkdir, record, inspect      take the lock, or judge the one found            *)
(* clear_*, remake                  remove a dead owner's files, make the lock again *)
(* sign, ports, listen, save        own it, check the ports, listen, first record    *)
(* start, note, wait                spawn a child, save its pid, wait for its health *)
(* check, ready, serving            last check, state "ready" saved, in use          *)
(* stop, grace                      end a child and wait for it                      *)
(* close, verify, drop_*, ended     close the socket, remove the own files           *)
(* refused                          supervise() returned or threw without the lock   *)
(* dead                             the process has exited or crashed                *)
Judging  == {"record", "inspect"}
Clearing == {"clear_owner", "clear_record", "clear_socket", "clear_lock", "remake"}
Opening  == {"ports", "listen"}
Managing == {"save", "start", "note", "wait", "check", "ready", "serving"}
Dropping == {"drop_record", "drop_socket", "drop_owner", "drop_lock"}
Stopping == {"stop", "grace", "close", "verify", "ended"} \cup Dropping
Steps == {"off", "mkdir", "sign", "refused", "dead"} \cup Judging \cup Clearing \cup Opening \cup Managing \cup Stopping

States == {"none", "booting", "up", "killed", "gone"}   \* killed: SIGKILL is on its way

Attended == Managing \cup {"stop", "grace", "dead"}     \* where a child may run

TypeOK == /\ pc \in [Launchers -> Steps]
          /\ turn \in [Launchers -> Kinds]
          /\ cancelled \in [Launchers -> BOOLEAN]
          /\ failed \in [Launchers -> BOOLEAN]
          /\ seen \in [Launchers -> Launchers \cup {Nobody}]
          /\ lock \in BOOLEAN
          /\ {owner, record, socket} \subseteq Launchers \cup {Nobody}
          /\ child \in [Launchers -> [Kinds -> States]]
          /\ port \in [Kinds -> Launchers \cup {Outsider, Nobody}]
          /\ overlap \in BOOLEAN
          /\ owner # Nobody => lock
          /\ \A l \in Launchers, k \in Kinds : child[l][k] \in {"booting", "up"} => pc[l] \in Attended

\* What the earlier launchers left: with the lock any of the files, else none.
Init == /\ pc = [l \in Launchers |-> IF l \in Earlier THEN "dead" ELSE "off"]
        /\ turn = [l \in Launchers |-> "mcp"]
        /\ cancelled = [l \in Launchers |-> FALSE]
        /\ failed = [l \in Launchers |-> FALSE]
        /\ seen = [l \in Launchers |-> Nobody]
        /\ lock \in BOOLEAN
        /\ LET Left == IF lock THEN Earlier \cup {Nobody} ELSE {Nobody}
           IN owner \in Left /\ record \in Left /\ socket \in Left
        /\ child = [l \in Launchers |-> [k \in Kinds |-> "none"]]
        /\ port = [k \in Kinds |-> Nobody]
        /\ overlap = FALSE

-----------------------------------------------------------------------------
At(l, step) == pc[l] = step
In(l, steps) == pc[l] \in steps
Goto(l, step) == pc' = [pc EXCEPT ![l] = step]
Alive(l) == l \in Launchers /\ pc[l] \notin {"off", "dead"}    \* process.kill(pid, 0)
Interrupted(l) == cancelled[l] \/ failed[l]
Runs(l, k) == child[l][k] \in {"booting", "up"}
Become(l, k, state) == child' = [child EXCEPT ![l][k] = state]

\* The head of a step of l: where it is, and where it goes.
Move(l, from, to) == /\ At(l, from) /\ Goto(l, to)
                     /\ UNCHANGED <<turn, cancelled, failed, seen>>

\* stop() begins with the tunnel, the child started last.
BeginStop(l) == /\ Goto(l, "stop")
                /\ turn' = [turn EXCEPT ![l] = "tunnel"]

-----------------------------------------------------------------------------
(* The lock.                                                                 *)

\* current(): does the recorded run answer "starting" or "ready"?  If so it is returned.
Managed == record # Nobody /\ In(record, Managing) /\ socket = record
Launch(l) == /\ Move(l, "off", IF Managed THEN "refused" ELSE "mkdir")
             /\ UNCHANGED <<disk, world>>

MakeLock(l) == /\ \/ lock /\ Move(l, "mkdir", "record")        \* EEXIST
                  \/ lock /\ Move(l, "remake", "refused")
                  \/ ~lock /\ (Move(l, "mkdir", "sign") \/ Move(l, "remake", "sign"))
               /\ lock' = TRUE
               /\ UNCHANGED <<owner, record, socket, world>>

ReadRecord(l) == /\ At(l, "record")
                 /\ Goto(l, "inspect")
                 /\ seen' = [seen EXCEPT ![l] = record]
                 /\ UNCHANGED <<turn, cancelled, failed, disk, world>>

\* readFile(owner.json), then the pid in it; without one the age of the directory.  The
\* 15 seconds are taken to exceed the time a launcher needs from making the directory to
\* signing it, from emptying to removing it, and from looking into it to its age: an
\* ownerless lock may be old only if no live launcher is in the middle of those.
Unprobed(l) == TRUE
NeverDead(l) == FALSE
Fleeting == \E q \in Launchers : In(q, {"sign", "drop_lock"} \cup Clearing)
Removable(l) == /\ ~Alive(owner)
                /\ ~Alive(seen[l])
                /\ owner = Nobody => lock /\ ~Fleeting
Inspect(l) == /\ \/ Removable(l) /\ Move(l, "inspect", "clear_owner")
                 \/ (~Removable(l) \/ owner = Nobody) /\ Move(l, "inspect", "refused")
              /\ UNCHANGED <<disk, world>>

\* The files one by one, whosever they are by now: when reclaiming, and when stopping.
UnlinkOwner(l) == /\ Move(l, "clear_owner", "clear_record") \/ Move(l, "drop_owner", "drop_lock")
                  /\ owner' = Nobody
                  /\ UNCHANGED <<lock, record, socket, world>>
UnlinkRecord(l) == /\ Move(l, "clear_record", "clear_socket") \/ Move(l, "drop_record", "drop_socket")
                   /\ record' = Nobody
                   /\ UNCHANGED <<lock, owner, socket, world>>
UnlinkSocket(l) == /\ Move(l, "clear_socket", "clear_lock") \/ Move(l, "drop_socket", "drop_owner")
                   /\ socket' = Nobody
                   /\ UNCHANGED <<lock, owner, record, world>>

\* rmdir: not while there is a file in it, "never a recursive directory tree".
Empty == lock /\ owner = Nobody
RemoveLock(l) == /\ \/ Move(l, "clear_lock", IF Empty THEN "remake" ELSE "refused")
                    \/ Move(l, "drop_lock", "ended")
                 /\ lock' = (lock /\ ~Empty)
                 /\ UNCHANGED <<owner, record, socket, world>>

\* writeFile(owner.json) fails without the directory.
Sign(l) == /\ Move(l, "sign", IF lock THEN "ports" ELSE "refused")
           /\ owner' = IF lock THEN l ELSE owner
           /\ UNCHANGED <<lock, record, socket, world>>

-----------------------------------------------------------------------------
(* The start.  A failure, a signal seen at a check or a timeout ends in stop().  *)

\* What ends an await: on to the next step, or the exception's stop().
Continue(l, from, to) == At(l, from) /\ Goto(l, to) /\ UNCHANGED turn
Abandon(l, from) == At(l, from) /\ BeginStop(l)

\* available() for both ports; the check after it.
CheckPorts(l) == /\ IF (\A k \in Kinds : port[k] = Nobody) /\ ~cancelled[l]
                      THEN Continue(l, "ports", "listen")
                      ELSE Abandon(l, "ports")
                 /\ UNCHANGED <<cancelled, failed, seen, disk, world>>

Listen(l) == /\ IF socket = Nobody THEN Continue(l, "listen", "save") ELSE Abandon(l, "listen")
             /\ socket' = IF socket = Nobody THEN l ELSE socket
             /\ UNCHANGED <<cancelled, failed, seen, lock, owner, record, world>>

\* save(): the first record, the one with a new pid, and the one that says "ready".  A
\* signal or an ending child met by the last one is looked at again once it is written.
Unlooked(l) == FALSE
Withdrawn(l) == Interrupted(l)
Save(l) == /\ \/ Continue(l, "save", "start")
              \/ Continue(l, "note", "wait")
              \/ ~Withdrawn(l) /\ Continue(l, "ready", "serving")
              \/ Withdrawn(l) /\ Abandon(l, "ready")
           /\ record' = l
           /\ UNCHANGED <<cancelled, failed, seen, lock, owner, socket, world>>

\* start(): spawn fails or succeeds.
Start(l) == /\ LET k == turn[l] IN
               \/ cancelled[l] /\ Abandon(l, "start") /\ UNCHANGED child
               \/ ~cancelled[l] /\ Abandon(l, "start") /\ Become(l, k, "gone")
               \/ ~cancelled[l] /\ Continue(l, "start", "note") /\ Become(l, k, "booting")
            /\ UNCHANGED <<cancelled, failed, seen, disk, port>>

\* waitHealth(): whoever holds the port may give the expected answer.  Then the tunnel's
\* turn, or the first health snapshot.
Healthy(l) == /\ At(l, "wait")
              /\ ~Interrupted(l)
              /\ port[turn[l]] # Nobody
              /\ Goto(l, IF turn[l] = "mcp" THEN "start" ELSE "check")
              /\ turn' = [turn EXCEPT ![l] = "tunnel"]
              /\ UNCHANGED <<cancelled, failed, seen, disk, world>>
GiveUp(l) == /\ Abandon(l, "wait")
             /\ UNCHANGED <<cancelled, failed, seen, disk, world>>

CheckReady(l) == /\ IF Interrupted(l) THEN Abandon(l, "check") ELSE Continue(l, "check", "ready")
                 /\ UNCHANGED <<cancelled, failed, seen, disk, world>>

-----------------------------------------------------------------------------
(* The stop.                                                                  *)

\* The children in reverse order of their start; those that are gone are passed over.
NextChild(l) == IF turn[l] = "tunnel" THEN Goto(l, "stop") /\ turn' = [turn EXCEPT ![l] = "mcp"]
                                      ELSE Goto(l, "close") /\ UNCHANGED turn
Terminate(l) == /\ At(l, "stop")    \* SIGTERM
                /\ IF Runs(l, turn[l]) THEN Goto(l, "grace") /\ UNCHANGED turn ELSE NextChild(l)
                /\ UNCHANGED <<cancelled, failed, seen, disk, world>>

\* It is gone, or 16 s later SIGKILL and 100 ms for that.
Kill(l) == Become(l, turn[l], "killed")
GraceEnds(l) == /\ At(l, "grace")
                /\ NextChild(l)
                /\ \/ ~Runs(l, turn[l]) /\ UNCHANGED child
                   \/ Runs(l, turn[l]) /\ Kill(l)
                /\ UNCHANGED <<cancelled, failed, seen, disk, port>>

\* server.close() takes its socket away with it.
CloseServer(l) == /\ Move(l, "close", "verify")
                  /\ socket' = IF socket = l THEN Nobody ELSE socket
                  /\ UNCHANGED <<lock, owner, record, world>>

\* "Files belong to this process, verified before removing the run record": also if
\* there is no record at all.
OwnRecord(l) == record \in {l, Nobody}
Verify(l) == /\ Move(l, "verify", IF OwnRecord(l) THEN "drop_record" ELSE "ended")
             /\ UNCHANGED <<disk, world>>

-----------------------------------------------------------------------------
(* What comes from outside.                                                   *)

\* The first SIGTERM or SIGINT, or /stop through the socket: onSignal().
Signal(l) == /\ In(l, Opening \cup Managing \cup Stopping)
             /\ ~cancelled[l]
             /\ cancelled' = [cancelled EXCEPT ![l] = TRUE]
             /\ IF At(l, "serving") THEN BeginStop(l) ELSE UNCHANGED <<pc, turn>>
             /\ UNCHANGED <<failed, seen, disk, world>>

\* A second signal, or any other death, between any two steps; and the exit at the end.
\* The children live on, its memory does not.
Crash(l) == /\ Alive(l)
            /\ Goto(l, "dead")
            /\ turn' = [turn EXCEPT ![l] = "mcp"]
            /\ cancelled' = [cancelled EXCEPT ![l] = FALSE]
            /\ failed' = [failed EXCEPT ![l] = FALSE]
            /\ seen' = [seen EXCEPT ![l] = Nobody]
            /\ UNCHANGED <<disk, world>>

\* A child takes its port and is up; one that finds it taken can only end.
Boot(l, k) == /\ child[l][k] = "booting"
              /\ port[k] = Nobody
              /\ port' = [port EXCEPT ![k] = l]
              /\ Become(l, k, "up")
              /\ UNCHANGED <<process, disk>>

\* A child ends, by itself or as told; so does an orphan of a dead launcher.
Unexpected(l) == IF In(l, Managing) THEN /\ failed' = [failed EXCEPT ![l] = TRUE]
                                         /\ IF At(l, "serving") THEN BeginStop(l) ELSE UNCHANGED <<pc, turn>>
                                    ELSE UNCHANGED <<failed, pc, turn>>
ChildEnds(l, k) == /\ child[l][k] \in {"booting", "up", "killed"}
                   /\ Become(l, k, "gone")
                   /\ port' = [port EXCEPT ![k] = IF @ = l THEN Nobody ELSE @]
                   /\ Unexpected(l)
                   /\ UNCHANGED <<cancelled, seen, disk>>

\* The log of a child that was started cannot be written.
LogFails(l) == /\ In(l, Managing) /\ ~failed[l]
               /\ child[l]["mcp"] # "none"
               /\ Unexpected(l)
               /\ cancelled' = [cancelled EXCEPT ![l] = @ \/ At(l, "serving")]
               /\ UNCHANGED <<seen, disk, world>>

OutsiderBinds(k) == /\ k \in Contested
                    /\ port[k] = Nobody
                    /\ port' = [port EXCEPT ![k] = Outsider]
                    /\ UNCHANGED <<process, disk, child>>

-----------------------------------------------------------------------------
(* A launcher that has begun goes on: file operations return and waits end. *)
Proceed(l) == \/ MakeLock(l)
              \/ ReadRecord(l)
              \/ Inspect(l)
              \/ UnlinkOwner(l)
              \/ UnlinkRecord(l)
              \/ UnlinkSocket(l)
              \/ RemoveLock(l)
              \/ Sign(l)
              \/ CheckPorts(l)
              \/ Listen(l)
              \/ Save(l)
              \/ Start(l)
              \/ Healthy(l)
              \/ GiveUp(l)
              \/ CheckReady(l)
              \/ Terminate(l)
              \/ GraceEnds(l)
              \/ CloseServer(l)
              \/ Verify(l)

\* The stretch in which a launcher acts on what it read of a lock, or gives its own back.
Removing == {l \in Launchers : In(l, Clearing \cup Dropping)}
Noted == overlap' = (overlap \/ \E p, q \in Removing' : p # q)

Step(l) == \/ Launch(l)
           \/ Proceed(l)
           \/ Signal(l)
           \/ Crash(l)
           \/ LogFails(l)
           \/ \E k \in Kinds : Boot(l, k) \/ ChildEnds(l, k)
Next == /\ (\E l \in Launchers : Step(l)) \/ (\E k \in Kinds : OutsiderBinds(k))
        /\ Noted

Spec == Init /\ [][Next]_vars
FairSpec == Spec /\ \A l \in Launchers \ Earlier : WF_vars(Proceed(l) /\ Noted)

-----------------------------------------------------------------------------
(* Children can always be found and stopped: as long as no two launchers have  *)
(* been removing a lock at the same time, a live launcher with a child that     *)
(* runs is the one the lock, the run record and the socket name, so `status`    *)
(* and `down` reach it and no other launcher starts (supervisor.ts:81-94, 140). *)
ManagedIsOnRecord ==
  ~overlap => \A l \in Launchers : Alive(l) /\ (\E k \in Kinds : Runs(l, k)) =>
                lock /\ owner = l /\ socket = l /\ record = l

(* A stop, a failed start, a signal or an unexpected end of a child, at any      *)
(* moment, ends with no child running but one on its way out and with nothing   *)
(* of this run left in the state directory (supervisor.ts:118-147, 221).        *)
Clean(l) == /\ pc[l] = "ended"
            /\ \A k \in Kinds : ~Runs(l, k)
            /\ l \notin {owner, record, socket}
ShutdownIsClean ==
  \A l \in Launchers \ Earlier : Interrupted(l) \/ pc[l] = "stop" ~> Clean(l) \/ pc[l] = "dead" \/ overlap

(* What a dead launcher left, at whatever step it died, does not keep a later    *)
(* one out: alone, and with its ports free, it gets as far as a control socket   *)
(* (supervisor.ts:83-93; docs/DEPLOYMENT.md, "Stale locks").                     *)
Alone(l) == \A q \in Launchers \ {l} : ~Alive(q)
=============================================================================
