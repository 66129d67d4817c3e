-------------------------- MODULE Supervisor_proofs --------------------------
(***************************************************************************)
(* Proofs about Supervisor, for every number of launchers and whatever the  *)
(* earlier ones left in the state directory.                                *)
(***************************************************************************)
EXTENDS Supervisor, TLAPS

(* Where a launcher owns the lock, where it empties a dead one's, and where it *)
(* is at a lock at all.                                                       *)
Owning == Opening \cup Managing \cup {"stop", "grace", "close", "verify", "drop_record", "drop_socket", "drop_owner"}
Emptying == {"clear_owner", "clear_record", "clear_socket", "clear_lock"}
Inside == Owning \cup Emptying \cup {"sign", "drop_lock"}

(* The steps at which a file is gone, or not there yet.                       *)
NoOwner == {"sign", "drop_lock", "clear_record", "clear_socket", "clear_lock"}
NoRecord == {"sign", "drop_lock", "ports", "listen", "drop_socket", "drop_owner", "clear_socket", "clear_lock"}
NoSocket == {"sign", "drop_lock", "ports", "listen", "verify", "drop_record", "drop_socket", "drop_owner",
             "clear_lock"}

(* The children of a launcher: none before its first record, and ended in      *)
(* reverse order.  No owner of a lock is still to be launched.                 *)
ChildrenOK(l) == /\ At(l, "save") => \A k \in Kinds : ~Runs(l, k)
                 /\ In(l, {"stop", "grace"}) /\ turn[l] = "mcp" => ~Runs(l, "tunnel")
OwnerBegan == owner # Nobody => pc[owner] # "off"
Sound == TypeOK /\ OwnerBegan /\ \A l \in Launchers : ChildrenOK(l)

(* What a launcher inside finds on the disk, and that it is alone there.       *)
Place(l) == /\ In(l, Inside) => lock
            /\ In(l, Owning) => owner = l /\ record \in {l, Nobody} /\ socket \in {l, Nobody}
            /\ In(l, NoOwner) => owner = Nobody
            /\ In(l, NoRecord) => record = Nobody
            /\ In(l, NoSocket) => socket = Nobody
            /\ In(l, Emptying) => ~Alive(owner)
            /\ In(l, Managing) => socket = l
            /\ In(l, Managing \ {"save"}) => record = l
            /\ In(l, {"stop", "grace"}) /\ (\E k \in Kinds : Runs(l, k)) => record = l /\ socket = l
Sole(l) == In(l, Inside) => \A q \in Launchers \ {l} : ~In(q, Inside)
Unlocked == ~lock => owner = Nobody /\ record = Nobody /\ socket = Nobody
Exclusive == Unlocked /\ \A l \in Launchers : Place(l) /\ Sole(l)

IInv == Sound /\ (~overlap => Exclusive)

-----------------------------------------------------------------------------
USE DEF At, In, Goto, Kinds

(* The steps, written out where a proof has to tell them apart.               *)
LEMMA StepNames ==
  /\ Opening \subseteq Steps /\ Managing \subseteq Steps /\ Stopping \subseteq Steps /\ Attended \subseteq Steps
BY DEF Steps, Opening, Managing, Stopping, Dropping, Attended

LEMMA InitSound == Init => Sound
<1> SUFFICES ASSUME Init PROVE Sound
  OBVIOUS
<1>1. TypeOK
  BY SupervisorAssumption DEF Init, TypeOK, Steps, States
<1>2. OwnerBegan
  BY SupervisorAssumption DEF Init, OwnerBegan
<1>3. ASSUME NEW l \in Launchers PROVE ChildrenOK(l)
  BY SupervisorAssumption DEF Init, ChildrenOK, Runs
<1> QED BY <1>1, <1>2, <1>3 DEF Sound

(* A step of l that leaves the children alone.                                *)
LEMMA ProcessStep ==
  ASSUME Sound, NEW l \in Launchers, NEW to \in Steps, pc' = [pc EXCEPT ![l] = to],
         to # "off", to = "save" => pc[l] \in {"save"} \cup (Steps \ Attended),
         turn' \in [Launchers -> Kinds], \A q \in Launchers \ {l} : turn'[q] = turn[q],
         cancelled' \in [Launchers -> BOOLEAN], failed' \in [Launchers -> BOOLEAN],
         seen' \in [Launchers -> Launchers \cup {Nobody}],
         lock' \in BOOLEAN, {owner', record', socket'} \subseteq Launchers \cup {Nobody},
         owner' # Nobody => lock' /\ owner' \in {owner, l},
         UNCHANGED world, overlap' \in BOOLEAN,
         to \notin Attended => \A k \in Kinds : ~Runs(l, k),
         to \in {"stop", "grace"} /\ turn'[l] = "mcp" => ~Runs(l, "tunnel")
  PROVE  Sound'
<1>1. pc' \in [Launchers -> Steps] /\ pc'[l] = to /\ \A q \in Launchers \ {l} : pc'[q] = pc[q]
  BY DEF Sound, TypeOK
<1>2. UNCHANGED <<child, port>>
  BY DEF world
<1>3. \A q \in Launchers, k \in Kinds : Runs(q, k)' <=> Runs(q, k)
  BY <1>2 DEF Runs
<1>4. \A q \in Launchers, k \in Kinds : child'[q][k] \in {"booting", "up"} => pc'[q] \in Attended
  BY <1>1, <1>2 DEF Sound, TypeOK, Runs
<1>5. TypeOK'
  BY <1>1, <1>2, <1>4 DEF Sound, TypeOK
<1>6. OwnerBegan'
  BY <1>1 DEF Sound, OwnerBegan, TypeOK
<1>7. ASSUME NEW q \in Launchers PROVE ChildrenOK(q)'
  <2>1. CASE q # l
    BY <2>1, <1>1, <1>3 DEF Sound, ChildrenOK
  <2>2. CASE q = l
    BY <2>2, <1>1, <1>3 DEF Sound, ChildrenOK, TypeOK, Runs
  <2> QED BY <2>1, <2>2
<1> QED BY <1>5, <1>6, <1>7 DEF Sound

\* Up to the sign, and from the closing of the socket, no child runs.
LEMMA MoveSound ==
  ASSUME Sound, NEW l \in Launchers, NEW from \in Steps \ Attended, NEW to \in Steps \ Attended,
         Move(l, from, to), to # "off",
         lock' \in BOOLEAN, {owner', record', socket'} \subseteq Launchers \cup {Nobody},
         owner' # Nobody => lock' /\ owner' \in {owner, l},
         UNCHANGED world, overlap' \in BOOLEAN
  PROVE  Sound'
<1>1. to \notin {"save", "stop", "grace"}
  BY DEF Attended, Managing
<1>2. \A k \in Kinds : ~Runs(l, k)
  BY DEF Move, Sound, TypeOK, Runs
<1>3. /\ turn' \in [Launchers -> Kinds] /\ turn' = turn
      /\ cancelled' \in [Launchers -> BOOLEAN] /\ failed' \in [Launchers -> BOOLEAN]
      /\ seen' \in [Launchers -> Launchers \cup {Nobody}]
      /\ pc' = [pc EXCEPT ![l] = to]
  BY DEF Move, Sound, TypeOK
<1> QED BY <1>1, <1>2, <1>3, ProcessStep

LEMMA LockSound ==
  ASSUME Sound, NEW l \in Launchers, overlap' \in BOOLEAN,
         Launch(l) \/ MakeLock(l) \/ Inspect(l) \/ UnlinkOwner(l) \/ UnlinkRecord(l) \/ UnlinkSocket(l)
           \/ RemoveLock(l) \/ Sign(l) \/ CloseServer(l) \/ Verify(l)
  PROVE  Sound'
<1> DEFINE Outer == {"off", "mkdir", "sign", "refused", "ports", "close", "verify", "ended"}
                      \cup Judging \cup Clearing \cup Dropping
<1>0. /\ Outer \subseteq Steps \ Attended
      /\ {"off", "mkdir", "refused", "record", "remake", "sign", "inspect", "clear_owner", "clear_record",
          "clear_socket", "clear_lock", "drop_owner", "drop_record", "drop_socket", "drop_lock", "ended",
          "ports", "close", "verify"} \subseteq Outer
      /\ lock \in BOOLEAN /\ {owner, record, socket, Nobody, l} \subseteq Launchers \cup {Nobody}
      /\ owner # Nobody => lock
  BY DEF Steps, Attended, Managing, Judging, Clearing, Dropping, Stopping, Opening, Sound, TypeOK
<1> HIDE DEF Outer
<1>1. CASE Launch(l)
  BY <1>0, <1>1, MoveSound DEF Launch, disk
<1>2. CASE MakeLock(l)
  BY <1>0, <1>2, MoveSound DEF MakeLock
<1>3. CASE Inspect(l)
  BY <1>0, <1>3, MoveSound DEF Inspect, disk
<1>4. CASE UnlinkOwner(l)
  BY <1>0, <1>4, MoveSound DEF UnlinkOwner
<1>5. CASE UnlinkRecord(l)
  BY <1>0, <1>5, MoveSound DEF UnlinkRecord
<1>6. CASE UnlinkSocket(l)
  BY <1>0, <1>6, MoveSound DEF UnlinkSocket
<1>7. CASE RemoveLock(l)
  BY <1>0, <1>7, MoveSound DEF RemoveLock, Empty
<1>8. CASE Sign(l)
  BY <1>0, <1>8, MoveSound DEF Sign
<1>9. CASE CloseServer(l)
  BY <1>0, <1>9, MoveSound DEF CloseServer
<1>10. CASE Verify(l)
  BY <1>0, <1>10, MoveSound DEF Verify, disk
<1> QED BY <1>1, <1>2, <1>3, <1>4, <1>5, <1>6, <1>7, <1>8, <1>9, <1>10

\* Between two actions of the outside world and of a child the launcher goes its way.
LEMMA StartSound ==
  ASSUME Sound, NEW l \in Launchers, overlap' \in BOOLEAN,
         ReadRecord(l) \/ CheckPorts(l) \/ Listen(l) \/ Save(l) \/ Healthy(l) \/ GiveUp(l) \/ CheckReady(l)
           \/ Terminate(l)
  PROVE  Sound'
<1>0. /\ {"record", "inspect", "ports", "listen"} \subseteq Steps \ Attended
      /\ {"save", "start", "note", "wait", "check", "ready", "serving", "stop", "grace"} \subseteq Attended
      /\ Attended \subseteq Steps /\ "close" \in Steps \ Attended
      /\ "off" \notin Attended
      /\ turn[l] \in Kinds
  BY DEF Steps, Attended, Managing, Judging, Clearing, Dropping, Stopping, Opening, Sound, TypeOK
<1>1. /\ lock \in BOOLEAN /\ {owner, record, socket, Nobody, l} \subseteq Launchers \cup {Nobody}
      /\ owner # Nobody => lock
      /\ turn \in [Launchers -> Kinds] /\ cancelled \in [Launchers -> BOOLEAN] /\ failed \in [Launchers -> BOOLEAN]
      /\ seen \in [Launchers -> Launchers \cup {Nobody}]
      /\ pc[l] \notin Attended => \A k \in Kinds : ~Runs(l, k)
      /\ In(l, {"stop", "grace"}) /\ turn[l] = "mcp" => ~Runs(l, "tunnel")
  BY DEF Sound, TypeOK, Runs, ChildrenOK
<1> HIDE DEF Attended, Steps
<1>2. CASE ReadRecord(l)
  BY <1>0, <1>1, <1>2, ProcessStep DEF ReadRecord, disk
<1>3. CASE CheckPorts(l)
  BY <1>0, <1>1, <1>3, ProcessStep DEF CheckPorts, disk, Continue, Abandon, BeginStop
<1>4. CASE Listen(l)
  BY <1>0, <1>1, <1>4, ProcessStep DEF Listen, Continue, Abandon, BeginStop
<1>5. CASE Save(l)
  BY <1>0, <1>1, <1>5, ProcessStep DEF Save, Continue, Abandon, BeginStop
<1>6. CASE Healthy(l)
  BY <1>0, <1>1, <1>6, ProcessStep DEF Healthy, disk
<1>7. CASE GiveUp(l)
  BY <1>0, <1>1, <1>7, ProcessStep DEF GiveUp, Abandon, BeginStop, disk
<1>8. CASE CheckReady(l)
  BY <1>0, <1>1, <1>8, ProcessStep DEF CheckReady, Continue, Abandon, BeginStop, disk
<1>9. CASE Terminate(l)
  BY <1>0, <1>1, <1>9, ProcessStep DEF Terminate, NextChild, disk
<1> QED BY <1>2, <1>3, <1>4, <1>5, <1>6, <1>7, <1>8, <1>9

(* A step in which a child of l, or its port, changes.                        *)
Others(l) == /\ pc' \in [Launchers -> Steps] /\ turn' \in [Launchers -> Kinds]
             /\ \A q \in Launchers \ {l} : pc'[q] = pc[q] /\ turn'[q] = turn[q]

LEMMA ChildStep ==
  ASSUME Sound, NEW l \in Launchers, NEW k \in Kinds, NEW state \in States,
         Become(l, k, state), Others(l),
         cancelled' \in [Launchers -> BOOLEAN], failed' \in [Launchers -> BOOLEAN], UNCHANGED <<seen, disk>>,
         port' \in [Kinds -> Launchers \cup {Outsider, Nobody}], overlap' \in BOOLEAN,
         pc'[l] = "off" => pc[l] = "off",
         pc'[l] = "save" => pc[l] = "save",
         state \in {"booting", "up"} => pc'[l] \in Attended \ {"save"},
         pc'[l] \notin Attended => \A j \in Kinds \ {k} : ~Runs(l, j),
         pc'[l] \in {"stop", "grace"} /\ turn'[l] = "mcp" =>
           IF k = "tunnel" THEN state \notin {"booting", "up"} ELSE ~Runs(l, "tunnel")
  PROVE  Sound'
<1>1. pc' \in [Launchers -> Steps] /\ \A q \in Launchers \ {l} : pc'[q] = pc[q]
  BY DEF Others
<1>2. turn' \in [Launchers -> Kinds] /\ \A q \in Launchers \ {l} : turn'[q] = turn[q]
  BY DEF Others
<1>3. /\ child' \in [Launchers -> [Kinds -> States]]
      /\ child'[l][k] = state
      /\ \A j \in Kinds \ {k} : child'[l][j] = child[l][j]
      /\ \A q \in Launchers \ {l} : child'[q] = child[q]
  BY DEF Sound, TypeOK, Become
<1>4. /\ \A q \in Launchers \ {l} : \A j \in Kinds : Runs(q, j)' <=> Runs(q, j)
      /\ \A j \in Kinds \ {k} : Runs(l, j)' <=> Runs(l, j)
      /\ Runs(l, k)' <=> state \in {"booting", "up"}
  BY <1>3 DEF Runs
<1>5. \A q \in Launchers, j \in Kinds : Runs(q, j)' => pc'[q] \in Attended
  BY <1>1, <1>4 DEF Sound, TypeOK, Runs
<1>6. TypeOK'
  BY <1>1, <1>2, <1>3, <1>5 DEF Sound, TypeOK, Runs, disk
<1>7. OwnerBegan'
  BY <1>1 DEF Sound, OwnerBegan, TypeOK, disk
<1>8. ASSUME NEW q \in Launchers \ {l} PROVE ChildrenOK(q)'
  BY <1>8, <1>1, <1>2, <1>4 DEF Sound, ChildrenOK
<1>9. ChildrenOK(l)'
  BY <1>1, <1>2, <1>4 DEF Sound, ChildrenOK
<1> QED BY <1>6, <1>7, <1>8, <1>9 DEF Sound

LEMMA WorldSound ==
  ASSUME Sound, NEW l \in Launchers, overlap' \in BOOLEAN,
         Start(l) \/ GraceEnds(l) \/ Signal(l) \/ Crash(l) \/ LogFails(l)
           \/ \E k \in Kinds : Boot(l, k) \/ ChildEnds(l, k)
  PROVE  Sound'
<1>0. /\ {"start", "note", "serving", "stop", "grace", "dead"} \subseteq Attended
      /\ Attended \subseteq Steps /\ "close" \in Steps \ Attended
      /\ "off" \notin Attended /\ "off" \notin Opening \cup Managing \cup Stopping
      /\ Managing \subseteq Attended
      /\ {"none", "booting", "up", "killed", "gone"} \subseteq States
  BY DEF Steps, Attended, Managing, Judging, Clearing, Dropping, Stopping, Opening, States
<1>1. /\ pc \in [Launchers -> Steps] /\ turn \in [Launchers -> Kinds]
      /\ cancelled \in [Launchers -> BOOLEAN] /\ failed \in [Launchers -> BOOLEAN]
      /\ seen \in [Launchers -> Launchers \cup {Nobody}]
      /\ child \in [Launchers -> [Kinds -> States]]
      /\ port \in [Kinds -> Launchers \cup {Outsider, Nobody}]
      /\ lock \in BOOLEAN /\ {owner, record, socket, Nobody, l} \subseteq Launchers \cup {Nobody}
      /\ owner # Nobody => lock
      /\ \A k \in Kinds : Runs(l, k) => pc[l] \in Attended
      /\ In(l, {"stop", "grace"}) /\ turn[l] = "mcp" => ~Runs(l, "tunnel")
      /\ At(l, "save") => \A k \in Kinds : ~Runs(l, k)
      /\ turn[l] \in Kinds /\ pc[l] \in Steps
  BY DEF Sound, TypeOK, Runs, ChildrenOK
<1>2. pc = [pc EXCEPT ![l] = pc[l]] /\ turn = [turn EXCEPT ![l] = turn[l]]
      /\ child = [child EXCEPT ![l][turn[l]] = child[l][turn[l]]]
  BY <1>1
<1> DEFINE TypedAfter == /\ port' \in [Kinds -> Launchers \cup {Outsider, Nobody}]
                         /\ cancelled' \in [Launchers -> BOOLEAN] /\ failed' \in [Launchers -> BOOLEAN]
<1> HIDE DEF Attended, Steps, States
<1>3. CASE Start(l)
  <2>1. CASE cancelled[l] /\ Abandon(l, "start") /\ UNCHANGED child
    BY <1>0, <1>1, <1>3, <2>1, ProcessStep DEF Start, Abandon, BeginStop, disk, world
  <2>2. CASE Abandon(l, "start") /\ Become(l, turn[l], "gone")
    <3>1. Become(l, turn[l], "gone") /\ pc'[l] = "stop" /\ turn'[l] = "tunnel" /\ Others(l) /\ cancelled' = cancelled /\ failed' = failed
          /\ UNCHANGED <<seen, disk>> /\ port' = port
      BY <1>0, <1>1, <1>3, <2>2 DEF Start, Abandon, BeginStop, Others
    <3>2. {"gone"} \subseteq States /\ {"stop"} \subseteq Steps /\ "stop" \in Attended
      BY <1>0
    <3>3. TypedAfter /\ turn[l] \in Kinds
      BY <1>1, <3>1
    <3> QED BY <3>1, <3>2, <3>3, ChildStep
  <2>3. CASE Continue(l, "start", "note") /\ Become(l, turn[l], "booting")
    <3>1. Become(l, turn[l], "booting") /\ pc'[l] = "note" /\ Others(l) /\ cancelled' = cancelled /\ failed' = failed
          /\ UNCHANGED <<seen, disk>> /\ port' = port
      BY <1>0, <1>1, <1>3, <2>3 DEF Start, Continue, Others
    <3>2. {"booting"} \subseteq States /\ {"note"} \subseteq Steps /\ "note" \in Attended
      BY <1>0
    <3>3. TypedAfter /\ turn[l] \in Kinds
      BY <1>1, <3>1
    <3> QED BY <3>1, <3>2, <3>3, ChildStep
  <2> QED BY <1>3, <2>1, <2>2, <2>3 DEF Start
<1>4. CASE GraceEnds(l)
  <2>1. CASE ~Runs(l, turn[l]) /\ UNCHANGED child
    BY <1>0, <1>1, <1>4, <2>1, ProcessStep DEF GraceEnds, NextChild, disk, world
  <2>2. CASE Kill(l)
    <3>1. /\ Become(l, turn[l], "killed") /\ Others(l) /\ turn'[l] = "mcp"
          /\ pc'[l] = IF turn[l] = "tunnel" THEN "stop" ELSE "close"
          /\ cancelled' = cancelled /\ failed' = failed /\ UNCHANGED <<seen, disk>> /\ port' = port
      BY <1>0, <1>1, <1>4, <2>2 DEF GraceEnds, NextChild, Kill, Others
    <3>2. pc[l] = "grace"
      BY <1>4 DEF GraceEnds
    <3>3. {"killed"} \subseteq States /\ "stop" \in Attended
      BY <1>0
    <3>4. TypedAfter /\ turn[l] \in Kinds
      BY <1>1, <3>1
    <3>5. /\ pc'[l] \notin Attended => \A j \in Kinds \ {turn[l]} : ~Runs(l, j)
          /\ pc'[l] = "stop" => turn[l] = "tunnel"
          /\ pc'[l] \in {"stop", "close"}
      BY <1>1, <3>1, <3>2, <3>3
    <3> QED BY <3>1, <3>3, <3>4, <3>5, ChildStep
  <2> QED BY <1>4, <2>1, <2>2 DEF GraceEnds
<1>5. CASE Signal(l)
  BY <1>0, <1>1, <1>2, <1>5, ProcessStep DEF Signal, BeginStop, disk
<1>6. CASE Crash(l)
  BY <1>0, <1>1, <1>6, ProcessStep DEF Crash, disk
<1>7. CASE LogFails(l)
  <2>1. PICK to \in Attended : /\ pc' = [pc EXCEPT ![l] = to]
                               /\ to = IF At(l, "serving") THEN "stop" ELSE pc[l]
    BY <1>0, <1>1, <1>2, <1>7 DEF LogFails, Unexpected, BeginStop
  <2>2. PICK kind \in Kinds : /\ turn' = [turn EXCEPT ![l] = kind]
                              /\ kind = IF At(l, "serving") THEN "tunnel" ELSE turn[l]
    BY <1>0, <1>1, <1>2, <1>7 DEF LogFails, Unexpected, BeginStop
  <2>3. /\ cancelled' \in [Launchers -> BOOLEAN] /\ failed' \in [Launchers -> BOOLEAN]
        /\ UNCHANGED <<seen, disk, world>> /\ pc[l] \in Managing
    BY <1>1, <1>7 DEF LogFails, Unexpected
  <2> QED BY <1>0, <1>1, <2>1, <2>2, <2>3, ProcessStep DEF disk
<1>8. ASSUME NEW k \in Kinds, Boot(l, k) PROVE Sound'
  <2>1. /\ Become(l, k, "up") /\ Others(l) /\ UNCHANGED <<pc, turn, cancelled, failed, seen, disk>>
        /\ port' \in [Kinds -> Launchers \cup {Outsider, Nobody}]
    BY <1>1, <1>8 DEF Boot, process, Others
  <2>2. Runs(l, k)
    BY <1>8 DEF Boot, Runs
  <2>3. {"up"} \subseteq States /\ TypedAfter
    BY <1>0, <1>1, <2>1
  <2>4. /\ pc[l] \in Attended \ {"save"}
        /\ In(l, {"stop", "grace"}) /\ turn[l] = "mcp" => k # "tunnel" /\ ~Runs(l, "tunnel")
    BY <1>1, <2>2
  <2>5. pc'[l] = pc[l] /\ turn'[l] = turn[l] /\ UNCHANGED <<seen, disk>>
    BY <2>1
  <2>6. pc[l] # "off"
    BY <2>4, <1>0
  <2> QED BY <2>1, <2>3, <2>4, <2>5, <2>6, ChildStep
<1>9. ASSUME NEW k \in Kinds, ChildEnds(l, k) PROVE Sound'
  <2>1. /\ Become(l, k, "gone") /\ Others(l) /\ UNCHANGED <<cancelled, seen, disk>>
        /\ port' \in [Kinds -> Launchers \cup {Outsider, Nobody}]
        /\ failed' \in [Launchers -> BOOLEAN]
    <3>1. Become(l, k, "gone") /\ UNCHANGED <<cancelled, seen, disk>>
      BY <1>9 DEF ChildEnds
    <3>2. port' \in [Kinds -> Launchers \cup {Outsider, Nobody}]
      BY <1>1, <1>9 DEF ChildEnds
    <3>3. failed' \in [Launchers -> BOOLEAN]
      BY <1>1, <1>9 DEF ChildEnds, Unexpected
    <3>4. Others(l)
      <4>1. \/ UNCHANGED <<pc, turn>>
            \/ pc' = [pc EXCEPT ![l] = "stop"] /\ turn' = [turn EXCEPT ![l] = "tunnel"]
        BY <1>9 DEF ChildEnds, Unexpected, BeginStop
      <4> QED BY <1>0, <1>1, <4>1 DEF Others
    <3> QED BY <3>1, <3>2, <3>3, <3>4
  <2>2. pc'[l] = (IF At(l, "serving") /\ In(l, Managing) THEN "stop" ELSE pc[l])
        /\ turn'[l] = IF At(l, "serving") /\ In(l, Managing) THEN "tunnel" ELSE turn[l]
    BY <1>0, <1>1, <1>9 DEF ChildEnds, Unexpected, BeginStop
  <2>3. {"gone"} \subseteq States /\ TypedAfter /\ UNCHANGED <<seen, disk>>
    BY <1>0, <1>1, <2>1
  <2>4. /\ pc'[l] = "save" => pc[l] = "save"
        /\ pc'[l] = "off" => pc[l] = "off"
        /\ pc'[l] \notin Attended => \A j \in Kinds \ {k} : ~Runs(l, j)
        /\ pc'[l] \in {"stop", "grace"} /\ turn'[l] = "mcp" => ~Runs(l, "tunnel")
    BY <1>0, <1>1, <2>2
  <2> QED BY <2>1, <2>3, <2>4, ChildStep
<1> QED BY <1>3, <1>4, <1>5, <1>6, <1>7, <1>8, <1>9

LEMMA NextSound == Sound /\ [Next]_vars => Sound'
<1> SUFFICES ASSUME Sound, [Next]_vars PROVE Sound'
  OBVIOUS
<1>1. CASE Next
  <2>1. overlap' \in BOOLEAN
    BY <1>1 DEF Next, Noted, Sound, TypeOK
  <2>2. ASSUME NEW l \in Launchers, Step(l) PROVE Sound'
    BY <2>1, <2>2, LockSound, StartSound, WorldSound DEF Step, Proceed
  <2>3. ASSUME NEW k \in Kinds, OutsiderBinds(k) PROVE Sound'
    <3>1. port' \in [Kinds -> Launchers \cup {Outsider, Nobody}]
          /\ UNCHANGED <<pc, turn, cancelled, failed, seen, lock, owner, record, socket, child>>
      BY <2>3 DEF OutsiderBinds, Sound, TypeOK, process, disk
    <3>2. TypeOK'
      BY <2>1, <3>1 DEF Sound, TypeOK
    <3> QED BY <3>1, <3>2 DEF Sound, OwnerBegan, ChildrenOK, Runs
  <2> QED BY <1>1, <2>2, <2>3 DEF Next
<1>2. CASE UNCHANGED vars
  BY <1>2 DEF Sound, TypeOK, OwnerBegan, ChildrenOK, Runs, vars, process, disk, world
<1> QED BY <1>1, <1>2

(* Types, and: an owner implies a lock, and a child runs only for a launcher    *)
(* that attends to it, or that is dead.                                         *)
THEOREM SoundInvariant == Spec => []Sound
BY InitSound, NextSound, PTL DEF Spec

(* Types of supervise()'s locals and of the files of the state directory.      *)
THEOREM TypeCorrect == Spec => []TypeOK
BY SoundInvariant, PTL DEF Sound

-----------------------------------------------------------------------------
(* One launcher inside at a time.                                             *)

NobodyElse(l) == \A q \in Launchers \ {l} : ~In(q, Inside)
Keeps(l) == \A q \in Launchers \ {l} : pc'[q] = pc[q]

LEMMA OutsideHasPlace == ASSUME NEW l \in Launchers, ~In(l, Inside) PROVE Place(l) /\ Sole(l)
BY DEF Place, Sole, Inside, Owning, Emptying, NoOwner, NoRecord, NoSocket, Opening, Managing

LEMMA OutsideHasPlaceNext == ASSUME NEW l \in Launchers, ~In(l, Inside)' PROVE (Place(l) /\ Sole(l))'
BY DEF Place, Sole, Inside, Owning, Emptying, NoOwner, NoRecord, NoSocket, Opening, Managing

\* A step of the launcher inside, or of one that comes in.
LEMMA InsideStep ==
  ASSUME Exclusive, NEW l \in Launchers, In(l, Inside) \/ NobodyElse(l), Keeps(l), Unlocked', Place(l)'
  PROVE  Exclusive'
<1>1. \A q \in Launchers \ {l} : ~In(q, Inside)'
  BY DEF Exclusive, Sole, NobodyElse, Keeps
<1>2. Sole(l)'
  BY <1>1 DEF Sole
<1> QED BY <1>1, <1>2, OutsideHasPlaceNext DEF Exclusive

\* A step of a launcher outside that stays there.
LEMMA OutsideStep ==
  ASSUME Sound, Exclusive, NEW l \in Launchers, ~In(l, Inside), ~In(l, Inside)', Keeps(l),
         UNCHANGED <<lock, owner, record, socket>>, pc[l] = "dead" => pc'[l] = "dead",
         \A q \in Launchers \ {l} : child'[q] = child[q]
  PROVE  Exclusive'
<1>1. ~Alive(owner) => ~Alive(owner)'
  BY SupervisorAssumption DEF Alive, Sound, OwnerBegan, Keeps, TypeOK
<1>2. ASSUME NEW q \in Launchers, q # l PROVE Place(q)' /\ Sole(q)'
  <2>1. \A p \in Launchers : In(p, Inside)' <=> In(p, Inside)
    BY DEF Keeps
  <2>2. Sole(q)'
    BY <2>1 DEF Exclusive, Sole
  <2>3. Place(q)'
    BY <1>1, <1>2 DEF Exclusive, Place, Keeps, Runs
  <2> QED BY <2>2, <2>3
<1>3. Place(l)' /\ Sole(l)'
  BY OutsideHasPlaceNext
<1>4. Unlocked'
  BY DEF Exclusive, Unlocked
<1> QED BY <1>2, <1>3, <1>4 DEF Exclusive

LEMMA InitExclusive == Init => Exclusive
<1> SUFFICES ASSUME Init PROVE Exclusive
  OBVIOUS
<1>1. Unlocked
  BY DEF Init, Unlocked
<1>2. ASSUME NEW l \in Launchers PROVE ~In(l, Inside)
  BY DEF Init, Inside, Owning, Emptying, Opening, Managing
<1> QED BY <1>1, <1>2, OutsideHasPlace DEF Exclusive

\* What a step of l says of where it is, and where it will be.
LEMMA MoveKeeps ==
  ASSUME Sound, NEW l \in Launchers, NEW to, pc' = [pc EXCEPT ![l] = to]
  PROVE  pc'[l] = to /\ Keeps(l)
BY DEF Sound, TypeOK, Keeps

(* The steps at the lock.  Where an owner is dead or the lock was never signed, *)
(* the inspection finds nobody inside; and without a lock nobody is there.      *)
LEMMA LockExclusive ==
  ASSUME Sound, Exclusive, NEW l \in Launchers,
         Launch(l) \/ MakeLock(l) \/ ReadRecord(l) \/ Sign(l) \/ Crash(l)
  PROVE  Exclusive'
<1> USE DEF Inside, Owning, Emptying, Opening, Managing
<1>0. Place(l) /\ Sole(l) /\ Unlocked
  BY DEF Exclusive
<1>1. CASE Launch(l)
  <2>1. Keeps(l) /\ pc[l] = "off" /\ pc'[l] \in {"refused", "mkdir"}
    BY <1>1, MoveKeeps DEF Launch, Move
  <2> QED BY <1>1, <2>1, OutsideStep DEF Launch, disk, world
<1>2. CASE MakeLock(l)
  <2>1. PICK to \in {"record", "refused", "sign"} :
          /\ pc' = [pc EXCEPT ![l] = to]
          /\ pc[l] \in {"mkdir", "remake"}
          /\ (to = "sign") <=> ~lock
    BY <1>2 DEF MakeLock, Move
  <2>2. pc'[l] = to /\ Keeps(l)
    BY <2>1, MoveKeeps
  <2>3. CASE lock
    BY <1>2, <2>1, <2>2, <2>3, OutsideStep DEF MakeLock, world
  <2>4. CASE ~lock
    <3>1. NobodyElse(l)
      BY <2>4 DEF Exclusive, Place, NobodyElse
    <3>2. pc'[l] = "sign" /\ lock' /\ owner' = Nobody /\ record' = Nobody /\ socket' = Nobody
      BY <1>0, <1>2, <2>1, <2>2, <2>4 DEF MakeLock, Unlocked
    <3>3. Place(l)'
      BY <3>2 DEF Place, NoOwner, NoRecord, NoSocket
    <3> QED BY <3>1, <3>2, <3>3, <2>2, InsideStep DEF Unlocked
  <2> QED BY <2>3, <2>4
<1>3. CASE ReadRecord(l)
  <2>1. Keeps(l) /\ pc[l] = "record" /\ pc'[l] = "inspect"
    BY <1>3, MoveKeeps DEF ReadRecord
  <2> QED BY <1>3, <2>1, OutsideStep DEF ReadRecord, disk, world
<1>4. CASE Sign(l)
  <2>1. Keeps(l) /\ pc[l] = "sign" /\ lock /\ pc'[l] = "ports" /\ owner' = l /\ UNCHANGED <<lock, record, socket>>
    BY <1>0, <1>4, MoveKeeps DEF Sign, Move, Place
  <2>2. record = Nobody /\ socket = Nobody
    BY <1>0, <2>1 DEF Place, NoRecord, NoSocket
  <2>3. Place(l)'
    BY <2>1, <2>2 DEF Place, NoOwner, NoRecord, NoSocket
  <2> QED BY <2>1, <2>3, InsideStep DEF Unlocked
<1>5. CASE Crash(l)
  <2>1. Keeps(l) /\ pc'[l] = "dead" /\ UNCHANGED <<lock, owner, record, socket, child>>
    BY <1>5, MoveKeeps DEF Crash, disk, world
  <2>2. CASE In(l, Inside)
    <3>1. Place(l)'
      BY <2>1, OutsideHasPlaceNext
    <3> QED BY <1>0, <2>1, <2>2, <3>1, InsideStep DEF Unlocked
  <2>3. CASE ~In(l, Inside)
    BY <2>1, <2>3, OutsideStep
  <2> QED BY <2>2, <2>3
<1> QED BY <1>1, <1>2, <1>3, <1>4, <1>5

\* Whoever else is inside would be removing a lock as well, or be signing the one found
\* without an owner, or be its living owner.
LEMMA InspectExclusive ==
  ASSUME Sound, Exclusive, NEW l \in Launchers, Inspect(l), Noted, ~overlap'
  PROVE  Exclusive'
<1>0. Keeps(l) /\ pc[l] = "inspect" /\ UNCHANGED <<lock, owner, record, socket, child>>
  BY MoveKeeps DEF Inspect, Move, disk, world
<1>1. CASE Move(l, "inspect", "refused")
  <2>1. pc'[l] = "refused"
    BY <1>1, MoveKeeps DEF Move
  <2> QED BY <1>0, <2>1, OutsideStep DEF Inside, Owning, Emptying, Opening, Managing
<1>2. CASE Removable(l) /\ Move(l, "inspect", "clear_owner")
  <2>1. pc'[l] = "clear_owner"
    BY <1>2, MoveKeeps DEF Move
  <2>2. ASSUME NEW q \in Launchers \ {l}, In(q, Inside) PROVE FALSE
    <3>1. Place(q)
      BY DEF Exclusive
    <3>2. CASE In(q, Clearing \cup Dropping)
      <4>1. {l, q} \subseteq Removing'
        BY <2>1, <3>2, <1>0 DEF Removing, Clearing, Keeps
      <4> QED BY <4>1, <2>2 DEF Noted
    <3>3. CASE At(q, "sign")
      <4>1. owner = Nobody
        BY <3>1, <3>3 DEF Place, NoOwner
      <4> QED BY <4>1, <1>2, <3>3 DEF Removable, Fleeting
    <3>4. CASE In(q, Owning)
      <4>1. owner = q /\ Alive(q)
        BY <3>1, <3>4 DEF Place, Alive, Owning, Opening, Managing
      <4> QED BY <4>1, <1>2 DEF Removable
    <3> QED BY <2>2, <3>2, <3>3, <3>4 DEF Inside, Emptying, Clearing, Dropping
  <2>3. lock /\ ~Alive(owner)
    BY <1>2, SupervisorAssumption DEF Removable, Sound, TypeOK
  <2>4. ~Alive(owner)'
    BY <2>3, <1>0, <2>1, SupervisorAssumption DEF Alive, Keeps, Sound, OwnerBegan, TypeOK
  <2>5. Place(l)'
    BY <1>0, <2>1, <2>3, <2>4 DEF Place, Inside, Owning, Emptying, Opening, Managing, NoOwner, NoRecord, NoSocket
  <2>6. Unlocked'
    BY <1>0, <2>3 DEF Unlocked
  <2> QED BY <2>2, <2>5, <2>6, <1>0, InsideStep DEF NobodyElse
<1> QED BY <1>1, <1>2 DEF Inspect

LEMMA RemovalExclusive ==
  ASSUME Sound, Exclusive, NEW l \in Launchers,
         UnlinkOwner(l) \/ UnlinkRecord(l) \/ UnlinkSocket(l) \/ RemoveLock(l) \/ CloseServer(l) \/ Verify(l)
  PROVE  Exclusive'
<1> USE DEF Inside, Owning, Emptying, Opening, Managing, NoOwner, NoRecord, NoSocket
<1>0. Place(l) /\ Unlocked
  BY DEF Exclusive
<1>a. ASSUME In(l, Emptying), Keeps(l), owner' \in {owner, Nobody}, pc'[l] # "off" PROVE ~Alive(owner)'
  BY <1>a, <1>0, SupervisorAssumption DEF Place, Alive, Keeps, Sound, OwnerBegan, TypeOK
<1>1. CASE UnlinkOwner(l)
  <2>1. /\ Keeps(l) /\ owner' = Nobody /\ UNCHANGED <<lock, record, socket>>
        /\ \/ pc[l] = "clear_owner" /\ pc'[l] = "clear_record"
           \/ pc[l] = "drop_owner" /\ pc'[l] = "drop_lock"
    BY <1>1, MoveKeeps DEF UnlinkOwner, Move
  <2>2. Place(l)'
    BY <1>0, <1>a, <2>1 DEF Place
  <2> QED BY <1>0, <2>1, <2>2, InsideStep DEF Unlocked
<1>2. CASE UnlinkRecord(l)
  <2>1. /\ Keeps(l) /\ record' = Nobody /\ UNCHANGED <<lock, owner, socket>>
        /\ \/ pc[l] = "clear_record" /\ pc'[l] = "clear_socket"
           \/ pc[l] = "drop_record" /\ pc'[l] = "drop_socket"
    BY <1>2, MoveKeeps DEF UnlinkRecord, Move
  <2>2. Place(l)'
    BY <1>0, <1>a, <2>1 DEF Place
  <2> QED BY <1>0, <2>1, <2>2, InsideStep DEF Unlocked
<1>3. CASE UnlinkSocket(l)
  <2>1. /\ Keeps(l) /\ socket' = Nobody /\ UNCHANGED <<lock, owner, record>>
        /\ \/ pc[l] = "clear_socket" /\ pc'[l] = "clear_lock"
           \/ pc[l] = "drop_socket" /\ pc'[l] = "drop_owner"
    BY <1>3, MoveKeeps DEF UnlinkSocket, Move
  <2>2. Place(l)'
    BY <1>0, <1>a, <2>1 DEF Place
  <2> QED BY <1>0, <2>1, <2>2, InsideStep DEF Unlocked
<1>4. CASE RemoveLock(l)
  <2>1. /\ Keeps(l) /\ UNCHANGED <<owner, record, socket>>
        /\ pc[l] \in {"clear_lock", "drop_lock"} /\ pc'[l] \in {"remake", "refused", "ended"}
    BY <1>4, MoveKeeps DEF RemoveLock, Move
  <2>2. owner = Nobody /\ record = Nobody /\ socket = Nobody
    BY <1>0, <2>1 DEF Place
  <2> QED BY <2>1, <2>2, OutsideHasPlaceNext, InsideStep DEF Unlocked
<1>5. CASE CloseServer(l)
  <2>1. /\ Keeps(l) /\ pc[l] = "close" /\ pc'[l] = "verify" /\ UNCHANGED <<lock, owner, record>>
        /\ socket' = IF socket = l THEN Nobody ELSE socket
    BY <1>5, MoveKeeps DEF CloseServer, Move
  <2>2. Place(l)'
    BY <1>0, <2>1 DEF Place
  <2> QED BY <1>0, <2>1, <2>2, InsideStep DEF Unlocked
<1>6. CASE Verify(l)
  <2>1. /\ Keeps(l) /\ pc[l] = "verify" /\ UNCHANGED <<lock, owner, record, socket>>
        /\ pc'[l] = IF OwnRecord(l) THEN "drop_record" ELSE "ended"
    BY <1>6, MoveKeeps DEF Verify, Move, disk
  <2>2. Place(l)'
    BY <1>0, <2>1 DEF Place, OwnRecord
  <2> QED BY <1>0, <2>1, <2>2, InsideStep DEF Unlocked
<1> QED BY <1>1, <1>2, <1>3, <1>4, <1>5, <1>6

\* From the ports to the last child: the files of l are there before a child of l is.
LEMMA ServiceExclusive ==
  ASSUME Sound, Exclusive, NEW l \in Launchers,
         CheckPorts(l) \/ Listen(l) \/ Save(l) \/ Start(l) \/ Healthy(l) \/ GiveUp(l) \/ CheckReady(l)
           \/ Terminate(l) \/ GraceEnds(l)
  PROVE  Exclusive'
<1> USE DEF Inside, Owning, Emptying, Opening, Managing, NoOwner, NoRecord, NoSocket
<1>0. Place(l) /\ Unlocked
  BY DEF Exclusive
<1>a. pc[l] \in {"ports", "listen", "save"} => \A k \in Kinds : ~Runs(l, k)
  BY DEF Sound, TypeOK, ChildrenOK, Runs, Attended
<1>b. UNCHANGED child => \A k \in Kinds : Runs(l, k)' <=> Runs(l, k)
  BY DEF Runs
<1>1. CASE CheckPorts(l)
  <2>1. /\ Keeps(l) /\ pc[l] = "ports" /\ UNCHANGED <<lock, owner, record, socket, child>>
        /\ pc'[l] \in {"listen", "stop"}
    BY <1>1, MoveKeeps DEF CheckPorts, Continue, Abandon, BeginStop, disk, world
  <2>2. Place(l)'
    BY <1>0, <1>a, <1>b, <2>1 DEF Place
  <2> QED BY <1>0, <2>1, <2>2, InsideStep DEF Unlocked
<1>2. CASE Listen(l)
  <2>1. /\ Keeps(l) /\ pc[l] = "listen" /\ UNCHANGED <<lock, owner, record, child>>
        /\ IF socket = Nobody THEN pc'[l] = "save" /\ socket' = l ELSE pc'[l] = "stop"
    BY <1>2, MoveKeeps DEF Listen, Continue, Abandon, BeginStop, world
  <2>2. Place(l)'
    BY <1>0, <1>a, <1>b, <2>1 DEF Place
  <2> QED BY <1>0, <2>1, <2>2, InsideStep DEF Unlocked, Place
<1>3. CASE Save(l)
  <2>1. /\ Keeps(l) /\ pc[l] \in {"save", "note", "ready"} /\ UNCHANGED <<lock, owner, socket>>
        /\ record' = l /\ pc'[l] \in {"start", "wait", "serving", "stop"}
    BY <1>3, MoveKeeps DEF Save, Continue, Abandon, BeginStop
  <2>2. Place(l)'
    BY <1>0, <2>1 DEF Place
  <2> QED BY <1>0, <2>1, <2>2, InsideStep DEF Unlocked, Place
<1>4. CASE Start(l)
  <2>1. /\ Keeps(l) /\ pc[l] = "start" /\ UNCHANGED <<lock, owner, record, socket>>
        /\ pc'[l] \in {"note", "stop"}
    BY <1>4, MoveKeeps DEF Start, Continue, Abandon, BeginStop, disk
  <2>2. Place(l)'
    BY <1>0, <2>1 DEF Place
  <2> QED BY <1>0, <2>1, <2>2, InsideStep DEF Unlocked
<1>5. CASE Healthy(l) \/ GiveUp(l) \/ CheckReady(l)
  <2>1. /\ Keeps(l) /\ pc[l] \in {"wait", "check"} /\ UNCHANGED <<lock, owner, record, socket>>
        /\ pc'[l] \in {"start", "check", "ready", "stop"}
    BY <1>5, MoveKeeps DEF Healthy, GiveUp, CheckReady, Continue, Abandon, BeginStop, disk
  <2>2. Place(l)'
    BY <1>0, <2>1 DEF Place
  <2> QED BY <1>0, <2>1, <2>2, InsideStep DEF Unlocked
<1>6. CASE Terminate(l) \/ GraceEnds(l)
  <2>1. /\ Keeps(l) /\ pc[l] \in {"stop", "grace"} /\ UNCHANGED <<lock, owner, record, socket>>
        /\ pc'[l] \in {"stop", "grace", "close"}
    BY <1>6, MoveKeeps DEF Terminate, GraceEnds, NextChild, disk
  <2>2. \A k \in Kinds : Runs(l, k)' => Runs(l, k)
    BY <1>6, <1>b DEF Terminate, GraceEnds, Kill, Become, Runs, world, Sound, TypeOK
  <2>3. Place(l)'
    BY <1>0, <2>1, <2>2 DEF Place
  <2> QED BY <1>0, <2>1, <2>3, InsideStep DEF Unlocked
<1> QED BY <1>1, <1>2, <1>3, <1>4, <1>5, <1>6

\* What comes from outside: a signal, the end of a child, a failing log.
LEMMA WorldExclusive ==
  ASSUME Sound, Exclusive, NEW l \in Launchers,
         Signal(l) \/ LogFails(l) \/ \E k \in Kinds : Boot(l, k) \/ ChildEnds(l, k)
  PROVE  Exclusive'
<1>0. Place(l) /\ Unlocked
  BY DEF Exclusive
<1>1. UNCHANGED <<lock, owner, record, socket>>
  BY DEF Signal, LogFails, Boot, ChildEnds, disk
<1>2. /\ Keeps(l)
      /\ \/ pc'[l] = pc[l]
         \/ pc[l] = "serving" /\ pc'[l] = "stop"
  <2>1. \/ pc' = pc
        \/ pc[l] = "serving" /\ pc' = [pc EXCEPT ![l] = "stop"]
    BY DEF Signal, LogFails, Boot, ChildEnds, Unexpected, BeginStop, process
  <2>2. CASE pc' = pc
    BY <2>2 DEF Keeps
  <2>3. CASE pc[l] = "serving" /\ pc' = [pc EXCEPT ![l] = "stop"]
    <3>1. pc'[l] = "stop" /\ Keeps(l)
      BY <2>3, MoveKeeps
    <3> QED BY <2>3, <3>1
  <2> QED BY <2>1, <2>2, <2>3
<1>3. \A q \in Launchers \ {l} : child'[q] = child[q]
  BY DEF Signal, LogFails, Boot, ChildEnds, Become, world, Sound, TypeOK
<1>4. \A k \in Kinds : Runs(l, k)' => Runs(l, k)
  BY DEF Signal, LogFails, Boot, ChildEnds, Become, world, Sound, TypeOK, Runs
<1> USE DEF Inside, Owning, Emptying, Opening, Managing, NoOwner, NoRecord, NoSocket
<1>5. CASE In(l, Inside)
  <2>1. In(l, Emptying) => ~Alive(owner)'
    BY <1>0, <1>1, <1>2 DEF Place, Alive, Keeps
  <2>2. Place(l)'
    BY <1>0, <1>1, <1>2, <1>4, <2>1 DEF Place
  <2> QED BY <1>0, <1>1, <1>2, <1>5, <2>2, InsideStep DEF Unlocked
<1>6. CASE ~In(l, Inside)
  BY <1>1, <1>2, <1>3, <1>6, OutsideStep
<1> QED BY <1>5, <1>6

LEMMA NextIInv == IInv /\ [Next]_vars => IInv'
<1> SUFFICES ASSUME IInv, [Next]_vars PROVE IInv'
  OBVIOUS
<1>1. Sound'
  BY NextSound DEF IInv
<1>2. ASSUME ~overlap', Next PROVE Exclusive'
  <2>1. Noted /\ ~overlap /\ Sound /\ Exclusive
    BY <1>2 DEF Next, Noted, IInv
  <2>2. ASSUME NEW l \in Launchers, Step(l) PROVE Exclusive'
    BY <1>2, <2>1, <2>2, LockExclusive, InspectExclusive, RemovalExclusive, ServiceExclusive,
       WorldExclusive DEF Step, Proceed
  <2>3. ASSUME NEW k \in Kinds, OutsiderBinds(k) PROVE Exclusive'
    <3>1. UNCHANGED <<pc, lock, owner, record, socket, child>>
      BY <2>3 DEF OutsiderBinds, process, disk
    <3> QED BY <2>1, <3>1 DEF Exclusive, Unlocked, Place, Sole, Alive, Runs
  <2> QED BY <1>2, <2>2, <2>3 DEF Next
<1>3. ASSUME ~overlap', UNCHANGED vars PROVE Exclusive'
  BY <1>3 DEF IInv, Exclusive, Unlocked, Place, Sole, Alive, Runs, vars, process, disk, world
<1> QED BY <1>1, <1>2, <1>3 DEF IInv

(* Until two removals overlap: one launcher at most between lock and unlock,   *)
(* and the files name it as its step says they should.                         *)
THEOREM IInvInvariant == Spec => []IInv
BY InitSound, InitExclusive, NextIInv, PTL DEF Spec, IInv

(* A child of a live launcher can be found and stopped: until two launchers have *)
(* been removing a lock at the same time (Noted), whoever has a child that runs  *)
(* is the one the lock, the record and the socket name, and there is only one.   *)
THEOREM ManagedIsOnRecordHolds == Spec => []ManagedIsOnRecord
<1>1. IInv => ManagedIsOnRecord
  <2> SUFFICES ASSUME IInv, ~overlap, NEW l \in Launchers, Alive(l), NEW k \in Kinds, Runs(l, k)
               PROVE  lock /\ owner = l /\ socket = l /\ record = l
    BY DEF ManagedIsOnRecord
  <2>1. Place(l) /\ ChildrenOK(l)
    BY DEF IInv, Sound, Exclusive
  <2>2. pc[l] \in Managing \cup {"stop", "grace"} /\ pc[l] # "save"
    BY <2>1 DEF IInv, Sound, TypeOK, Alive, Attended, Runs, ChildrenOK
  <2>3. In(l, Inside) /\ In(l, Owning)
    BY <2>2 DEF Inside, Owning
  <2> QED BY <2>1, <2>2, <2>3 DEF Place
<1> QED BY <1>1, IInvInvariant, PTL
=============================================================================
