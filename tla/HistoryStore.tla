---------------------------- MODULE HistoryStore ----------------------------
(***************************************************************************)
(* The execution archive (src/runtime/history-store.ts) of one server that *)
(* holds the writer lock: the serial queue of disk jobs, rotation within   *)
(* the capacity, crashes and the recovery at the next start.  A step of a  *)
(* job is one file operation and the code up to the next await; calls of   *)
(* the exec manager come between any two of them.                          *)
(***************************************************************************)
EXTENDS Naturals, Sequences, FiniteSets, SequencesExt, FiniteSetsExt

CONSTANTS Ids,         \* the commands ever started, over all restarts
          Captured,    \* those started with capture_output
          MaxRecords,  \* history.max_records
          MaxTotal,    \* history.max_total_bytes
          MaxLog,      \* history.max_log_bytes
          MaxPending,  \* history.max_pending_bytes
          MaxMeta,     \* MAX_META, the largest metadata file
          MaxPrinted,  \* bound: characters a command prints
          MaxCrashes,  \* bound: crashes and restarts
          Faults,      \* the steps whose file operation may fail
          Nothing

ASSUME StoreAssumption ==
  /\ IsFiniteSet(Ids) /\ Captured \subseteq Ids
  /\ {MaxRecords, MaxTotal, MaxLog, MaxPending, MaxMeta} \subseteq Nat \ {0}
  /\ {MaxPrinted, MaxCrashes} \subseteq Nat

VARIABLES life,     \* each command, as the exec manager sees it
          printed,  \* characters it has printed
          phase,    \* of the store: starting, in use, closing
          entries, active, sequence, bytes, pendingBytes,
          queue,    \* this.serial: the jobs not begun
          cur,      \* the job at work
          json, tmp, log,  \* files on disk
          synced,   \* how much of each log survives a power failure
          crashes

commands == <<life, printed>>
memory == <<entries, active, sequence, bytes, pendingBytes>>
disk == <<json, tmp, log, synced>>
vars == <<commands, phase, memory, queue, cur, disk, crashes>>

Text == [seq : Nat, state : {"running", "ended"}, truncated : BOOLEAN, captured : Nat, size : 1..MaxMeta]
Entry == [seq : Nat, state : {"running", "ended", "unknown"}, truncated : BOOLEAN,
          metaBytes : 0..MaxMeta, logBytes : Nat, reserved : 0..MaxLog, pending : Seq(Nat),
          queued : BOOLEAN, accepting : BOOLEAN, writeFailed : BOOLEAN]
ASSUME NothingAssumption == Nothing \notin Ids \cup Text \cup Entry \cup Seq(Nat)

Job == [op : {"start", "append", "finish", "clear", "flush_for_clear", "flush_for_close"}, id : Ids \cup {Nothing}]
Idle == [op |-> "none", id |-> Nothing, at |-> "idle", back |-> "idle", victim |-> Nothing,
          chunk |-> <<>>, text |-> Nothing]

Lives == {"unused", "starting", "running", "unarchived", "finished", "killed"}
Phases == {"down", "ready", "closing", "unlocking", "closed"}
At(step) == cur.at = step
Known == {i \in Ids : entries[i] # Nothing}
Bytes(file) == IF file = Nothing THEN 0 ELSE Len(file)
TextBytes(file) == IF file = Nothing THEN 0 ELSE file.size
Total(size, S) == MapThenSumSet(LAMBDA i : size[i], S)

Init == /\ life = [i \in Ids |-> "unused"]
        /\ printed = [i \in Ids |-> 0]
        /\ phase = "ready"
        /\ entries = [i \in Ids |-> Nothing]
        /\ active = {}
        /\ sequence = 0 /\ bytes = 0 /\ pendingBytes = 0
        /\ queue = <<>>
        /\ cur = Idle
        /\ json = [i \in Ids |-> Nothing]
        /\ tmp = [i \in Ids |-> Nothing]
        /\ log = [i \in Ids |-> Nothing]
        /\ synced = [i \in Ids |-> 0]
        /\ crashes = 0
-----------------------------------------------------------------------------
(* Calls of the exec manager.                                              *)
Enqueue(op, i) == queue' = Append(queue, [op |-> op, id |-> i])

\* start(): refused (undefined) when closing.
Start(i) == /\ life[i] = "unused" /\ phase # "down"
            /\ IF phase = "ready" THEN life' = [life EXCEPT ![i] = "starting"] /\ Enqueue("start", i)
                                  ELSE life' = [life EXCEPT ![i] = "unarchived"] /\ UNCHANGED queue
            /\ UNCHANGED <<printed, phase, memory, cur, disk, crashes>>

\* append(): what fits the log and the queue is kept; the first refusal ends the capture.
Room(e) == Min({MaxLog - e.reserved, MaxPending - pendingBytes})

Accepted(e, offsets) ==
  LET kept == SubSeq(offsets, 1, Min({Len(offsets), Room(e)}))
      cut == Len(kept) < Len(offsets)
  IN  [e EXCEPT !.pending = @ \o kept, !.reserved = @ + Len(kept),
                !.accepting = ~cut, !.truncated = @ \/ cut, !.queued = @ \/ kept # <<>>]
Offsets(from, n) == [k \in 1..n |-> from + k]
Output(i, n) ==
  /\ life[i] = "running" /\ phase # "down"
  /\ printed[i] + n <= MaxPrinted
  /\ printed' = [printed EXCEPT ![i] = @ + n]
  /\ LET e == entries[i]
         f == Accepted(e, Offsets(printed[i], n))
     IN  IF phase = "ready" /\ i \in Captured /\ e # Nothing /\ e.accepting
           THEN /\ entries' = [entries EXCEPT ![i] = f]
                /\ pendingBytes' = pendingBytes + (f.reserved - e.reserved)
                /\ IF f.queued /\ ~e.queued THEN Enqueue("append", i) ELSE UNCHANGED queue
           ELSE UNCHANGED <<entries, pendingBytes, queue>>
  /\ UNCHANGED <<life, phase, active, sequence, bytes, cur, disk, crashes>>

\* finish(): queued whatever the phase.
Finish(i) == /\ life[i] = "running" /\ phase # "down"
             /\ life' = [life EXCEPT ![i] = "finished"]
             /\ Enqueue("finish", i)
             /\ UNCHANGED <<printed, phase, memory, cur, disk, crashes>>

\* clear() and close() first await the queue as it stands: a job without steps.
Clear == /\ phase = "ready"
         /\ \A k \in DOMAIN queue : queue[k].op \notin {"clear", "flush_for_clear"}
         /\ cur.op # "clear"
         /\ Enqueue("flush_for_clear", Nothing)
         /\ UNCHANGED <<commands, phase, memory, cur, disk, crashes>>

Close == /\ phase = "ready"
         /\ phase' = "closing"
         /\ Enqueue("flush_for_close", Nothing)
         /\ UNCHANGED <<commands, memory, cur, disk, crashes>>
Unlock == /\ phase = "unlocking"
          /\ phase' = "closed"
          /\ UNCHANGED <<commands, memory, queue, cur, disk, crashes>>
-----------------------------------------------------------------------------
(* The job at work.                                                        *)
Goto(step) == cur' = [cur EXCEPT !.at = step]
Done == cur' = Idle

\* makeRoom(): the oldest records go, never an active one or the protected one.
NeededBeyondOld == IF At("save_room") THEN cur.text.size - entries[cur.id].metaBytes
                   ELSE IF cur.op = "start" THEN MaxMeta ELSE Len(cur.chunk) + MaxMeta
Needed == IF At("save_room") THEN cur.text.size
          ELSE IF cur.op = "start" THEN MaxMeta ELSE Len(cur.chunk) + MaxMeta
Fits == /\ bytes + Needed <= MaxTotal
        /\ Cardinality(Known) + (IF cur.op = "start" /\ At("room") THEN 1 ELSE 0) <= MaxRecords
VictimsAndActive == Known \ {cur.id}
Victims == Known \ (active \cup {cur.id})
OldestOf(S) == CHOOSE i \in S : \A j \in S : entries[i].seq <= entries[j].seq
Evict(i) == cur' = [cur EXCEPT !.victim = i, !.at = "unlink_log", !.back = cur.at]

\* JSON.stringify(e.record) and the call of makeRoom, at the start of save().
TextOf(e, size) == [seq |-> e.seq, state |-> e.state, truncated |-> e.truncated,
                    captured |-> e.logBytes, size |-> size]
Save(e) == \E size \in 1..MaxMeta : cur' = [cur EXCEPT !.at = "save_room", !.text = TextOf(e, size)]

Begin == /\ cur = Idle /\ queue # <<>>
         /\ queue' = Tail(queue)

BeginStart == /\ Begin /\ Head(queue).op = "start"
              /\ cur' = [Idle EXCEPT !.op = "start", !.id = Head(queue).id, !.at = "room"]
              /\ UNCHANGED <<commands, phase, memory, disk, crashes>>

BeginAppend ==
  /\ Begin /\ Head(queue).op = "append"
  /\ LET i == Head(queue).id
         e == entries[i]
     IN  /\ entries' = [entries EXCEPT ![i].pending = <<>>, ![i].queued = FALSE]
         /\ IF e.writeFailed
              THEN pendingBytes' = pendingBytes - Len(e.pending) /\ UNCHANGED cur
              ELSE /\ cur' = [Idle EXCEPT !.op = "append", !.id = i, !.at = "room", !.chunk = e.pending]
                   /\ UNCHANGED pendingBytes
  /\ UNCHANGED <<commands, phase, active, sequence, bytes, disk, crashes>>

BeginFinish ==
  /\ Begin /\ Head(queue).op = "finish"
  /\ LET i == Head(queue).id
     IN  IF entries[i] = Nothing
           THEN UNCHANGED <<entries, cur>>
           ELSE LET e == [entries[i] EXCEPT !.state = "ended", !.accepting = FALSE]
                    job == [Idle EXCEPT !.op = "finish", !.id = i, !.at = "sync"]
                IN  /\ entries' = [entries EXCEPT ![i] = e]
                    /\ IF i \in Captured
                         THEN cur' = job
                         ELSE \E size \in 1..MaxMeta :
                                cur' = [job EXCEPT !.at = "save_room", !.text = TextOf(e, size)]
  /\ UNCHANGED <<commands, phase, active, sequence, bytes, pendingBytes, disk, crashes>>

\* A flush is over; clear() looks for active records before it takes its place in the queue.
Flushed == /\ cur = Idle /\ queue # <<>>
           /\ \/ /\ Head(queue).op = "flush_for_clear"
                 /\ queue' = IF phase # "closed" /\ active = {}
                               THEN Append(Tail(queue), [op |-> "clear", id |-> Nothing]) ELSE Tail(queue)
                 /\ UNCHANGED phase
              \/ /\ Head(queue).op = "flush_for_close"
                 /\ queue' = Tail(queue)
                 /\ phase' = "unlocking"
           /\ UNCHANGED <<commands, memory, cur, disk, crashes>>
BeginClear == /\ Begin /\ Head(queue).op = "clear"
              /\ cur' = [Idle EXCEPT !.op = "clear", !.at = "clear"]
              /\ UNCHANGED <<commands, phase, memory, disk, crashes>>

\* What a failed operation leaves, by the catch and finally blocks of its job.
Undone(i) == /\ entries' = [entries EXCEPT ![i] = Nothing]
             /\ active' = active \ {i}
             /\ json' = [json EXCEPT ![i] = Nothing]
             /\ tmp' = [tmp EXCEPT ![i] = Nothing]
             /\ log' = [log EXCEPT ![i] = Nothing]
             /\ synced' = [synced EXCEPT ![i] = 0]
             /\ life' = [life EXCEPT ![i] = "unarchived"]
             /\ UNCHANGED <<bytes, pendingBytes>>
FailedWrite(e, size) == [e EXCEPT !.accepting = FALSE, !.writeFailed = TRUE, !.truncated = TRUE,
                                  !.logBytes = size]
FreedBy(i) == active \ {i}
\* written: the part of the chunk that reached the log.
Fail(written) ==
  LET i == cur.id IN
  /\ CASE cur.op = "start" -> Undone(i)
       [] cur.op = "append" ->
            LET file == log[i] \o written IN
            /\ log' = [log EXCEPT ![i] = file]
            /\ entries' = [entries EXCEPT ![i] = FailedWrite(@, Len(file))]
            /\ bytes' = bytes + (Len(file) - entries[i].logBytes)
            /\ pendingBytes' = pendingBytes - Len(cur.chunk)
            /\ UNCHANGED <<active, json, tmp, synced, life>>
       [] cur.op = "finish" ->
            /\ entries' = [entries EXCEPT ![i].truncated = @ \/ i \in Captured]
            /\ active' = FreedBy(i)
            /\ tmp' = [tmp EXCEPT ![i] = Nothing]
            /\ UNCHANGED <<bytes, pendingBytes, json, log, synced, life>>
       [] OTHER -> UNCHANGED <<entries, active, bytes, pendingBytes, disk, life>>
  /\ Done
  /\ UNCHANGED <<printed, phase, sequence, queue, crashes>>

\* The I/O errors of a step, in the runs that have them.
Fault(step) == step \in Faults /\ At(step)

MakeRoom ==
  /\ At("room") \/ At("save_room")
  /\ \/ /\ Fits /\ At("save_room")
        /\ Goto("write_tmp")
        /\ UNCHANGED <<commands, phase, memory, queue, disk, crashes>>
     \/ /\ Fits /\ At("room") /\ cur.op = "append"
        /\ Goto("write")
        /\ UNCHANGED <<commands, phase, memory, queue, disk, crashes>>
     \/ /\ Fits /\ At("room") /\ cur.op = "start"
        /\ LET i == cur.id
               e == [seq |-> sequence + 1, state |-> "running", truncated |-> FALSE, metaBytes |-> 0,
                     logBytes |-> 0, reserved |-> 0, pending |-> <<>>, queued |-> FALSE,
                     accepting |-> i \in Captured, writeFailed |-> FALSE]
           IN  /\ sequence' = sequence + 1
               /\ entries' = [entries EXCEPT ![i] = e]
               /\ active' = active \cup {i}
               /\ IF i \in Captured THEN Goto("create") ELSE Save(e)
        /\ UNCHANGED <<commands, phase, bytes, pendingBytes, queue, disk, crashes>>
     \/ /\ ~Fits /\ Victims # {}
        /\ Evict(OldestOf(Victims))
        /\ UNCHANGED <<commands, phase, memory, queue, disk, crashes>>
     \/ ~Fits /\ Victims = {} /\ Fail(<<>>)

ClearNext == /\ At("clear")
             /\ \/ Known \ active = {} /\ Done
                \/ \E i \in Known \ active : Evict(i)
             /\ UNCHANGED <<commands, phase, memory, queue, disk, crashes>>

\* remove(): the log, then the metadata, then the accounts.
UnlinkLog == /\ At("unlink_log")
             /\ \/ /\ log' = [log EXCEPT ![cur.victim] = Nothing]
                   /\ synced' = [synced EXCEPT ![cur.victim] = 0]
                   /\ Goto("unlink_json")
                   /\ UNCHANGED <<commands, phase, memory, queue, json, tmp, crashes>>
                \/ Fault("unlink_log") /\ Fail(<<>>)
Released(i) == entries[i].metaBytes + entries[i].logBytes
UnlinkJson == /\ At("unlink_json")
              /\ \/ /\ json' = [json EXCEPT ![cur.victim] = Nothing]
                    /\ bytes' = bytes - Released(cur.victim)
                    /\ entries' = [entries EXCEPT ![cur.victim] = Nothing]
                    /\ cur' = [cur EXCEPT !.at = cur.back, !.back = "idle", !.victim = Nothing]
                    /\ UNCHANGED <<commands, phase, active, sequence, pendingBytes, queue, tmp, log,
                                   synced, crashes>>
                 \/ Fault("unlink_json") /\ Fail(<<>>)

CreateLog == /\ At("create")
             /\ \/ /\ log' = [log EXCEPT ![cur.id] = <<>>]
                   /\ Save(entries[cur.id])
                   /\ UNCHANGED <<commands, phase, memory, queue, json, tmp, synced, crashes>>
                \/ Fault("create") /\ Fail(<<>>)

WriteLog ==
  /\ At("write")
  /\ \/ /\ log' = [log EXCEPT ![cur.id] = @ \o cur.chunk]
        /\ entries' = [entries EXCEPT ![cur.id].logBytes = @ + Len(cur.chunk)]
        /\ bytes' = bytes + Len(cur.chunk)
        /\ pendingBytes' = pendingBytes - Len(cur.chunk)
        /\ Done
        /\ UNCHANGED <<commands, phase, active, sequence, queue, json, tmp, synced, crashes>>
     \/ Fault("write") /\ \E n \in 0..Len(cur.chunk) : Fail(SubSeq(cur.chunk, 1, n))

SyncedLength(i) == Len(log[i])
CutBefore(i) == entries[i].truncated
Cut(i) == entries[i].truncated \/ entries[i].logBytes < printed[i]
SyncLog == /\ At("sync")
           /\ LET i == cur.id
                  e == [entries[i] EXCEPT !.truncated = Cut(i)]
              IN  \/ /\ synced' = [synced EXCEPT ![i] = SyncedLength(i)]
                     /\ entries' = [entries EXCEPT ![i] = e]
                     /\ Save(e)
                     /\ UNCHANGED <<commands, phase, active, sequence, bytes, pendingBytes, queue, json,
                                    tmp, log, crashes>>
                  \/ Fault("sync") /\ Fail(<<>>)

WriteTmp == /\ At("write_tmp")
            /\ \/ /\ tmp' = [tmp EXCEPT ![cur.id] = cur.text]
                  /\ Goto("rename")
                  /\ UNCHANGED <<commands, phase, memory, queue, json, log, synced, crashes>>
               \/ Fault("write_tmp") /\ Fail(<<>>)

\* The rename ends save(), and with it the job.
Rename ==
  /\ At("rename")
  /\ LET i == cur.id IN
     \/ /\ json' = [json EXCEPT ![i] = cur.text]
        /\ tmp' = [tmp EXCEPT ![i] = Nothing]
        /\ bytes' = bytes + cur.text.size - entries[i].metaBytes
        /\ entries' = [entries EXCEPT ![i].metaBytes = cur.text.size]
        /\ IF cur.op = "start" THEN life' = [life EXCEPT ![i] = "running"] /\ UNCHANGED active
                               ELSE active' = active \ {i} /\ UNCHANGED life
        /\ Done
        /\ UNCHANGED <<printed, phase, sequence, pendingBytes, queue, log, synced, crashes>>
     \/ Fault("rename") /\ Fail(<<>>)
-----------------------------------------------------------------------------
(* The process or the machine dies: what a log holds beyond its synced part may be lost, and *)
(* a write may have got any part of its way.                                                 *)
Written(i) == IF log[i] = Nothing THEN <<>>
              ELSE IF At("write") /\ cur.id = i THEN log[i] \o cur.chunk ELSE log[i]
Crash == /\ phase # "down" /\ crashes < MaxCrashes
         /\ crashes' = crashes + 1
         /\ phase' = "down"
         /\ life' = [i \in Ids |-> IF life[i] \in {"starting", "running"} THEN "killed" ELSE life[i]]
         /\ \E left \in [Ids -> 0..MaxPrinted] :
              /\ \A i \in Ids : left[i] \in synced[i]..Len(Written(i))
              /\ log' = [i \in Ids |-> IF log[i] = Nothing THEN Nothing ELSE SubSeq(Written(i), 1, left[i])]
              /\ synced' = left
         /\ entries' = [i \in Ids |-> Nothing]
         /\ active' = {} /\ sequence' = 0 /\ bytes' = 0 /\ pendingBytes' = 0
         /\ queue' = <<>> /\ cur' = Idle
         /\ UNCHANGED <<printed, json, tmp>>

\* initialize(): the index is read back, what belongs to no record is removed.
Doubtful(i) == i \in Captured /\ (json[i].state # "ended" \/ Bytes(log[i]) < json[i].captured)
Outcome(t) == IF t.state = "ended" THEN "ended" ELSE "unknown"
Recovered(i) ==
  LET t == json[i] IN
  [seq |-> t.seq, state |-> Outcome(t),
   truncated |-> t.truncated \/ Doubtful(i),
   metaBytes |-> t.size, logBytes |-> Bytes(log[i]), reserved |-> Bytes(log[i]), pending |-> <<>>,
   queued |-> FALSE, accepting |-> FALSE, writeFailed |-> FALSE]
Recorded == {i \in Ids : json[i] # Nothing}
Restart == /\ phase = "down"
           /\ phase' = "ready"
           /\ entries' = [i \in Ids |-> IF i \in Recorded THEN Recovered(i) ELSE Nothing]
           /\ log' = [i \in Ids |-> IF i \in Recorded THEN log[i] ELSE Nothing]
           /\ synced' = [i \in Ids |-> IF i \in Recorded THEN synced[i] ELSE 0]
           /\ tmp' = [i \in Ids |-> Nothing]
           /\ sequence' = Max({0} \cup {json[i].seq : i \in Recorded})
           /\ bytes' = Total([i \in Ids |-> TextBytes(json[i]) + Bytes(log[i])], Recorded)
           /\ UNCHANGED <<commands, active, pendingBytes, queue, cur, json, crashes>>
-----------------------------------------------------------------------------
Call == \/ \E i \in Ids : Start(i) \/ Finish(i) \/ (\E n \in 1..MaxPrinted : Output(i, n))
        \/ Clear
        \/ Close
JobStep == \/ BeginStart
           \/ BeginAppend
           \/ BeginFinish
           \/ BeginClear
           \/ Flushed
           \/ MakeRoom
           \/ ClearNext
           \/ UnlinkLog
           \/ UnlinkJson
           \/ CreateLog
           \/ WriteLog
           \/ SyncLog
           \/ WriteTmp
           \/ Rename
Next == Call \/ JobStep \/ Unlock \/ Crash \/ Restart

Spec == Init /\ [][Next]_vars

\* File operations return, one after the other.
FairSpec == Spec /\ WF_vars(JobStep)
-----------------------------------------------------------------------------
TypeOK == /\ life \in [Ids -> Lives]
          /\ printed \in [Ids -> 0..MaxPrinted]
          /\ phase \in Phases
          /\ \A i \in Known : entries[i].pending \in Seq(1..MaxPrinted) /\ [entries[i] EXCEPT !.pending = <<>>] \in Entry
          /\ active \subseteq Known
          /\ {sequence, bytes, pendingBytes} \subseteq Nat
          /\ \A k \in DOMAIN queue : queue[k] \in Job
          /\ \A i \in Ids : {json[i], tmp[i]} \ {Nothing} \subseteq Text
          /\ \A i \in Ids : synced[i] <= Bytes(log[i])

(* What a record says is what happened and was kept, also after failed file   *)
(* operations, full queues, crashes and a power failure: "ended" only of a    *)
(* command that has ended, "running" only of one this server is responsible   *)
(* for, a log that is a prefix of the output, and, not truncated, all of it.  *)
(* Exception: where the second unlink of a removal failed, the record remains *)
(* and keeps its claim without its log (history-store.ts:162).                *)
Content(i) == IF log[i] = Nothing THEN <<>> ELSE log[i]
InFlight(i) == cur.id = i \/ cur.victim = i
HalfRemoved(i) == log[i] = Nothing
RecordsAreHonest ==
  \A i \in Known :
    /\ entries[i].state = "ended" => life[i] = "finished"
    /\ entries[i].state = "running" => i \in active
    /\ i \in active => entries[i].state # "unknown"
    /\ IsPrefix(Content(i), Offsets(0, printed[i]))
    /\ i \in Captured /\ entries[i].state = "ended" /\ ~entries[i].truncated
         /\ ~InFlight(i) /\ ~HalfRemoved(i) => Content(i) = Offsets(0, printed[i])

(* Metadata, temporary files and logs never exceed the limit together, not    *)
(* even in the middle of a replacement or after a crash.                      *)
DiskUse == Total([i \in Ids |-> TextBytes(json[i]) + TextBytes(tmp[i]) + Bytes(log[i])], Ids)
DiskWithinLimit == /\ DiskUse <= MaxTotal
                   /\ Cardinality(Known) <= MaxRecords
                   /\ Cardinality(Recorded) <= MaxRecords

(* No file of a command at work is ever removed, by rotation or clear().      *)
ActiveFilesStay ==
  [][\A i \in active \cap active' : /\ json[i] # Nothing => json'[i] # Nothing
                                    /\ log[i] # Nothing => log'[i] # Nothing]_vars

=============================================================================
