----------------------------- MODULE RetryCache -----------------------------
(***************************************************************************)
(* src/runtime/retry-cache.ts: the table that makes a tool call carrying a *)
(* request_id run once.  The first call with an identifier registers an    *)
(* entry and schedules its action; later calls with the same identifier    *)
(* and arguments share the entry's promise; a running command pins the     *)
(* entry, so neither its age nor pressure on the table can drop it.        *)
(*                                                                         *)
(* An operation is one action handed to the event loop by run().  They are *)
(* numbered in the order they are created, which is also the insertion     *)
(* order of the Map the code keeps its entries in.                         *)
(***************************************************************************)
EXTENDS Integers, FiniteSets

CONSTANTS Ids,       \* request identifiers
          NoId,      \* a call without one
          Digests,   \* digests of (method, arguments)
          TTL,       \* retention of a completed entry
          Capacity,  \* most entries kept
          MaxOps,    \* bound: operations created
          MaxTime    \* bound: readings of the clock

ASSUME RetryAssumption == /\ NoId \notin Ids
                          /\ Digests # {}
                          /\ TTL \in Nat \ {0}
                          /\ Capacity \in Nat \ {0}
                          /\ MaxOps \in Nat
                          /\ MaxTime \in Nat

Ops == 1 .. MaxOps
Times == 0 .. MaxTime
Null == -1

VARIABLES entries,   \* the Map: a function whose domain is the registered identifiers
          ops,       \* the operations, by number
          created,   \* how many there are
          now        \* Date.now()

vars == <<entries, ops, created, now>>

Entry == [digest: Digests, op: Ops, completed: Times \cup {Null}, pins: Nat]

(* phase: "queued" is a scheduled microtask, "settled" a settled promise.   *)
(* pin: what became of the release function the action got from pin().      *)
(* served: the digests of the calls that were handed this promise.          *)
(* quiet: when the operation last did something its entry must outlive.     *)
Op == [id: Ids \cup {NoId}, digest: Digests,
       phase: {"unborn", "queued", "running", "settled"},
       pin: {"none", "held", "released"},
       served: SUBSET Digests, quiet: Times \cup {Null}]

Unborn == [id |-> NoId, digest |-> CHOOSE d \in Digests : TRUE, phase |-> "unborn",
           pin |-> "none", served |-> {}, quiet |-> Null]

TypeOK == /\ DOMAIN entries \subseteq Ids
          /\ entries \in [DOMAIN entries -> Entry]
          /\ ops \in [Ops -> Op]
          /\ created \in 0 .. MaxOps
          /\ now \in Times

Init == /\ entries = [i \in {} |-> Null]
        /\ ops = [o \in Ops |-> Unborn]
        /\ created = 0
        /\ now = 0

-----------------------------------------------------------------------------
(* The table.  Every operator takes the entries es and returns new ones.    *)

\* Slips of the kind the code could have, for showing that the properties notice.
EvictableWhilePinned(e) == e.completed # Null
Evictable(e) == e.completed # Null /\ e.pins = 0

Expired(e, t) == Evictable(e) /\ t - e.completed >= TTL

Only(es, I) == [i \in I |-> es[i]]

\* sweep()
Swept(es, t) == Only(es, {i \in DOMAIN es : ~Expired(es[i], t)})

\* What a new entry finds: the table itself, or without its first removable entry.
Removable(es) == {i \in DOMAIN es : Evictable(es[i])}
FirstRemovable(es) == {i \in Removable(es) : \A j \in Removable(es) : es[i].op <= es[j].op}
IsFull(es) == Cardinality(DOMAIN es) >= Capacity
RoomFor(es) == IF IsFull(es) THEN {Only(es, DOMAIN es \ {i}) : i \in FirstRemovable(es)} ELSE {es}

Registered(es, i, o, d) ==
  [j \in DOMAIN es \cup {i} |->
     IF j = i THEN [digest |-> d, op |-> o, completed |-> Null, pins |-> 0] ELSE es[j]]

\* The entry object the operation o captured, if the Map still holds it.
Holds(es, o) == ops[o].id \in DOMAIN es /\ es[ops[o].id].op = o

UpdatedEntry(es, o, e) == [es EXCEPT ![ops[o].id] = e]

\* pin() of the running operation o: entries.get(id), entry.pins++
NotPinned(es, o) == es
Pinned(es, o) ==
  IF Holds(es, o) THEN UpdatedEntry(es, o, [es[ops[o].id] EXCEPT !.pins = @ + 1]) ELSE es

\* the function pin() returned, called for the first time at t
ReleasedKeepingAge(e, t) == [e EXCEPT !.pins = @ - 1]
ReleasedEntry(e, t) == [e EXCEPT !.pins = @ - 1,
                                 !.completed = IF e.pins = 1 /\ @ # Null THEN t ELSE @]
Released(es, o, t) ==
  IF Holds(es, o) THEN UpdatedEntry(es, o, ReleasedEntry(es[ops[o].id], t)) ELSE es

\* the finally() of run()
Completed(es, o, t) ==
  IF Holds(es, o) THEN UpdatedEntry(es, o, [es[ops[o].id] EXCEPT !.completed = t]) ELSE es

-----------------------------------------------------------------------------
(* run(): four outcomes after the sweep, and the call without identifier.   *)

NewOp(i, d, phase) ==
  /\ created < MaxOps
  /\ created' = created + 1
  /\ ops' = [ops EXCEPT ![created + 1] = [id |-> i, digest |-> d, phase |-> phase, pin |-> "none",
                                          served |-> {d}, quiet |-> Null]]

\* Without identifier the action runs at once; it may begin with a sweep.
RunWithoutId(d, sweeps) == /\ NewOp(NoId, d, "running")
                           /\ entries' = IF sweeps THEN Swept(entries, now) ELSE entries
                           /\ UNCHANGED now

SameOperation(e, d) == e.digest = d

\* The same identifier and arguments: the caller gets the first call's promise.
RunShared(i, d) == LET es == Swept(entries, now) IN
  /\ i \in DOMAIN es
  /\ SameOperation(es[i], d)
  /\ entries' = es
  /\ ops' = [ops EXCEPT ![es[i].op].served = @ \cup {d}]
  /\ UNCHANGED <<created, now>>

\* REQUEST_ID_CONFLICT, or REQUEST_CACHE_FULL
RunRefused(i, d) == LET es == Swept(entries, now) IN
  /\ \/ i \in DOMAIN es /\ ~SameOperation(es[i], d)
     \/ i \notin DOMAIN es /\ RoomFor(es) = {}
  /\ entries' = es
  /\ UNCHANGED <<ops, created, now>>

\* The entry is in the table before the action is scheduled.
RunFresh(i, d) == LET es == Swept(entries, now) IN
  /\ i \notin DOMAIN es
  /\ NewOp(i, d, "queued")
  /\ \E room \in RoomFor(es) : entries' = Registered(room, i, created + 1, d)
  /\ UNCHANGED now

\* The synchronous first part of the action.  The actions of ExecManager sweep the
\* table there; exec_command's also pins its own entry once the slot is reserved.
Begin(o, sweeps, pins) == LET es == IF sweeps THEN Swept(entries, now) ELSE entries IN
  /\ o \in 1 .. created
  /\ ops[o].phase = "queued"
  /\ ops' = [ops EXCEPT ![o].phase = "running", ![o].pin = IF pins THEN "held" ELSE @]
  /\ entries' = IF pins THEN Pinned(es, o) ELSE es
  /\ UNCHANGED <<created, now>>

\* The command of o has ended and the release function runs, before or after the
\* response was given.  A second call of it does nothing: released is already true.
ReleaseAgain(o) == ops[o].pin \in {"held", "released"}
FirstRelease(o) == ops[o].pin = "held"
Release(o) == /\ FirstRelease(o)
              /\ ops' = [ops EXCEPT ![o].pin = "released", ![o].quiet = now]
              /\ entries' = Released(entries, o, now)
              /\ UNCHANGED <<created, now>>

\* The promise of o is settled: a failure is kept like a result.
Settle(o) == /\ ops[o].phase = "running"
             /\ ops' = [ops EXCEPT ![o].phase = "settled", ![o].quiet = now]
             /\ entries' = Completed(entries, o, now)
             /\ UNCHANGED <<created, now>>

Sweep == /\ entries' = Swept(entries, now)
         /\ UNCHANGED <<ops, created, now>>

Tick == /\ now < MaxTime
        /\ now' = now + 1
        /\ UNCHANGED <<entries, ops, created>>

Next == \/ \E d \in Digests, sweeps \in BOOLEAN : RunWithoutId(d, sweeps)
        \/ \E i \in Ids, d \in Digests : RunShared(i, d) \/ RunRefused(i, d) \/ RunFresh(i, d)
        \/ \E o \in Ops : \/ \E sweeps, pins \in BOOLEAN : Begin(o, sweeps, pins)
                          \/ Release(o)
                          \/ Settle(o)
        \/ Sweep
        \/ Tick

Spec == Init /\ [][Next]_vars
-----------------------------------------------------------------------------
\* An operation under an identifier whose effect is not over: it is scheduled or
\* running, or it left behind a command that has not ended.
Working(o) == /\ ops[o].id # NoId
              /\ ops[o].phase \in {"queued", "running"} \/ ops[o].pin = "held"

(* In-flight and pinned operations stay registered: whatever the sweeps and  *)
(* evictions in between, the table maps the identifier of every operation    *)
(* still at work to that very operation (class comment of retry-cache.ts:    *)
(* "In-flight entries are never evicted").                                   *)
WorkingIsRegistered == \A o \in Ops : Working(o) => Holds(entries, o)

(* No identifier ever has two operations at work, so a repeated call cannot  *)
(* start a second command while the first one runs.                          *)
OneOperationPerId ==
  \A o, p \in Ops : Working(o) /\ Working(p) /\ ops[o].id = ops[p].id => o = p

(* A caller is only ever given the promise of the operation it asked for.    *)
NoForeignAnswer == \A o \in 1 .. created : ops[o].served = {ops[o].digest}

(* The pin count of an entry is the number of release functions its          *)
(* operation has not called: exactly one while the command runs.             *)
PinsAreHeld ==
  \A i \in DOMAIN entries : entries[i].pins = IF ops[entries[i].op].pin = "held" THEN 1 ELSE 0

(* The table never exceeds its capacity, pinned entries included.            *)
WithinCapacity == Cardinality(DOMAIN entries) <= Capacity

(* An entry leaves the table only when its operation is over and, unless the *)
(* table was full and a call needed its place, not before the TTL has run    *)
(* from the later of the response and the end of the command.                *)
KeptForTTL ==
  [][\A i \in DOMAIN entries :
       (i \notin DOMAIN entries' \/ entries'[i].op # entries[i].op) =>
         LET o == entries[i].op IN
           /\ ~Working(o)
           /\ \/ now - ops[o].quiet >= TTL
              \/ Cardinality(DOMAIN entries) >= Capacity /\ created' = created + 1]_vars

(* The table implements the promise of a request identifier.                 *)
Ledger == INSTANCE RequestLedger WITH
            remembered <- [i \in Ids |-> IF i \in DOMAIN entries THEN entries[i].op ELSE 0],
            started <- {o \in 1 .. created : ops[o].id # NoId},
            atWork <- {o \in Ops : Working(o)}
LedgerSpec == Ledger!LedgerSpec
=============================================================================
