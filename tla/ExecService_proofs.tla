-------------------------- MODULE ExecService_proofs --------------------------
(***************************************************************************)
(* Proofs about the request table and about the execution sessions behind   *)
(* it, for every set of identifiers and digests, every capacity, retention  *)
(* time and number of operations and sessions.  First RetryCache by itself, *)
(* then ExecService, whose every step is one of the table or none and one of *)
(* ExecManager or none, so that what is proved of the two holds here.        *)
(***************************************************************************)
EXTENDS ExecService, FiniteSetTheorems, TLAPS

M == INSTANCE ExecManager_proofs

(* Both components may be relied on: their assumptions are the service's.    *)
LEMMA TableAssumption ==
  /\ NoId \notin Ids
  /\ Digests # {}
  /\ TTL \in Nat \ {0}
  /\ Capacity \in Nat \ {0}
  /\ MaxOps \in Nat
  /\ MaxTime \in Nat
BY RetryAssumption

LEMMA SessionAssumption == M!ExecAssumption
BY ServiceAssumption DEF Exec!ExecAssumption, M!ExecAssumption, Exec!Sessions, M!Sessions

LEMMA SameCardinality ==
  ASSUME NEW S
  PROVE  /\ Exec!Cardinality(S) = Cardinality(S) /\ M!Cardinality(S) = Cardinality(S)
BY DEF Exec!Cardinality, M!Cardinality, Cardinality

-----------------------------------------------------------------------------
(* The request table.                                                        *)

(* What an entry knows of its operation.  The entry of an operation that is *)
(* not settled has no completion time; the pin count is the held function.  *)
EntryMatches(i) ==
  LET e == entries[i] o == e.op IN
    /\ o \in 1 .. created
    /\ ops[o].id = i
    /\ e.digest = ops[o].digest
    /\ e.completed = IF ops[o].phase = "settled" THEN ops[o].quiet ELSE Null
    /\ e.pins = IF ops[o].pin = "held" THEN 1 ELSE 0

OpWellFormed(o) ==
  /\ o \in 1 .. created <=> ops[o].phase # "unborn"
  /\ ops[o].phase = "unborn" => ops[o].id = NoId
  /\ ops[o].phase = "queued" => ops[o].id # NoId
  /\ ops[o].phase \in {"unborn", "queued"} => ops[o].pin = "none"
  /\ ops[o].phase = "settled" => ops[o].quiet # Null
  /\ ops[o].pin = "held" => ops[o].id # NoId

(* The inductive invariant: type, the two correspondences, and that every    *)
(* working operation is the one its identifier is registered for.            *)
TableOK == /\ TypeOK
           /\ \A i \in DOMAIN entries : EntryMatches(i)
           /\ \A o \in Ops : OpWellFormed(o)
           /\ WorkingIsRegistered

USE DEF Times, Null

\* Sweeping and making room only take entries of operations that are over.
LEMMA SweptSubset ==
  ASSUME NEW es, NEW t
  PROVE  /\ Swept(es, t) = [i \in DOMAIN Swept(es, t) |-> Swept(es, t)[i]]
         /\ DOMAIN Swept(es, t) \subseteq DOMAIN es
         /\ \A i \in DOMAIN Swept(es, t) : Swept(es, t)[i] = es[i]
         /\ \A i \in DOMAIN es \ DOMAIN Swept(es, t) : Expired(es[i], t)
BY DEF Swept, Only

LEMMA RoomSubset ==
  ASSUME NEW es, es = [i \in DOMAIN es |-> es[i]], NEW room \in RoomFor(es)
  PROVE  /\ room = [i \in DOMAIN room |-> room[i]]
         /\ DOMAIN room \subseteq DOMAIN es
         /\ \A i \in DOMAIN room : room[i] = es[i]
         /\ \A i \in DOMAIN es \ DOMAIN room : Evictable(es[i])
<1>1. CASE IsFull(es)
  <2>1. PICK v \in FirstRemovable(es) : room = Only(es, DOMAIN es \ {v})
    BY <1>1 DEF RoomFor
  <2>2. v \in DOMAIN es /\ Evictable(es[v])
    BY DEF FirstRemovable, Removable
  <2> QED BY <2>1, <2>2 DEF Only
<1>2. CASE ~IsFull(es)
  BY <1>2 DEF RoomFor
<1> QED BY <1>1, <1>2

LEMMA InitTable == Init => TableOK
<1> SUFFICES ASSUME Init PROVE TableOK
  OBVIOUS
<1> USE TableAssumption DEF Init
<1>1. Unborn \in Op
  BY DEF Unborn, Op
<1>2. TypeOK
  BY <1>1 DEF TypeOK
<1>3. \A o \in Ops : OpWellFormed(o) /\ ~Working(o)
  BY DEF OpWellFormed, Unborn, Working
<1> QED BY <1>2, <1>3 DEF TableOK, EntryMatches, WorkingIsRegistered

(* A table that lacks some evictable entries of the current one, as a sweep  *)
(* and the search for room leave it.                                         *)
SubTable(es) == /\ es = [i \in DOMAIN es |-> es[i]]
                /\ DOMAIN es \subseteq DOMAIN entries
                /\ \A i \in DOMAIN es : es[i] = entries[i]
                /\ \A i \in DOMAIN entries \ DOMAIN es : Evictable(entries[i])

LEMMA SweptIsSubTable == SubTable(Swept(entries, now))
BY SweptSubset DEF SubTable, Expired

LEMMA RoomIsSubTable ==
  ASSUME NEW room \in RoomFor(Swept(entries, now))
  PROVE  SubTable(room)
BY SweptIsSubTable, RoomSubset DEF SubTable

(* An evictable entry belongs to an operation that is over.                  *)
LEMMA EvictableIsOver ==
  ASSUME TableOK, NEW i \in DOMAIN entries, Evictable(entries[i])
  PROVE  ~Working(entries[i].op)
BY TableAssumption DEF TableOK, TypeOK, EntryMatches, OpWellFormed, Evictable, Working, Entry, Op, Ops

(* So a sub-table still registers every working operation.                   *)
LEMMA SubTableHoldsWorking ==
  ASSUME TableOK, NEW es, SubTable(es), NEW o \in Ops, Working(o)
  PROVE  Holds(es, o)
<1>1. Holds(entries, o)
  BY DEF TableOK, WorkingIsRegistered
<1>2. CASE ops[o].id \in DOMAIN es
  BY <1>1, <1>2 DEF Holds, SubTable
<1>3. CASE ops[o].id \notin DOMAIN es
  BY <1>1, <1>3, EvictableIsOver DEF Holds, SubTable
<1> QED BY <1>2, <1>3

(* Steps that only drop entries of operations that are over.                 *)
LEMMA SubTableStep ==
  ASSUME TableOK, SubTable(entries'), UNCHANGED <<ops, created>>, now' \in Times
  PROVE  TableOK'
<1>1. TypeOK'
  BY DEF TableOK, TypeOK, SubTable
<1>2. \A i \in DOMAIN entries' : EntryMatches(i)'
  BY DEF TableOK, EntryMatches, SubTable
<1>3. \A o \in Ops : OpWellFormed(o)'
  BY DEF TableOK, OpWellFormed
<1>4. WorkingIsRegistered'
  <2> SUFFICES ASSUME NEW o \in Ops, Working(o)' PROVE Holds(entries, o)'
    BY DEF WorkingIsRegistered
  <2>1. Working(o)
    BY DEF Working
  <2> QED BY <2>1, SubTableHoldsWorking DEF Holds
<1> QED BY <1>1, <1>2, <1>3, <1>4 DEF TableOK

(* A new operation, in the table under i or bare when i is NoId.             *)
LEMMA NewOpStep ==
  ASSUME TableOK, NEW i \in Ids \cup {NoId}, NEW d \in Digests, NEW phase \in {"queued", "running"},
         NewOp(i, d, phase), UNCHANGED now, NEW es, SubTable(es),
         \/ i = NoId /\ phase = "running" /\ entries' = es
         \/ i # NoId /\ i \notin DOMAIN Swept(entries, now) /\ entries' = Registered(es, i, created + 1, d)
              /\ DOMAIN es \subseteq DOMAIN Swept(entries, now)
  PROVE  TableOK'
<1> USE TableAssumption
<1> DEFINE n == created + 1
<1>1. /\ n \in Ops /\ created \in Nat /\ created' = n
      /\ ops' \in [Ops -> Op]
      /\ ops'[n] = [id |-> i, digest |-> d, phase |-> phase, pin |-> "none",
                     served |-> {d}, quiet |-> Null]
      /\ \A o \in Ops \ {n} : ops'[o] = ops[o]
  BY DEF NewOp, TableOK, TypeOK, Ops, Op
<1>2. /\ DOMAIN entries' \subseteq DOMAIN es \cup (IF i = NoId THEN {} ELSE {i})
      /\ \A j \in DOMAIN es : j # i => j \in DOMAIN entries' /\ entries'[j] = entries[j]
      /\ i # NoId => /\ i \in DOMAIN entries'
                     /\ entries'[i] = [digest |-> d, op |-> n, completed |-> Null, pins |-> 0]
  BY DEF Registered, SubTable
<1>3. NoId \notin DOMAIN entries /\ DOMAIN entries \subseteq Ids
  BY DEF TableOK, TypeOK
<1>4. TypeOK'
  <2>1. entries' = [j \in DOMAIN entries' |-> entries'[j]]
    BY DEF Registered, SubTable
  <2>2. ASSUME NEW j \in DOMAIN entries' PROVE entries'[j] \in Entry
    BY <1>1, <1>2, <1>3 DEF TableOK, TypeOK, SubTable, Entry
  <2>3. entries' \in [DOMAIN entries' -> Entry]
    BY <2>1, <2>2
  <2> QED BY <1>1, <1>2, <1>3, <2>3 DEF TableOK, TypeOK, SubTable, Ops
<1>5. ASSUME NEW j \in DOMAIN entries' PROVE EntryMatches(j)'
  <2>1. CASE j = i
    BY <1>1, <1>2, <1>3, <2>1 DEF EntryMatches, SubTable
  <2>2. CASE j # i
    <3>1. j \in DOMAIN entries /\ entries'[j] = entries[j]
      BY <1>2, <2>2 DEF SubTable
    <3>2. EntryMatches(j)
      BY <3>1 DEF TableOK
    <3> QED BY <1>1, <3>1, <3>2 DEF EntryMatches, Ops
  <2> QED BY <2>1, <2>2
<1>6. ASSUME NEW o \in Ops PROVE OpWellFormed(o)'
  BY <1>1 DEF TableOK, OpWellFormed, Ops, TypeOK
<1>7. ASSUME NEW o \in Ops, Working(o)' PROVE Holds(entries, o)'
  <2>1. CASE o = n
    BY <1>1, <1>2, <1>7, <2>1 DEF Holds, Working
  <2>2. CASE o # n
    <3>1. Working(o)
      BY <1>1, <1>7, <2>2 DEF Working
    <3>2. Holds(es, o)
      BY <3>1, SubTableHoldsWorking
    <3>3. ops[o].id # i
      BY <3>2, <1>3 DEF Holds, SubTable
    <3> QED BY <1>1, <1>2, <2>2, <3>2, <3>3 DEF Holds, SubTable
  <2> QED BY <2>1, <2>2
<1> QED BY <1>4, <1>5, <1>6, <1>7 DEF TableOK, WorkingIsRegistered

(* A step of one registered operation o, which stays where the table has it. *)
(* Its entry, if the table still holds it, becomes e.                        *)
LEMMA OwnEntryStep ==
  ASSUME TableOK, NEW es, SubTable(es), NEW o \in 1 .. created, UNCHANGED <<created, now>>,
         NEW r \in Op, ops' = [ops EXCEPT ![o] = r],
         r.id = ops[o].id, r.digest = ops[o].digest, OpWellFormed(o)',
         NEW e, entries' = IF Holds(es, o) THEN UpdatedEntry(es, o, e) ELSE es,
         Holds(es, o) =>
           /\ e \in Entry /\ e.op = o /\ e.digest = r.digest
           /\ e.completed = IF r.phase = "settled" THEN r.quiet ELSE Null
           /\ e.pins = IF r.pin = "held" THEN 1 ELSE 0,
         Working(o)' => Working(o)
  PROVE  TableOK'
<1>1. /\ o \in Ops /\ created' = created /\ now' = now
      /\ ops' \in [Ops -> Op] /\ ops'[o] = r
      /\ \A p \in Ops \ {o} : ops'[p] = ops[p]
  BY TableAssumption DEF TableOK, TypeOK, Ops
<1>2. /\ DOMAIN entries' = DOMAIN es
      /\ \A i \in DOMAIN es : entries'[i] = IF Holds(es, o) /\ i = ops[o].id THEN e ELSE entries[i]
  BY DEF UpdatedEntry, SubTable
<1>3. TypeOK'
  <2>1. entries' = [j \in DOMAIN entries' |-> entries'[j]]
    BY DEF UpdatedEntry, SubTable
  <2>2. ASSUME NEW j \in DOMAIN entries' PROVE entries'[j] \in Entry
    BY <1>2 DEF TableOK, TypeOK, SubTable
  <2>3. entries' \in [DOMAIN entries' -> Entry]
    BY <2>1, <2>2
  <2> QED BY <1>1, <1>2, <2>3 DEF TableOK, TypeOK, SubTable
<1>4. ASSUME NEW i \in DOMAIN entries' PROVE EntryMatches(i)'
  <2>1. i \in DOMAIN entries /\ EntryMatches(i) /\ es[i] = entries[i]
    BY <1>2 DEF SubTable, TableOK
  <2>2. CASE entries[i].op = o
    <3>1. Holds(es, o) /\ i = ops[o].id
      BY <1>2, <2>1, <2>2 DEF Holds, EntryMatches
    <3>2. entries'[i] = e
      BY <1>2, <3>1
    <3> QED BY <1>1, <3>1, <3>2 DEF EntryMatches
  <2>3. CASE entries[i].op # o
    <3>1. entries'[i] = entries[i]
      BY <1>2, <2>1, <2>3 DEF Holds
    <3> QED BY <1>1, <2>1, <2>3, <3>1 DEF EntryMatches, Ops, TableOK, TypeOK
  <2> QED BY <2>2, <2>3
<1>5. ASSUME NEW p \in Ops PROVE OpWellFormed(p)'
  <2>1. CASE p = o
    BY <2>1
  <2>2. CASE p # o
    BY <1>1, <2>2 DEF TableOK, OpWellFormed
  <2> QED BY <2>1, <2>2
<1>6. ASSUME NEW p \in Ops, Working(p)' PROVE Holds(entries, p)'
  <2>1. Working(p)
    BY <1>1, <1>6 DEF Working
  <2>2. Holds(es, p)
    BY <2>1, SubTableHoldsWorking
  <2> QED BY <1>1, <1>2, <2>2 DEF Holds, SubTable
<1> QED BY <1>3, <1>4, <1>5, <1>6 DEF TableOK, WorkingIsRegistered

LEMMA EntriesAreSubTable == TableOK => SubTable(entries)
BY DEF SubTable, TableOK, TypeOK

LEMMA BeginStep ==
  ASSUME TableOK, NEW o \in Ops, NEW sweeps \in BOOLEAN, NEW pins \in BOOLEAN, Begin(o, sweeps, pins)
  PROVE  TableOK'
<1> DEFINE es == IF sweeps THEN Swept(entries, now) ELSE entries
           r == [ops[o] EXCEPT !.phase = "running", !.pin = IF pins THEN "held" ELSE @]
           e == [es[ops[o].id] EXCEPT !.pins = IF pins THEN @ + 1 ELSE @]
<1>1. SubTable(es)
  BY SweptIsSubTable, EntriesAreSubTable
<1>2. o \in 1 .. created /\ ops[o] \in Op /\ ops[o].phase = "queued" /\ OpWellFormed(o)
  BY DEF TableOK, TypeOK, Begin
<1>3. r \in Op /\ ops' = [ops EXCEPT ![o] = r] /\ r.id = ops[o].id /\ r.digest = ops[o].digest
  BY <1>2 DEF Begin, Op, TableOK, TypeOK
<1>4. Working(o) /\ Holds(es, o)
  BY <1>1, <1>2, SubTableHoldsWorking DEF Working, OpWellFormed
<1>5. /\ es[ops[o].id] = entries[ops[o].id] /\ ops[o].id \in DOMAIN entries
      /\ entries[ops[o].id] \in Entry /\ EntryMatches(ops[o].id)
      /\ entries[ops[o].id].op = o
  BY <1>1, <1>4 DEF Holds, SubTable, TableOK, TypeOK
<1>6. e \in Entry /\ e.op = o /\ e.digest = r.digest /\ e.completed = Null
      /\ e.pins = IF r.pin = "held" THEN 1 ELSE 0
  BY <1>2, <1>5 DEF Entry, EntryMatches, OpWellFormed, Op
<1>7. entries' = UpdatedEntry(es, o, e)
  <2>1. CASE pins
    BY <1>4, <2>1 DEF Begin, Pinned
  <2>2. CASE ~pins
    <3>1. e = es[ops[o].id]
      BY <1>5, <2>2 DEF Entry
    <3> QED BY <1>1, <2>2, <3>1 DEF Begin, UpdatedEntry, SubTable
  <2> QED BY <2>1, <2>2
<1>8. OpWellFormed(o)' /\ created' = created /\ now' = now
  BY <1>2, <1>3 DEF OpWellFormed, Begin, TableOK, TypeOK
<1>9. r.phase = "running"
  BY <1>2 DEF Op
<1> HIDE DEF es, r, e
<1> QED BY <1>1, <1>2, <1>3, <1>4, <1>6, <1>7, <1>8, <1>9, OwnEntryStep

LEMMA ReleaseStep ==
  ASSUME TableOK, NEW o \in Ops, Release(o)
  PROVE  TableOK'
<1> DEFINE r == [ops[o] EXCEPT !.pin = "released", !.quiet = now]
           e == ReleasedEntry(entries[ops[o].id], now)
<1>1. SubTable(entries)
  BY EntriesAreSubTable
<1>2. o \in 1 .. created /\ ops[o] \in Op /\ ops[o].pin = "held" /\ OpWellFormed(o)
  BY DEF TableOK, TypeOK, Release, FirstRelease, OpWellFormed, Ops
<1>3. r \in Op /\ ops' = [ops EXCEPT ![o] = r] /\ r.id = ops[o].id /\ r.digest = ops[o].digest
  BY <1>2 DEF Release, Op, TableOK, TypeOK
<1>4. Working(o) /\ Holds(entries, o)
  BY <1>1, <1>2, SubTableHoldsWorking DEF Working, OpWellFormed, Ops
<1>5. /\ ops[o].id \in DOMAIN entries
      /\ entries[ops[o].id] \in Entry /\ EntryMatches(ops[o].id)
      /\ entries[ops[o].id].op = o
  BY <1>4 DEF Holds, TableOK, TypeOK
<1>6. now \in Times
  BY DEF TableOK, TypeOK
<1>7. e \in Entry /\ e.op = o /\ e.digest = r.digest
      /\ e.completed = (IF r.phase = "settled" THEN r.quiet ELSE Null)
      /\ e.pins = IF r.pin = "held" THEN 1 ELSE 0
  <2> DEFINE f == entries[ops[o].id]
  <2>1. /\ f \in Entry /\ f.op = o /\ f.digest = ops[o].digest /\ f.pins = 1
        /\ f.completed # Null <=> ops[o].phase = "settled"
    BY <1>2, <1>5 DEF EntryMatches, OpWellFormed
  <2>2. r.phase = ops[o].phase /\ r.pin = "released" /\ r.quiet = now
    BY <1>2 DEF Op
  <2>3. e = [f EXCEPT !.pins = 0, !.completed = IF @ # Null THEN now ELSE @]
    BY <2>1 DEF ReleasedEntry, Entry
  <2> HIDE DEF e, f, r
  <2> QED BY <1>3, <1>6, <2>1, <2>2, <2>3 DEF Entry
<1>8. entries' = UpdatedEntry(entries, o, e) /\ created' = created /\ now' = now
  BY <1>4 DEF Release, Released
<1>9. OpWellFormed(o)'
  BY <1>2, <1>3, <1>6, <1>8 DEF OpWellFormed, TableOK, TypeOK
<1> HIDE DEF r, e
<1> QED BY <1>1, <1>2, <1>3, <1>4, <1>7, <1>8, <1>9, OwnEntryStep

LEMMA SettleStep ==
  ASSUME TableOK, NEW o \in Ops, Settle(o)
  PROVE  TableOK'
<1> DEFINE r == [ops[o] EXCEPT !.phase = "settled", !.quiet = now]
           e == [entries[ops[o].id] EXCEPT !.completed = now]
<1>1. SubTable(entries)
  BY EntriesAreSubTable
<1>2. o \in 1 .. created /\ ops[o] \in Op /\ ops[o].phase = "running" /\ OpWellFormed(o)
  BY DEF TableOK, TypeOK, Settle, OpWellFormed
<1>3. r \in Op /\ ops' = [ops EXCEPT ![o] = r] /\ r.id = ops[o].id /\ r.digest = ops[o].digest
  BY <1>2 DEF Settle, Op, TableOK, TypeOK
<1>4. now \in Times /\ created' = created /\ now' = now
  BY DEF TableOK, TypeOK, Settle
<1>5. ASSUME Holds(entries, o)
      PROVE  /\ e \in Entry /\ e.op = o /\ e.digest = r.digest
             /\ e.completed = (IF r.phase = "settled" THEN r.quiet ELSE Null)
             /\ e.pins = IF r.pin = "held" THEN 1 ELSE 0
  <2>1. /\ entries[ops[o].id] \in Entry /\ EntryMatches(ops[o].id)
        /\ entries[ops[o].id].op = o
    BY <1>5 DEF Holds, TableOK, TypeOK
  <2> QED BY <1>2, <1>4, <2>1 DEF Entry, EntryMatches, Op
<1>6. entries' = IF Holds(entries, o) THEN UpdatedEntry(entries, o, e) ELSE entries
  BY DEF Settle, Completed
<1>7. OpWellFormed(o)'
  BY <1>2, <1>3, <1>4 DEF OpWellFormed, TableOK, TypeOK
<1>8. Working(o)' => Working(o)
  BY <1>2, <1>3 DEF Working, TableOK, TypeOK
<1> HIDE DEF r, e
<1> QED BY <1>1, <1>2, <1>3, <1>4, <1>5, <1>6, <1>7, <1>8, OwnEntryStep

LEMMA RunSharedStep ==
  ASSUME TableOK, NEW i \in Ids, NEW d \in Digests, RunShared(i, d)
  PROVE  TableOK'
<1> DEFINE es == Swept(entries, now)
<1>1. SubTable(es) /\ i \in DOMAIN es
  BY SweptIsSubTable DEF RunShared
<1>2. es[i] = entries[i] /\ entries[i] \in Entry /\ EntryMatches(i)
  BY <1>1 DEF SubTable, TableOK, TypeOK
<1>3. PICK o \in Ops : o = es[i].op
  BY <1>2 DEF Entry
<1> DEFINE r == [ops[o] EXCEPT !.served = @ \cup {d}]
<1>4. o \in 1 .. created /\ ops[o] \in Op /\ OpWellFormed(o) /\ ops[o].id = i
  BY <1>2, <1>3 DEF EntryMatches, TableOK, TypeOK
<1>5. ops' = [ops EXCEPT ![o].served = @ \cup {d}] /\ created' = created /\ now' = now
  BY <1>3 DEF RunShared
<1>6. r \in Op /\ ops' = [ops EXCEPT ![o] = r] /\ r.id = ops[o].id /\ r.digest = ops[o].digest
      /\ r.phase = ops[o].phase /\ r.pin = ops[o].pin /\ r.quiet = ops[o].quiet
  BY <1>4, <1>5 DEF Op, TableOK, TypeOK
<1>7. Holds(es, o)
  BY <1>1, <1>3, <1>4 DEF Holds
<1>8. entries' = UpdatedEntry(es, o, es[i])
  BY <1>1, <1>4 DEF RunShared, UpdatedEntry, SubTable
<1>9. OpWellFormed(o)' /\ (Working(o)' => Working(o))
  <2>1. ops'[o] = r
    BY <1>6 DEF TableOK, TypeOK
  <2> HIDE DEF r
  <2> QED BY <1>4, <1>5, <1>6, <2>1 DEF OpWellFormed, Working
<1>10. /\ es[i].digest = r.digest
       /\ es[i].completed = (IF r.phase = "settled" THEN r.quiet ELSE Null)
       /\ es[i].pins = IF r.pin = "held" THEN 1 ELSE 0
  BY <1>2, <1>3, <1>6 DEF EntryMatches
<1>11. es[i] \in Entry /\ es[i].op = o
  BY <1>2, <1>3
<1> HIDE DEF es, r
<1> QED BY <1>1, <1>4, <1>5, <1>6, <1>7, <1>8, <1>9, <1>10, <1>11, OwnEntryStep

LEMMA RunFreshStep ==
  ASSUME TableOK, NEW i \in Ids, NEW d \in Digests, RunFresh(i, d)
  PROVE  TableOK'
<1>1. PICK room \in RoomFor(Swept(entries, now)) :
             entries' = Registered(room, i, created + 1, d)
  BY DEF RunFresh
<1>2. SubTable(room)
  BY RoomIsSubTable
<1>3. DOMAIN room \subseteq DOMAIN Swept(entries, now)
  BY RoomSubset, SweptIsSubTable DEF SubTable
<1>4. NewOp(i, d, "queued") /\ now' = now /\ i \notin DOMAIN Swept(entries, now) /\ i # NoId
  BY TableAssumption DEF RunFresh
<1> QED BY <1>1, <1>2, <1>3, <1>4, NewOpStep

LEMMA RunWithoutIdStep ==
  ASSUME TableOK, NEW d \in Digests, NEW sweeps \in BOOLEAN, RunWithoutId(d, sweeps)
  PROVE  TableOK'
<1>1. SubTable(entries')
  <2>1. entries' = Swept(entries, now) \/ entries' = entries
    BY DEF RunWithoutId
  <2> QED BY <2>1, SweptIsSubTable, EntriesAreSubTable DEF SubTable
<1>2. NewOp(NoId, d, "running") /\ now' = now
  BY DEF RunWithoutId
<1> QED BY <1>1, <1>2, NewOpStep

(* The invariant is inductive: one case per action.                          *)
LEMMA NextTable == TableOK /\ [Next]_vars => TableOK'
<1> SUFFICES ASSUME TableOK, [Next]_vars PROVE TableOK'
  OBVIOUS
<1>0. now \in Times
  BY DEF TableOK, TypeOK
<1>1. CASE \E d \in Digests, sweeps \in BOOLEAN : RunWithoutId(d, sweeps)
  BY <1>1, RunWithoutIdStep
<1>2. CASE \E i \in Ids, d \in Digests : RunShared(i, d)
  BY <1>2, RunSharedStep
<1>3. CASE \E i \in Ids, d \in Digests : RunRefused(i, d)
  <2>1. SubTable(entries') /\ UNCHANGED <<ops, created, now>>
    BY <1>3, SweptIsSubTable DEF RunRefused
  <2> QED BY <1>0, <2>1, SubTableStep
<1>4. CASE \E i \in Ids, d \in Digests : RunFresh(i, d)
  BY <1>4, RunFreshStep
<1>5. CASE \E o \in Ops, sweeps, pins \in BOOLEAN : Begin(o, sweeps, pins)
  BY <1>5, BeginStep
<1>6. CASE \E o \in Ops : Release(o)
  BY <1>6, ReleaseStep
<1>7. CASE \E o \in Ops : Settle(o)
  BY <1>7, SettleStep
<1>8. CASE Sweep
  <2>1. SubTable(entries') /\ UNCHANGED <<ops, created, now>>
    BY <1>8, SweptIsSubTable DEF Sweep
  <2> QED BY <1>0, <2>1, SubTableStep
<1>9. CASE Tick \/ UNCHANGED vars
  <2>1. SubTable(entries') /\ UNCHANGED <<ops, created>>
    BY <1>9, EntriesAreSubTable DEF Tick, vars, SubTable
  <2>2. now' \in Times
    BY <1>0, <1>9, TableAssumption DEF Tick, vars
  <2> QED BY <2>1, <2>2, SubTableStep
<1> QED BY <1>1, <1>2, <1>3, <1>4, <1>5, <1>6, <1>7, <1>8, <1>9 DEF Next

(* Entries and operations agree after every step: the inductive invariant.   *)
THEOREM TableInvariant == Spec => []TableOK
<1> QED BY InitTable, NextTable, PTL DEF Spec

(* The type invariant of the table, the operations and the clock.            *)
THEOREM TableTypes == Spec => []TypeOK
BY TableInvariant, PTL DEF TableOK

(* Every operation at work is the one its identifier is registered for.      *)
THEOREM WorkingStaysRegistered == Spec => []WorkingIsRegistered
BY TableInvariant, PTL DEF TableOK

(* The same identifier never has two operations at work.                     *)
THEOREM AtMostOneOperation == Spec => []OneOperationPerId
<1>1. TableOK => OneOperationPerId
  BY DEF TableOK, WorkingIsRegistered, OneOperationPerId, Holds
<1> QED BY <1>1, TableInvariant, PTL

(* The pins of an entry are the release functions not called yet.            *)
THEOREM PinsCountHeld == Spec => []PinsAreHeld
<1>1. TableOK => PinsAreHeld
  BY DEF TableOK, EntryMatches, PinsAreHeld
<1> QED BY <1>1, TableInvariant, PTL

(* Nobody is given the answer of an operation with other arguments.          *)
THEOREM AnswersAreOwn == Spec => []NoForeignAnswer
<1>1. Init => NoForeignAnswer
  BY DEF Init, NoForeignAnswer
<1>2. ASSUME TableOK, NoForeignAnswer, [Next]_vars PROVE NoForeignAnswer'
  <2> USE DEF NoForeignAnswer
  <2>0. ops \in [Ops -> Op] /\ created \in 0 .. MaxOps /\ MaxOps \in Nat
    BY <1>2, TableAssumption DEF TableOK, TypeOK
  <2>1. ASSUME NEW i \in Ids \cup {NoId}, NEW d \in Digests, NEW phase, NewOp(i, d, phase)
        PROVE  NoForeignAnswer'
    BY <1>2, <2>0, <2>1 DEF NewOp, Ops
  <2>2. ASSUME NEW i \in Ids, NEW d \in Digests, RunShared(i, d) PROVE NoForeignAnswer'
    <3>1. i \in DOMAIN entries /\ Swept(entries, now)[i] = entries[i] /\ entries[i].digest = d
      BY <2>2, SweptSubset DEF RunShared, SameOperation
    <3>2. ops[entries[i].op].digest = d /\ entries[i].op \in 1 .. created
      BY <1>2, <3>1 DEF TableOK, EntryMatches
    <3> QED BY <1>2, <2>0, <2>2, <3>1, <3>2 DEF RunShared, Ops, Op
  <2>3. ASSUME NEW o \in Ops, NEW sweeps, NEW pins, Begin(o, sweeps, pins) PROVE NoForeignAnswer'
    BY <1>2, <2>0, <2>3 DEF Begin, Ops, Op
  <2>4. ASSUME NEW o \in Ops, Release(o) \/ Settle(o) PROVE NoForeignAnswer'
    <3>1. PICK r : ops' = [ops EXCEPT ![o] = r] /\ r.served = ops[o].served
                                                /\ r.digest = ops[o].digest
      <4>1. CASE Release(o)
        <5> DEFINE r == [ops[o] EXCEPT !.pin = "released", !.quiet = now]
        <5>1. ops' = [ops EXCEPT ![o] = r]
          BY <2>0, <4>1 DEF Release
        <5>2. r.served = ops[o].served /\ r.digest = ops[o].digest
          BY <2>0 DEF Op
        <5> QED BY <5>1, <5>2
      <4>2. CASE Settle(o)
        <5> DEFINE r == [ops[o] EXCEPT !.phase = "settled", !.quiet = now]
        <5>1. ops' = [ops EXCEPT ![o] = r]
          BY <2>0, <4>2 DEF Settle
        <5>2. r.served = ops[o].served /\ r.digest = ops[o].digest
          BY <2>0 DEF Op
        <5> QED BY <5>1, <5>2
      <4> QED BY <2>4, <4>1, <4>2
    <3>2. created' = created
      BY <2>4 DEF Release, Settle
    <3> QED BY <1>2, <2>0, <3>1, <3>2 DEF Ops
  <2>5. ASSUME UNCHANGED <<ops, created>> PROVE NoForeignAnswer'
    BY <1>2, <2>5
  <2> QED BY <1>2, <2>1, <2>2, <2>3, <2>4, <2>5
          DEF Next, RunWithoutId, RunFresh, RunRefused, Sweep, Tick, vars
<1> QED BY <1>1, <1>2, TableInvariant, PTL DEF Spec

(* The table never holds more than its capacity.                             *)
Bounded == IsFiniteSet(DOMAIN entries) /\ Cardinality(DOMAIN entries) <= Capacity

LEMMA SmallerTable ==
  ASSUME Bounded, DOMAIN entries' \subseteq DOMAIN entries
  PROVE  Bounded'
BY FS_Subset, FS_CardinalityType, TableAssumption DEF Bounded

LEMMA BoundedInvariant == Spec => []Bounded
<1>1. Init => Bounded
  BY FS_EmptySet, TableAssumption DEF Init, Bounded
<1>2. ASSUME TableOK, Bounded, [Next]_vars PROVE Bounded'
  <2>1. ASSUME NEW i \in Ids, NEW d \in Digests, RunFresh(i, d) PROVE Bounded'
    <3> DEFINE es == Swept(entries, now)
    <3>1. PICK room \in RoomFor(es) : entries' = Registered(room, i, created + 1, d)
      BY <2>1 DEF RunFresh
    <3>2. DOMAIN es \subseteq DOMAIN entries /\ i \notin DOMAIN es
      BY <2>1, SweptSubset DEF RunFresh
    <3>3. /\ IsFiniteSet(DOMAIN es) /\ Cardinality(DOMAIN es) \in Nat
          /\ Cardinality(DOMAIN es) <= Capacity
      BY <1>2, <3>2, FS_Subset, FS_CardinalityType, TableAssumption DEF Bounded
    <3>4. IsFiniteSet(DOMAIN room) /\ Cardinality(DOMAIN room) < Capacity
          /\ Cardinality(DOMAIN room) \in Nat /\ i \notin DOMAIN room
      <4>1. CASE IsFull(es)
        <5>1. PICK v \in DOMAIN es : room = Only(es, DOMAIN es \ {v})
          BY <4>1 DEF RoomFor, FirstRemovable, Removable
        <5>2. DOMAIN room = DOMAIN es \ {v}
          BY <5>1 DEF Only
        <5>3. /\ IsFiniteSet(DOMAIN es \ {v})
              /\ Cardinality(DOMAIN es \ {v}) = Cardinality(DOMAIN es) - 1
              /\ Cardinality(DOMAIN es \ {v}) \in Nat
          BY <3>3, FS_RemoveElement, FS_CardinalityType
        <5> QED BY <3>2, <3>3, <5>2, <5>3, TableAssumption
      <4>2. CASE ~IsFull(es)
        <5>1. room = es
          BY <4>2 DEF RoomFor
        <5> QED BY <3>2, <3>3, <4>2, <5>1, TableAssumption DEF IsFull
      <4> QED BY <4>1, <4>2
    <3>5. DOMAIN entries' = DOMAIN room \cup {i}
      BY <3>1 DEF Registered
    <3>6. /\ IsFiniteSet(DOMAIN room \cup {i})
          /\ Cardinality(DOMAIN room \cup {i}) = Cardinality(DOMAIN room) + 1
      BY <3>4, FS_AddElement
    <3> QED BY <3>4, <3>5, <3>6, TableAssumption DEF Bounded
  <2>2. ASSUME NEW o \in Ops, NEW sweeps \in BOOLEAN, NEW pins \in BOOLEAN, Begin(o, sweeps, pins)
        PROVE  DOMAIN entries' \subseteq DOMAIN entries
    BY <2>2, SweptSubset DEF Begin, Pinned, UpdatedEntry
  <2>3. ASSUME NEW o \in Ops, Release(o) \/ Settle(o)
        PROVE  DOMAIN entries' \subseteq DOMAIN entries
    BY <2>3 DEF Release, Settle, Released, Completed, UpdatedEntry
  <2>4. ASSUME entries' = entries \/ entries' = Swept(entries, now)
        PROVE  DOMAIN entries' \subseteq DOMAIN entries
    BY <2>4, SweptSubset
  <2> QED BY <1>2, <2>1, <2>2, <2>3, <2>4, SmallerTable
          DEF Next, RunWithoutId, RunShared, RunRefused, Sweep, Tick, vars
<1> QED BY <1>1, <1>2, TableInvariant, PTL DEF Spec

(* The Map never holds more than max_entries, pinned entries included.        *)
THEOREM CapacityHolds == Spec => []WithinCapacity
<1>1. Bounded => WithinCapacity
  BY DEF Bounded, WithinCapacity
<1> QED BY <1>1, BoundedInvariant, PTL

(* What a step keeps: an entry still there stands for the same operation.    *)
Kept(i) == i \in DOMAIN entries' /\ entries'[i].op = entries[i].op

LEMMA ExpiredIsOld ==
  ASSUME TableOK, NEW i \in DOMAIN entries, Expired(entries[i], now)
  PROVE  ~Working(entries[i].op) /\ now - ops[entries[i].op].quiet >= TTL
<1>1. ~Working(entries[i].op)
  BY EvictableIsOver DEF Expired
<1>2. entries[i].completed = ops[entries[i].op].quiet
  BY DEF TableOK, EntryMatches, Expired, Evictable
<1> QED BY <1>1, <1>2 DEF Expired

\* A step on one operation and possibly a sweep keeps every entry that has not expired.
LEMMA OneOpKeeps ==
  ASSUME NEW es, es = entries \/ es = Swept(entries, now), NEW o, NEW e,
         entries' = es \/ (Holds(es, o) /\ entries' = UpdatedEntry(es, o, e) /\ e.op = o),
         NEW i \in DOMAIN entries, ~Kept(i)
  PROVE  Expired(entries[i], now)
<1>1. i \in DOMAIN es => es[i] = entries[i]
  BY SweptSubset
<1>2. i \notin DOMAIN es => Expired(entries[i], now)
  BY SweptSubset
<1>3. CASE entries' = es
  BY <1>1, <1>2, <1>3 DEF Kept
<1>4. CASE Holds(es, o) /\ entries' = UpdatedEntry(es, o, e) /\ e.op = o
  BY <1>1, <1>2, <1>4 DEF Kept, UpdatedEntry, Holds
<1> QED BY <1>3, <1>4

LEMMA StepKeeps ==
  ASSUME TableOK, [Next]_vars, NEW i \in DOMAIN entries, ~Kept(i),
         ~(\E j \in Ids, d \in Digests : RunFresh(j, d))
  PROVE  Expired(entries[i], now)
<1>1. ASSUME NEW o \in Ops, NEW sweeps \in BOOLEAN, NEW pins \in BOOLEAN, Begin(o, sweeps, pins)
      PROVE  Expired(entries[i], now)
  <2> DEFINE es == IF sweeps THEN Swept(entries, now) ELSE entries
             e == [es[ops[o].id] EXCEPT !.pins = @ + 1]
  <2>1. ASSUME Holds(es, o) PROVE e.op = o
    <3>1. es[ops[o].id] \in Entry
      BY <2>1, SweptSubset DEF Holds, TableOK, TypeOK
    <3> QED BY <2>1, <3>1 DEF Entry, Holds
  <2>2. entries' = es \/ (Holds(es, o) /\ entries' = UpdatedEntry(es, o, e))
    BY <1>1 DEF Begin, Pinned
  <2>3. es = entries \/ es = Swept(entries, now)
    OBVIOUS
  <2> HIDE DEF es, e
  <2> QED BY <2>1, <2>2, <2>3, OneOpKeeps
<1>2. ASSUME NEW o \in Ops, Release(o) \/ Settle(o) PROVE Expired(entries[i], now)
  <2>1. ASSUME Holds(entries, o)
        PROVE  /\ ReleasedEntry(entries[ops[o].id], now).op = o
               /\ [entries[ops[o].id] EXCEPT !.completed = now].op = o
    <3>1. entries[ops[o].id] \in Entry
      BY <2>1 DEF Holds, TableOK, TypeOK
    <3> QED BY <2>1, <3>1 DEF Entry, Holds, ReleasedEntry
  <2>2. PICK e : entries' = entries \/ (Holds(entries, o) /\ entries' = UpdatedEntry(entries, o, e) /\ e.op = o)
    BY <1>2, <2>1 DEF Release, Settle, Released, Completed
  <2> QED BY <2>2, OneOpKeeps
<1>3. ASSUME entries' = entries \/ entries' = Swept(entries, now) PROVE Expired(entries[i], now)
  BY <1>3, OneOpKeeps
<1> QED BY <1>1, <1>2, <1>3 DEF Next, RunWithoutId, RunShared, RunRefused, Sweep, Tick, vars

(* An entry lives at least TTL after its operation was last heard of, unless *)
(* a new one needs its place.                                                *)
THEOREM RetentionHolds == Spec => KeptForTTL
<1> DEFINE Floor == \A i \in DOMAIN entries :
             (i \notin DOMAIN entries' \/ entries'[i].op # entries[i].op) =>
               LET o == entries[i].op IN
                 /\ ~Working(o)
                 /\ \/ now - ops[o].quiet >= TTL
                    \/ Cardinality(DOMAIN entries) >= Capacity /\ created' = created + 1
<1>1. ASSUME TableOK, Bounded, [Next]_vars PROVE Floor
  <2> SUFFICES ASSUME NEW i \in DOMAIN entries, ~Kept(i)
               PROVE  /\ ~Working(entries[i].op)
                      /\ \/ now - ops[entries[i].op].quiet >= TTL
                         \/ Cardinality(DOMAIN entries) >= Capacity /\ created' = created + 1
    BY DEF Kept
  <2>1. CASE Expired(entries[i], now)
    BY <1>1, <2>1, ExpiredIsOld
  <2>2. CASE ~Expired(entries[i], now)
    <3>1. PICK j \in Ids, d \in Digests : RunFresh(j, d)
      BY <1>1, <2>2, StepKeeps
    <3> DEFINE es == Swept(entries, now)
    <3>2. i \in DOMAIN es /\ i # j /\ es[i] = entries[i]
      BY <2>2, <3>1, SweptSubset DEF RunFresh
    <3>3. PICK room \in RoomFor(es) : entries' = Registered(room, j, created + 1, d)
      BY <3>1 DEF RunFresh
    <3>4. i \notin DOMAIN room
      <4>1. i \in DOMAIN room => entries'[i] = room[i] /\ i \in DOMAIN entries'
        BY <3>2, <3>3 DEF Registered
      <4> QED BY <3>2, <4>1, RoomIsSubTable DEF Kept, SubTable
    <3>5. IsFull(es) /\ Evictable(es[i])
      BY <3>2, <3>4, RoomSubset, SweptIsSubTable DEF RoomFor, SubTable
    <3>6. Cardinality(DOMAIN entries) >= Capacity
      <4>1. DOMAIN es \subseteq DOMAIN entries
        BY SweptSubset
      <4>2. /\ Cardinality(DOMAIN es) <= Cardinality(DOMAIN entries)
            /\ Cardinality(DOMAIN es) \in Nat /\ Cardinality(DOMAIN entries) \in Nat
        BY <1>1, <4>1, FS_Subset, FS_CardinalityType DEF Bounded
      <4> QED BY <3>5, <4>2, TableAssumption DEF IsFull
    <3> QED BY <1>1, <3>1, <3>2, <3>5, <3>6, EvictableIsOver DEF RunFresh, NewOp
  <2> QED BY <2>1, <2>2
<1>2. Spec => []Bounded
  BY BoundedInvariant
<1> QED BY <1>1, <1>2, TableInvariant, PTL DEF KeptForTTL, Spec

-----------------------------------------------------------------------------
(* The table implements RequestLedger.                                       *)

Remembered == [i \in Ids |-> IF i \in DOMAIN entries THEN entries[i].op ELSE 0]

LEMMA RememberedType == TableOK => Remembered \in [Ids -> Ops \cup {0}]
BY DEF Remembered, TableOK, TypeOK, Entry

\* What is remembered for an identifier changes only to nothing, and only when over.
LEMMA ExpiredMayBeForgotten ==
  ASSUME TableOK, NEW i \in Ids, i \in DOMAIN entries' => i \in DOMAIN entries,
         i \in DOMAIN entries =>
           (Kept(i) \/ (~Working(entries[i].op) /\ i \notin DOMAIN entries'))
  PROVE  Ledger!MayForget(i)
BY DEF Ledger!MayForget, Ledger!NoOp, Kept, TableOK, TypeOK, Entry, Ops

\* The updates of an entry leave its operation alone.
LEMMA UpdatesKeepOp ==
  ASSUME NEW f \in Entry, NEW t
  PROVE  /\ [f EXCEPT !.pins = @ + 1].op = f.op
         /\ [f EXCEPT !.completed = t].op = f.op
         /\ ReleasedEntry(f, t).op = f.op
BY DEF Entry, ReleasedEntry

\* No step but RunFresh brings an identifier into the table.
LEMMA NoNewEntry ==
  ASSUME [Next]_vars, ~(\E j \in Ids, d \in Digests : RunFresh(j, d)), NEW i \in DOMAIN entries'
  PROVE  i \in DOMAIN entries /\ (TableOK => entries'[i].op = entries[i].op)
<1>1. ASSUME NEW o \in Ops, NEW sweeps \in BOOLEAN, NEW pins \in BOOLEAN, Begin(o, sweeps, pins)
      PROVE  i \in DOMAIN entries /\ (TableOK => entries'[i].op = entries[i].op)
  <2> DEFINE es == IF sweeps THEN Swept(entries, now) ELSE entries
  <2>1. \A j \in DOMAIN es : j \in DOMAIN entries /\ es[j] = entries[j]
    BY SweptSubset
  <2>2. DOMAIN entries' = DOMAIN es
    BY <1>1 DEF Begin, Pinned, UpdatedEntry
  <2>3. ASSUME TableOK PROVE entries'[i].op = es[i].op
    <3>1. es[i] \in Entry
      BY <2>1, <2>2, <2>3 DEF TableOK, TypeOK
    <3> HIDE DEF es
    <3>2. entries' = es \/ entries' = UpdatedEntry(es, o, [es[ops[o].id] EXCEPT !.pins = @ + 1])
      BY <1>1 DEF Begin, Pinned, es
    <3>3. [es[i] EXCEPT !.pins = @ + 1].op = es[i].op
      BY <3>1, UpdatesKeepOp
    <3> QED BY <2>2, <3>2, <3>3 DEF UpdatedEntry
  <2> QED BY <2>1, <2>2, <2>3
<1>2. ASSUME NEW o \in Ops, Release(o) \/ Settle(o)
      PROVE  i \in DOMAIN entries /\ (TableOK => entries'[i].op = entries[i].op)
  <2>1. DOMAIN entries' = DOMAIN entries
    BY <1>2 DEF Release, Settle, Released, Completed, UpdatedEntry
  <2>2. ASSUME TableOK PROVE entries'[i].op = entries[i].op
    <3>1. entries[i] \in Entry
      BY <2>1, <2>2 DEF TableOK, TypeOK
    <3>2. /\ [entries[i] EXCEPT !.completed = now].op = entries[i].op
          /\ ReleasedEntry(entries[i], now).op = entries[i].op
      BY <3>1, UpdatesKeepOp
    <3> QED BY <1>2, <2>1, <3>2 DEF Release, Settle, Released, Completed, UpdatedEntry
  <2> QED BY <2>1, <2>2
<1>3. ASSUME entries' = entries \/ entries' = Swept(entries, now)
      PROVE  i \in DOMAIN entries /\ entries'[i].op = entries[i].op
  BY <1>3, SweptSubset
<1> QED BY <1>1, <1>2, <1>3 DEF Next, RunWithoutId, RunShared, RunRefused, Sweep, Tick, vars

\* So every other step lets the ledger forget, at most.
LEMMA OthersForget ==
  ASSUME TableOK, [Next]_vars, ~(\E j \in Ids, d \in Digests : RunFresh(j, d)), NEW i \in Ids
  PROVE  Ledger!MayForget(i)
<1>1. i \in DOMAIN entries' => i \in DOMAIN entries /\ entries'[i].op = entries[i].op
  BY NoNewEntry
<1>2. i \in DOMAIN entries /\ ~Kept(i) => ~Working(entries[i].op) /\ i \notin DOMAIN entries'
  BY <1>1, StepKeeps, ExpiredIsOld DEF Kept
<1> QED BY <1>1, <1>2, ExpiredMayBeForgotten

StartedOps == {o \in 1 .. created : ops[o].id # NoId}
AtWork == {o \in Ops : Working(o)}

LEMMA FreshStarts ==
  ASSUME TableOK, NEW i \in Ids, NEW d \in Digests, RunFresh(i, d), NEW n, n = created + 1
  PROVE  Ledger!Start(i, n)
<1>a. TableOK'
  BY RunFreshStep
<1>b. created' = n /\ created < MaxOps
  BY DEF RunFresh, NewOp
<1>c. created \in Nat
  BY TableAssumption DEF TableOK, TypeOK
<1>0. n \in Ops /\ created \in Nat /\ created' = n /\ i # NoId /\ TableOK'
  BY <1>a, <1>b, <1>c, TableAssumption DEF Ops
<1>1. /\ ops'[n] = [id |-> i, digest |-> d, phase |-> "queued", pin |-> "none",
                     served |-> {d}, quiet |-> Null]
      /\ \A o \in Ops \ {n} : ops'[o] = ops[o]
  BY <1>0 DEF RunFresh, NewOp, TableOK, TypeOK
<1>2. PICK room \in RoomFor(Swept(entries, now)) : entries' = Registered(room, i, n, d)
  BY DEF RunFresh
<1>3. SubTable(room)
  BY RoomIsSubTable
<1>4. n \notin StartedOps
  BY <1>0 DEF StartedOps
<1>5. StartedOps' = StartedOps \cup {n}
  <2>1. 1 .. created' = (1 .. created) \cup {n} /\ n \notin 1 .. created
    BY <1>0
  <2>2. 1 .. created \subseteq Ops
    BY <1>b, <1>c, TableAssumption DEF Ops
  <2>3. ops'[n].id # NoId
    BY <1>0, <1>1
  <2> QED BY <1>1, <2>1, <2>2, <2>3 DEF StartedOps
<1>6. AtWork' = AtWork \cup {n}
  <2>1. ops'[n].id = i /\ ops'[n].phase = "queued"
    BY <1>1
  <2>2. Working(n)'
    BY <1>0, <2>1 DEF Working
  <2>3. \A o \in Ops \ {n} : Working(o)' <=> Working(o)
    BY <1>1 DEF Working
  <2> QED BY <1>0, <2>2, <2>3 DEF AtWork
<1>7. Remembered' \in [Ids -> Ops \cup {0}]
  <2>1. \A j \in DOMAIN entries' : entries'[j] \in Entry
    BY <1>0 DEF TableOK, TypeOK
  <2>2. \A j \in DOMAIN entries' : entries'[j].op \in Ops
    BY <2>1 DEF Entry
  <2> QED BY <2>2 DEF Remembered
<1>8. Remembered'[i] = n
  <2>1. i \in DOMAIN entries' /\ entries'[i] = [digest |-> d, op |-> n, completed |-> Null, pins |-> 0]
    BY <1>2 DEF Registered
  <2>2. entries'[i].op = n
    BY <2>1
  <2> QED BY <2>1, <2>2 DEF Remembered
<1>9. Remembered[i] \notin AtWork
  <2>1. i \in DOMAIN entries => Expired(entries[i], now)
    BY SweptSubset DEF RunFresh
  <2> QED BY <2>1, ExpiredIsOld DEF Remembered, AtWork, Ops
<1>10. ASSUME NEW j \in Ids \ {i} PROVE Ledger!MayForget(j)
  <2>1. j \in DOMAIN entries' => j \in DOMAIN room /\ entries'[j] = entries[j]
    BY <1>2, <1>3 DEF Registered, SubTable
  <2>2. j \in DOMAIN entries /\ ~Kept(j) => ~Working(entries[j].op) /\ j \notin DOMAIN entries'
    BY <1>2, <1>3, <2>1, EvictableIsOver DEF Kept, Registered, SubTable
  <2> QED BY <1>3, <2>1, <2>2, ExpiredMayBeForgotten DEF SubTable
<1> QED BY <1>4, <1>5, <1>6, <1>7, <1>8, <1>9, <1>10
        DEF Ledger!Start, Ledger!NoOp, Remembered, StartedOps, AtWork

(* Spec implements the ledger: an unregistered identifier starts an          *)
(* operation, an operation ends by its settling or its release, and all else *)
(* can only forget.                                                          *)
THEOREM ImplementsLedger == Spec => LedgerSpec
<1>1. Init => Ledger!LedgerInit
  <2> SUFFICES ASSUME Init PROVE Ledger!LedgerInit
    OBVIOUS
  <2>1. Remembered = [i \in Ids |-> 0] /\ StartedOps = {}
    BY DEF Init, Remembered, StartedOps
  <2>2. AtWork = {}
    BY DEF AtWork, Init, Working, Unborn
  <2> QED BY <2>1, <2>2 DEF Ledger!LedgerInit, Ledger!NoOp, Remembered, StartedOps, AtWork
<1>2. ASSUME TableOK, [Next]_vars PROVE [Ledger!LedgerNext]_(Ledger!ledgerVars)
  <2>1. CASE \E i \in Ids, d \in Digests : RunFresh(i, d)
    <3>1. PICK i \in Ids, d \in Digests : RunFresh(i, d)
      BY <2>1
    <3>2. created + 1 \in Ops
      BY <1>2, <3>1, TableAssumption DEF TableOK, TypeOK, RunFresh, NewOp, Ops
    <3>3. PICK n \in Ops : n = created + 1
      BY <3>2
    <3>4. Ledger!Start(i, n)
      BY <1>2, <3>1, <3>3, FreshStarts
    <3> QED BY <3>4 DEF Ledger!LedgerNext
  <2>2. CASE ~(\E i \in Ids, d \in Digests : RunFresh(i, d))
    <3>0. \A i \in Ids : Ledger!MayForget(i)
      BY <1>2, <2>2, OthersForget
    <3>1. Remembered' \in [Ids -> Ops \cup {0}]
      BY <1>2, NextTable, RememberedType DEF Remembered, TableOK, TypeOK, Entry
    <3>2. ASSUME StartedOps' = StartedOps, AtWork' = AtWork PROVE Ledger!LedgerNext
      BY <3>0, <3>1, <3>2 DEF Ledger!LedgerNext, Ledger!Forget, Ledger!NoOp,
                              Remembered, StartedOps, AtWork
    <3>3. ASSUME NEW d \in Digests, NEW sweeps, RunWithoutId(d, sweeps) PROVE Ledger!LedgerNext
      <4>1. StartedOps' = StartedOps /\ AtWork' = AtWork
        BY <1>2, <3>3, TableAssumption
           DEF RunWithoutId, NewOp, StartedOps, AtWork, Working, TableOK, TypeOK, Ops, OpWellFormed
      <4> QED BY <3>2, <4>1
    <3>4. ASSUME NEW i \in Ids, NEW d \in Digests, RunShared(i, d) PROVE Ledger!LedgerNext
      <4>1. \A o \in Ops : /\ ops'[o].id = ops[o].id /\ ops'[o].phase = ops[o].phase
                           /\ ops'[o].pin = ops[o].pin
        BY <1>2, <3>4 DEF RunShared, TableOK, TypeOK, Op
      <4>2. StartedOps' = StartedOps /\ AtWork' = AtWork
        BY <1>2, <3>4, <4>1, TableAssumption
           DEF RunShared, StartedOps, AtWork, Working, TableOK, TypeOK, Ops
      <4> QED BY <3>2, <4>2
    <3>5. ASSUME NEW o \in Ops, NEW sweeps, NEW pins, Begin(o, sweeps, pins) PROVE Ledger!LedgerNext
      <4>1. \A p \in Ops \ {o} : ops'[p] = ops[p]
        BY <1>2, <3>5 DEF Begin, TableOK, TypeOK
      <4>2. ops'[o].id = ops[o].id /\ ops'[o].phase = "running" /\ ops[o].phase = "queued"
        BY <1>2, <3>5 DEF Begin, TableOK, TypeOK, Op
      <4>3. StartedOps' = StartedOps /\ AtWork' = AtWork
        BY <1>2, <3>5, <4>1, <4>2, TableAssumption
           DEF Begin, StartedOps, AtWork, Working, TableOK, TypeOK, Ops
      <4> QED BY <3>2, <4>3
    <3>6. ASSUME NEW o \in Ops, Release(o) \/ Settle(o)
          PROVE  Ledger!LedgerNext \/ UNCHANGED Ledger!ledgerVars
      <4>1. \A p \in Ops \ {o} : ops'[p] = ops[p]
        BY <1>2, <3>6 DEF Release, Settle, TableOK, TypeOK
      <4>2. ops'[o].id = ops[o].id /\ created' = created
        BY <1>2, <3>6 DEF Release, Settle, TableOK, TypeOK, Op
      <4>3. StartedOps' = StartedOps
        BY <1>2, <4>1, <4>2, TableAssumption DEF StartedOps, TableOK, TypeOK, Ops
      <4>4. Working(o)' => Working(o)
        BY <1>2, <3>6 DEF Release, FirstRelease, Settle, Working, TableOK, TypeOK, Op
      <4>5. Remembered' = Remembered
        <5>1. DOMAIN entries' = DOMAIN entries
          BY <3>6 DEF Release, Settle, Released, Completed, UpdatedEntry
        <5>2. \A i \in DOMAIN entries : entries'[i].op = entries[i].op
          BY <1>2, <2>2, <5>1, NoNewEntry
        <5> QED BY <5>1, <5>2 DEF Remembered
      <4>6. CASE Working(o) /\ ~Working(o)'
        <5>1. AtWork' = AtWork \ {o} /\ o \in AtWork
          BY <4>1, <4>6 DEF AtWork, Working
        <5> QED BY <4>3, <4>5, <5>1 DEF Ledger!LedgerNext, Ledger!Finish, Remembered, StartedOps, AtWork
      <4>7. CASE Working(o) <=> Working(o)'
        <5>1. AtWork' = AtWork
          BY <4>1, <4>7 DEF AtWork, Working
        <5> QED BY <3>2, <4>3, <5>1
      <4> QED BY <4>4, <4>6, <4>7
    <3>7. ASSUME UNCHANGED <<ops, created>> PROVE Ledger!LedgerNext
      <4>1. StartedOps' = StartedOps /\ AtWork' = AtWork
        BY <3>7 DEF StartedOps, AtWork, Working
      <4> QED BY <3>2, <4>1
    <3> QED BY <1>2, <2>2, <3>3, <3>4, <3>5, <3>6, <3>7
            DEF Next, RunRefused, Sweep, Tick, vars
  <2> QED BY <2>1, <2>2
<1> QED BY <1>1, <1>2, TableInvariant, PTL DEF Spec, LedgerSpec, Ledger!LedgerSpec

-----------------------------------------------------------------------------
(* Exec, the ExecManager of the service, and M, the one whose theorems are   *)
(* known, are two instances with the same parameters; up to SameNext, each      *)
(* definition of the one is shown to be that of the other.                      *)

LEMMA SameInit == Exec!Init <=> M!Init
BY DEF Exec!Init, M!Init, Exec!EmptyLog, M!EmptyLog, Exec!Unborn, M!Unborn, Exec!Null, M!Null, Exec!Sessions, M!Sessions

LEMMA SameSize ==
  ASSUME NEW S, NEW lg PROVE Exec!SizeOf(S, lg) = M!SizeOf(S, lg)
BY DEF Exec!Size, M!Size, Exec!SizeOf, M!SizeOf, Exec!MapThenSumSet, M!MapThenSumSet,
      Exec!MapThenFoldSet, M!MapThenFoldSet

LEMMA SameSwept == Exec!Swept = M!Swept
<1> DEFINE ended == {s \in records : Exec!Evictable(sess[s])}
<1>1. /\ \A s, t : Exec!Older(s, t) <=> M!Older(s, t)
      /\ \A s : Exec!Stale(s) <=> M!Stale(s)
  BY DEF Exec!Evictable, M!Evictable, Exec!Terminal, M!Terminal, Exec!TerminalStates, M!TerminalStates,
         Exec!Older, M!Older, Exec!Stale, M!Stale
<1>2. ended = {s \in records : M!Evictable(sess[s])}
  BY DEF Exec!Evictable, M!Evictable, Exec!Terminal, M!Terminal, Exec!TerminalStates, M!TerminalStates
<1> DEFINE P(s) == Exec!Stale(s) \/ Cardinality({t \in ended : Exec!Older(t, s)}) <= Cardinality(ended) - MaxEnded
           Q(s) == M!Stale(s) \/ Cardinality({t \in ended : M!Older(t, s)}) <= Cardinality(ended) - MaxEnded
<1>3. Exec!Swept = {s \in ended : P(s)}
  BY SameCardinality DEF Exec!Swept
<1>4. M!Swept = {s \in ended : Q(s)}
  BY <1>2, SameCardinality DEF M!Swept
<1>5. ASSUME NEW s PROVE P(s) <=> Q(s)
  <2>1. {t \in ended : Exec!Older(t, s)} = {t \in ended : M!Older(t, s)}
    BY <1>1
  <2> QED BY <1>1, <2>1
<1> HIDE DEF P, Q, ended
<1> QED BY <1>3, <1>4, <1>5

LEMMA SameActive ==
  ASSUME NEW R PROVE Exec!Active(R) = M!Active(R)
BY DEF Exec!Active, M!Active, Exec!CountsAsActive, M!CountsAsActive, Exec!Terminal, M!Terminal,
      Exec!TerminalStates, M!TerminalStates

LEMMA SameSweep ==
  Exec!Kept = M!Kept /\ Exec!CachedAfterSweep = M!CachedAfterSweep
BY SameSize, SameSwept DEF Exec!CachedAfterSweep, M!CachedAfterSweep, Exec!Kept, M!Kept

LEMMA SameReserve ==
  ASSUME NEW s PROVE Exec!Reserve(s) <=> M!Reserve(s)
BY SameSweep, SameActive, SameCardinality DEF Exec!EmptyLog, M!EmptyLog, Exec!Null, M!Null, Exec!Reserve, M!Reserve, Exec!Reserved,
      M!Reserved, Exec!Sessions, M!Sessions, Exec!Unborn, M!Unborn, Exec!Update, M!Update,
      Exec!shutdownVars, M!shutdownVars

LEMMA SameStartFails ==
  ASSUME NEW s PROVE Exec!StartFails(s) <=> M!StartFails(s)
BY DEF Exec!Ended, M!Ended, Exec!Null, M!Null, Exec!ReadPosition, M!ReadPosition, Exec!Ready,
      M!Ready, Exec!StartFails, M!StartFails, Exec!Terminal, M!Terminal, Exec!TerminalStates,
      M!TerminalStates, Exec!Update, M!Update, Exec!Woken, M!Woken, Exec!shutdownVars,
      M!shutdownVars

LEMMA SameExecReply ==
  ASSUME NEW s PROVE Exec!ExecReply(s) <=> M!ExecReply(s)
BY DEF Exec!ExecReply, M!ExecReply, Exec!Larger, M!Larger, Exec!ReadUpTo, M!ReadUpTo,
      Exec!Resumable, M!Resumable, Exec!Smaller, M!Smaller, Exec!Update, M!Update,
      Exec!shutdownVars, M!shutdownVars

LEMMA SameTimeoutFires ==
  ASSUME NEW s PROVE Exec!TimeoutFires(s) <=> M!TimeoutFires(s)
BY DEF Exec!BeginTermination, M!BeginTermination, Exec!SignalUnlessEnded, M!SignalUnlessEnded,
      Exec!Terminal, M!Terminal, Exec!TerminalStates, M!TerminalStates, Exec!TimeoutFires,
      M!TimeoutFires, Exec!Update, M!Update, Exec!shutdownVars, M!shutdownVars

LEMMA SameEscalationFires ==
  ASSUME NEW s PROVE Exec!EscalationFires(s) <=> M!EscalationFires(s)
BY DEF Exec!EscalationFires, M!EscalationFires, Exec!SignalUnlessEnded, M!SignalUnlessEnded,
      Exec!Terminal, M!Terminal, Exec!TerminalStates, M!TerminalStates, Exec!Update, M!Update,
      Exec!shutdownVars, M!shutdownVars

LEMMA SameWriteReply ==
  ASSUME NEW s PROVE Exec!WriteReply(s) <=> M!WriteReply(s)
BY DEF Exec!Larger, M!Larger, Exec!Null, M!Null, Exec!ReadUpTo, M!ReadUpTo, Exec!Smaller,
      M!Smaller, Exec!Update, M!Update, Exec!WriteReply, M!WriteReply, Exec!shutdownVars,
      M!shutdownVars

LEMMA SameSpawn ==
  ASSUME NEW s, NEW timed PROVE Exec!Spawn(s, timed) <=> M!Spawn(s, timed)
BY DEF Exec!BeginTermination, M!BeginTermination, Exec!MustDieAtOnce, M!MustDieAtOnce, Exec!Null,
      M!Null, Exec!ReadPosition, M!ReadPosition, Exec!Ready, M!Ready, Exec!SignalUnlessEnded,
      M!SignalUnlessEnded, Exec!Spawn, M!Spawn, Exec!Terminal, M!Terminal, Exec!TerminalStates,
      M!TerminalStates, Exec!Update, M!Update, Exec!Woken, M!Woken, Exec!shutdownVars,
      M!shutdownVars

LEMMA SameOutput ==
  ASSUME NEW s, NEW n PROVE Exec!Output(s, n) <=> M!Output(s, n)
BY DEF Exec!Appended, M!Appended, Exec!Enforced, M!Enforced, Exec!Larger, M!Larger, Exec!Null,
      M!Null, Exec!Output, M!Output, Exec!Quieter, M!Quieter, Exec!ReadPosition, M!ReadPosition,
      Exec!Ready, M!Ready, Exec!Sessions, M!Sessions, Exec!Size, M!Size, Exec!SizeOf, M!SizeOf,
      Exec!Smaller, M!Smaller, Exec!Terminal, M!Terminal, Exec!TerminalStates, M!TerminalStates,
      Exec!TrimmedBy, M!TrimmedBy, Exec!Update, M!Update, Exec!Woken, M!Woken, Exec!shutdownVars,
      M!shutdownVars, Exec!MapThenSumSet, M!MapThenSumSet, Exec!MapThenFoldSet, M!MapThenFoldSet

LEMMA SameClosed ==
  ASSUME NEW s, NEW faulty PROVE Exec!Closed(s, faulty) <=> M!Closed(s, faulty)
BY DEF Exec!Closed, M!Closed, Exec!Ended, M!Ended, Exec!FinalState, M!FinalState, Exec!Null,
      M!Null, Exec!ReadPosition, M!ReadPosition, Exec!Ready, M!Ready, Exec!Terminal, M!Terminal,
      Exec!TerminalStates, M!TerminalStates, Exec!Update, M!Update, Exec!Woken, M!Woken,
      Exec!shutdownVars, M!shutdownVars

LEMMA SameTerminate ==
  ASSUME NEW s, NEW force PROVE Exec!Terminate(s, force) <=> M!Terminate(s, force)
BY SameSweep DEF Exec!BeginTermination, M!BeginTermination, Exec!SignalUnlessEnded, M!SignalUnlessEnded,
      Exec!SweepNow, M!SweepNow, Exec!Terminal, M!Terminal, Exec!TerminalStates, M!TerminalStates,
      Exec!Terminate, M!Terminate, Exec!Update, M!Update, Exec!shutdownVars, M!shutdownVars

LEMMA SameWriteBegins ==
  ASSUME NEW s, NEW at, NEW input PROVE Exec!WriteBegins(s, at, input) <=> M!WriteBegins(s, at, input)
BY SameSweep DEF Exec!FreeForWriting, M!FreeForWriting, Exec!Null, M!Null, Exec!ReadPosition, M!ReadPosition,
      Exec!Ready, M!Ready, Exec!SweepNow, M!SweepNow, Exec!Terminal, M!Terminal,
      Exec!TerminalStates, M!TerminalStates, Exec!Update, M!Update, Exec!Woken, M!Woken,
      Exec!WriteBegins, M!WriteBegins, Exec!shutdownVars, M!shutdownVars

LEMMA SameSessionStep ==
  ASSUME NEW s PROVE Exec!SessionStep(s) <=> M!SessionStep(s)
BY SameReserve, SameStartFails, SameSpawn, SameExecReply, SameOutput, SameClosed, SameTimeoutFires, SameEscalationFires, SameTerminate, SameWriteBegins, SameWriteReply DEF Exec!Null, M!Null, Exec!SessionStep, M!SessionStep

LEMMA SameRest ==
  /\ Exec!Sweep <=> M!Sweep
  /\ Exec!Close <=> M!Close
  /\ Exec!CloseDrained <=> M!CloseDrained
  /\ Exec!CloseReturns <=> M!CloseReturns
  /\ Exec!Tick <=> M!Tick
BY SameSweep DEF Exec!Active, M!Active, Exec!BeginTermination, M!BeginTermination, Exec!Close, M!Close,
      Exec!CloseDrained, M!CloseDrained, Exec!CloseReturns, M!CloseReturns, Exec!CountsAsActive,
      M!CountsAsActive, Exec!DrainOver, M!DrainOver, Exec!Sessions, M!Sessions,
      Exec!SignalUnlessEnded, M!SignalUnlessEnded, Exec!Sweep, M!Sweep, Exec!SweepNow, M!SweepNow,
      Exec!Terminal, M!Terminal, Exec!TerminalStates, M!TerminalStates, Exec!Tick, M!Tick,
      Exec!shutdownVars, M!shutdownVars

LEMMA SameNext == (Exec!Next <=> M!Next) /\ Exec!vars = M!vars
BY SameSessionStep, SameRest DEF Exec!Next, M!Next, Exec!Sessions, M!Sessions, Exec!vars, M!vars

-----------------------------------------------------------------------------
(* The service is a manager and a table at once: every step of it is a step   *)
(* of each of them, or leaves it as it is.                                    *)
LEMMA StepOfManager == [ServiceNext]_serviceVars => [M!Next]_(M!vars)
<1>1. UNCHANGED <<now, managerVars>> => UNCHANGED Exec!vars
  BY DEF Exec!vars, managerVars
<1>2. ASSUME NEW i \in Ids, NEW d \in Digests, Call(i, d) PROVE UNCHANGED Exec!vars
  BY <1>1, <1>2 DEF Call, RunShared, RunRefused, RunFresh
<1>3. ASSUME NEW o \in Ops, NEW s \in Sessions, Start(o, s) PROVE Exec!Next
  BY <1>3 DEF Start, Exec!Next, Exec!SessionStep, Sessions, Exec!Sessions
<1>4. ASSUME NEW o \in Ops, Refuse(o) PROVE Exec!Next \/ UNCHANGED Exec!vars
  BY <1>1, <1>4 DEF Refuse, Exec!Next
<1>5. ASSUME NEW o \in Ops, RefusalSettles(o) PROVE UNCHANGED Exec!vars
  BY <1>1, <1>5 DEF RefusalSettles, Settle
<1>6. ASSUME NEW d \in Digests, NEW s \in Sessions, StartWithoutId(d, s) PROVE Exec!Next
  BY <1>6 DEF StartWithoutId, Exec!Next, Exec!SessionStep, Sessions, Exec!Sessions
<1>7. ASSUME NEW s \in Sessions, End(s) \/ Answer(s) \/ SweepingStep(s) \/ OtherStep(s) PROVE Exec!SessionStep(s)
  BY <1>7 DEF End, Answer, SweepingStep, OtherStep, Exec!SessionStep, Exec!Null
<1>8. ASSUME SweepBoth \/ Shutdown \/ TickBoth PROVE Exec!Next
  BY <1>8 DEF SweepBoth, Shutdown, TickBoth, Exec!Next
<1>9. UNCHANGED serviceVars => UNCHANGED Exec!vars
  BY <1>1 DEF serviceVars
<1>10. [ServiceNext]_serviceVars => [Exec!Next]_(Exec!vars)
  BY <1>2, <1>3, <1>4, <1>5, <1>6, <1>7, <1>8, <1>9 DEF ServiceNext, Exec!Next, Sessions, Exec!Sessions
<1> QED BY <1>10, SameNext DEF Exec!vars, M!vars

(* What the table knows of the operation that started session s, and when it  *)
(* last heard of it.                                                          *)
Book(s) == LET o == origin[s] IN
  /\ o \in 1 .. created
  /\ ops[o].phase = IF M!Pending(sess[s]) THEN "running" ELSE "settled"
  /\ ops[o].pin = IF ops[o].id = NoId THEN "none" ELSE IF M!Terminal(sess[s]) THEN "released" ELSE "held"
Dated(s) == M!Terminal(sess[s]) => /\ sess[s].ended <= now
                                   /\ ops[origin[s]].id # NoId => sess[s].ended <= ops[origin[s]].quiet

(* The invariant of the two together: every session has an operation of its   *)
(* own, and their books agree.                                                *)
Books == /\ origin \in [Sessions -> Nat]
         /\ \A s \in 1 .. seq : Book(s) /\ Dated(s)
         /\ \A s, t \in 1 .. seq : origin[s] = origin[t] => s = t
ServiceOK == M!Lifecycle /\ TableOK /\ Books

LEMMA StartedSessions ==
  ASSUME M!Lifecycle, NEW s \in Sessions
  PROVE  /\ s \in 1 .. seq <=> sess[s].state # "unborn"
         /\ M!Pending(sess[s]) \/ M!Terminal(sess[s]) \/ sess[s].handle \/ sess[s].call = "opening" => s \in 1 .. seq
         /\ s \in M!Sessions /\ sess[s] \in M!Session /\ seq \in Nat /\ seq <= MaxSessions
<1>1. s \in M!Sessions /\ M!SessionOK(s) /\ M!RecordOK(sess[s])
  BY DEF M!Lifecycle, M!SessionOK, Sessions, M!Sessions
<1>2. sess[s].state = "unborn" => sess[s] = M!Unborn
  BY <1>1 DEF M!RecordOK
<1>3. /\ M!Unborn.call = "none" /\ ~M!Unborn.handle /\ M!Unborn.state = "unborn"
  BY DEF M!Unborn
<1>4. MaxSessions \in Nat /\ seq \in 0 .. MaxSessions
  BY ServiceAssumption DEF M!Lifecycle, M!LifecycleTypeOK, Exec!ExecAssumption
<1> QED BY <1>1, <1>2, <1>3, <1>4 DEF M!SessionOK, M!RecordOK, M!Pending, M!Terminal, M!TerminalStates

LEMMA StepOfTable ==
  ASSUME ServiceOK, [ServiceNext]_serviceVars
  PROVE  [Next]_vars
<1> USE DEF Next, Ops
<1>1. UNCHANGED <<now, tableVars>> => UNCHANGED vars
  BY DEF tableVars, vars
<1>2. ASSUME NEW i \in Ids, NEW d \in Digests, Call(i, d) PROVE Next
  BY <1>2 DEF Call
<1>3. ASSUME NEW o \in Ops, NEW s \in Sessions, Start(o, s) PROVE Next
  BY <1>3 DEF Start
<1>4. ASSUME NEW o \in Ops, Refuse(o) \/ RefusalSettles(o) PROVE Next
  <2>1. accepting \in BOOLEAN
    BY DEF ServiceOK, M!Lifecycle, M!LifecycleTypeOK
  <2> QED BY <1>4, <2>1 DEF Refuse, RefusalSettles
<1>5. ASSUME NEW d \in Digests, NEW s \in Sessions, StartWithoutId(d, s) PROVE Next
  BY <1>5 DEF StartWithoutId
<1>6. ASSUME NEW s \in 1 .. seq PROVE origin[s] \in Ops
  BY TableAssumption DEF ServiceOK, Books, Book, TableOK, TypeOK
<1>7. ASSUME NEW s \in Sessions, End(s) PROVE Next \/ UNCHANGED vars
  <2>1. s \in 1 .. seq
    BY <1>7, StartedSessions DEF End, Exec!StartFails, Exec!Closed, ServiceOK
  <2>2. UNCHANGED now
    BY <1>7 DEF End, Exec!StartFails, Exec!Closed
  <2> QED BY <1>1, <1>6, <1>7, <2>1, <2>2 DEF End, ReleaseFor
<1>8. ASSUME NEW s \in Sessions, Answer(s) PROVE Next
  <2>1. s \in 1 .. seq
    BY <1>8, StartedSessions DEF Answer, Exec!ExecReply, Exec!Resumable, M!Pending, ServiceOK
  <2> QED BY <1>6, <1>8, <2>1 DEF Answer
<1>9. ASSUME NEW s \in Sessions, SweepingStep(s) \/ OtherStep(s) PROVE Next \/ UNCHANGED vars
  <2>1. OtherStep(s) => UNCHANGED <<now, tableVars>>
    BY DEF OtherStep, Exec!Spawn, Exec!Output, Exec!TimeoutFires, Exec!EscalationFires, Exec!WriteReply
  <2> QED BY <1>1, <1>9, <2>1 DEF SweepingStep
<1>10. ASSUME Shutdown PROVE UNCHANGED vars
  <2>1. UNCHANGED <<now, tableVars>>
    BY <1>10 DEF Shutdown, Exec!Close, Exec!CloseDrained, Exec!CloseReturns
  <2> QED BY <1>1, <2>1
<1>11. SweepBoth \/ TickBoth => Next
  BY DEF SweepBoth, TickBoth
<1>12. UNCHANGED serviceVars => UNCHANGED vars
  BY <1>1 DEF serviceVars
<1> QED BY <1>2, <1>3, <1>4, <1>5, <1>7, <1>8, <1>9, <1>10, <1>11, <1>12 DEF ServiceNext

-----------------------------------------------------------------------------
(* What each operation of the table does to the operations it knows.         *)
SameOp(o) == /\ ops'[o].id = ops[o].id /\ ops'[o].phase = ops[o].phase
             /\ ops'[o].pin = ops[o].pin /\ ops'[o].quiet = ops[o].quiet

LEMMA CallKeepsOps ==
  ASSUME TableOK, NEW i \in Ids, NEW d \in Digests, Call(i, d), NEW o \in 1 .. created
  PROVE  SameOp(o) /\ created' \in {created, created + 1}
<1>1. /\ o \in Ops /\ ops \in [Ops -> Op]
      /\ created \in Nat /\ o \in Nat /\ o # created + 1 /\ 1 .. created \subseteq Ops
  BY TableAssumption DEF TableOK, TypeOK, Ops
<1>2. CASE RunShared(i, d)
  BY <1>1, <1>2 DEF RunShared, SameOp, Op
<1>3. CASE RunRefused(i, d)
  BY <1>3 DEF RunRefused, SameOp
<1>4. CASE RunFresh(i, d)
  BY <1>1, <1>4 DEF RunFresh, NewOp, SameOp
<1> QED BY <1>2, <1>3, <1>4 DEF Call

LEMMA BeginOp ==
  ASSUME TableOK, NEW o \in Ops, NEW sweeps \in BOOLEAN, NEW pins \in BOOLEAN, Begin(o, sweeps, pins)
  PROVE  /\ ops[o].phase = "queued" /\ o \in 1 .. created /\ created' = created /\ ops[o].id # NoId
         /\ ops'[o].id = ops[o].id /\ ops'[o].phase = "running"
         /\ ops'[o].pin = IF pins THEN "held" ELSE ops[o].pin
         /\ \A p \in 1 .. created : p # o => SameOp(p)
<1>1. /\ o \in Ops /\ ops \in [Ops -> Op] /\ 1 .. created \subseteq Ops
      /\ OpWellFormed(o)
  BY TableAssumption DEF TableOK, TypeOK, Ops
<1>2. /\ ops[o].phase = "queued" /\ o \in 1 .. created /\ created' = created
      /\ ops' = [ops EXCEPT ![o].phase = "running", ![o].pin = IF pins THEN "held" ELSE @]
  BY DEF Begin
<1>3. ops[o] \in Op /\ ops[o].id # NoId
  BY <1>1, <1>2 DEF OpWellFormed
<1> QED BY <1>1, <1>2, <1>3 DEF Op, SameOp

LEMMA ReleaseOp ==
  ASSUME TableOK, NEW o \in Ops, Release(o)
  PROVE  /\ created' = created /\ ops[o].pin = "held"
         /\ ops'[o].id = ops[o].id /\ ops'[o].phase = ops[o].phase
         /\ ops'[o].pin = "released" /\ ops'[o].quiet = now
         /\ \A p \in 1 .. created : p # o => SameOp(p)
<1>1. /\ o \in Ops /\ ops \in [Ops -> Op] /\ 1 .. created \subseteq Ops
  BY TableAssumption DEF TableOK, TypeOK, Ops
<1>2. /\ ops[o].pin = "held" /\ created' = created
      /\ ops' = [ops EXCEPT ![o].pin = "released", ![o].quiet = now]
  BY DEF Release, FirstRelease
<1>3. ops[o] \in Op
  BY <1>1
<1> QED BY <1>1, <1>2, <1>3 DEF Op, SameOp

LEMMA SettleOp ==
  ASSUME TableOK, NEW o \in Ops, Settle(o)
  PROVE  /\ created' = created /\ ops[o].phase = "running"
         /\ ops'[o].id = ops[o].id /\ ops'[o].pin = ops[o].pin
         /\ ops'[o].phase = "settled" /\ ops'[o].quiet = now
         /\ \A p \in 1 .. created : p # o => SameOp(p)
<1>1. /\ o \in Ops /\ ops \in [Ops -> Op] /\ 1 .. created \subseteq Ops
  BY TableAssumption DEF TableOK, TypeOK, Ops
<1>2. /\ ops[o].phase = "running" /\ created' = created
      /\ ops' = [ops EXCEPT ![o].phase = "settled", ![o].quiet = now]
  BY DEF Settle
<1>3. ops[o] \in Op
  BY <1>1
<1> QED BY <1>1, <1>2, <1>3 DEF Op, SameOp

LEMMA NewOpAdded ==
  ASSUME TableOK, NEW d \in Digests, RunWithoutId(d, TRUE)
  PROVE  /\ created' = created + 1 /\ created \in Nat
         /\ ops'[created + 1].id = NoId /\ ops'[created + 1].phase = "running"
         /\ ops'[created + 1].pin = "none"
         /\ \A p \in 1 .. created : SameOp(p)
<1>1. /\ ops \in [Ops -> Op] /\ 1 .. created \subseteq Ops
      /\ created \in Nat /\ \A p \in 1 .. created : p # created + 1
  BY TableAssumption DEF TableOK, TypeOK, Ops
<1>2. /\ created < MaxOps /\ created' = created + 1
      /\ ops' = [ops EXCEPT ![created + 1] = [id |-> NoId, digest |-> d, phase |-> "running", pin |-> "none",
                                              served |-> {d}, quiet |-> Null]]
  BY DEF RunWithoutId, NewOp
<1>3. created + 1 \in Ops
  BY <1>1, <1>2, TableAssumption DEF Ops
<1> QED BY <1>1, <1>2, <1>3 DEF SameOp

-----------------------------------------------------------------------------
(* The books are kept.  A session of which nothing is seen keeps its page, as *)
(* long as nothing happens to its operation.                                  *)
LEMMA BookStands ==
  ASSUME ServiceOK, [M!Next]_(M!vars), created' \in {created, created + 1},
         NEW s \in 1 .. seq, M!Alike(sess[s], sess'[s]), origin'[s] = origin[s], SameOp(origin[s])
  PROVE  Book(s)' /\ Dated(s)'
<1>1. Book(s) /\ Dated(s) /\ created \in Nat /\ s \in M!Sessions /\ now \in Nat
  <2>1. Book(s) /\ Dated(s) /\ created \in Nat /\ now \in Nat
    BY TableAssumption DEF ServiceOK, Books, TableOK, TypeOK
  <2>2. MaxSessions \in Nat /\ seq \in 0 .. MaxSessions
    BY ServiceAssumption DEF ServiceOK, M!Lifecycle, M!LifecycleTypeOK, Exec!ExecAssumption
  <2> QED BY <2>1, <2>2 DEF M!Sessions
<1>2. now' \in {now, now + 1}
  BY SessionAssumption, M!ClockAdvances
<1>3. M!Terminal(sess[s]) => sess'[s].ended = sess[s].ended /\ sess[s].ended \in Int
  <2>1. sess[s] \in M!Session
    BY <1>1 DEF ServiceOK, M!Lifecycle, M!LifecycleTypeOK
  <2>2. sess[s].ended \in Int
    BY <2>1 DEF M!Session, M!Times, M!Null
  <2> QED BY <1>1, <2>2, SessionAssumption, M!EndsStay DEF ServiceOK
<1>4. (M!Pending(sess'[s]) <=> M!Pending(sess[s])) /\ (M!Terminal(sess'[s]) <=> M!Terminal(sess[s]))
  BY DEF M!Alike
<1>5. Book(s)'
  BY <1>1, <1>4 DEF Book, SameOp
<1>6. Dated(s)'
  BY <1>1, <1>2, <1>3, <1>4 DEF Dated, SameOp
<1> QED BY <1>5, <1>6

LEMMA BooksStand ==
  ASSUME ServiceOK, [M!Next]_(M!vars), UNCHANGED <<seq, origin>>, created' \in {created, created + 1},
         \A s \in 1 .. seq : M!Alike(sess[s], sess'[s]) /\ SameOp(origin[s])
  PROVE  Books'
<1>1. ASSUME NEW s \in 1 .. seq PROVE Book(s)' /\ Dated(s)'
  BY <1>1, BookStands
<1> QED BY <1>1 DEF ServiceOK, Books

(* A step on one session, an old one or the next: its page has to be right,    *)
(* and its operation nobody else's.                                           *)
LEMMA OneBook ==
  ASSUME ServiceOK, [M!Next]_(M!vars), NEW s \in Sessions, 1 .. seq' = (1 .. seq) \cup {s},
         created' \in {created, created + 1}, origin' \in [Sessions -> Nat],
         \A t \in 1 .. seq : t # s => /\ sess'[t] = sess[t] /\ origin'[t] = origin[t] /\ SameOp(origin[t])
                                      /\ origin[t] # origin'[s],
         Book(s)', Dated(s)'
  PROVE  Books'
<1>1. ASSUME NEW t \in 1 .. seq, t # s PROVE Book(t)' /\ Dated(t)'
  <2>1. M!Alike(sess[t], sess'[t])
    BY <1>1 DEF M!Alike
  <2> QED BY <1>1, <2>1, BookStands
<1>2. \A t \in 1 .. seq' : Book(t)' /\ Dated(t)'
  BY <1>1
<1>3. \A t, u \in 1 .. seq' : origin'[t] = origin'[u] => t = u
  BY DEF ServiceOK, Books
<1> QED BY <1>2, <1>3 DEF Books

LEMMA SessionTypes ==
  ASSUME ServiceOK
  PROVE  /\ seq \in Nat /\ Sessions = 1 .. MaxSessions /\ Sessions = M!Sessions
         /\ 1 .. seq \subseteq Sessions
         /\ created \in Nat /\ 1 .. created \subseteq Ops /\ accepting \in BOOLEAN
         /\ origin \in [Sessions -> Nat]
         /\ \A s \in 1 .. seq : Book(s) /\ Dated(s) /\ origin[s] \in 1 .. created /\ origin[s] \in Ops
<1>1. MaxSessions \in Nat /\ seq \in 0 .. MaxSessions /\ accepting \in BOOLEAN
  BY ServiceAssumption DEF ServiceOK, M!Lifecycle, M!LifecycleTypeOK, Exec!ExecAssumption
<1>2. created \in 0 .. MaxOps /\ MaxOps \in Nat
  BY TableAssumption DEF ServiceOK, TableOK, TypeOK
<1> QED BY <1>1, <1>2 DEF ServiceOK, Books, Book, Sessions, M!Sessions, Ops

LEMMA CallBooks ==
  ASSUME ServiceOK, [M!Next]_(M!vars), NEW i \in Ids, NEW d \in Digests, Call(i, d)
  PROVE  Books'
<1>1. UNCHANGED <<managerVars, origin>>
  BY DEF Call
<1>2. UNCHANGED <<seq, sess, origin>>
  BY <1>1 DEF managerVars
<1>3. \A s \in 1 .. seq : SameOp(origin[s])
  BY SessionTypes, CallKeepsOps DEF ServiceOK
<1>4. created' \in {created, created + 1}
  <2>1. CASE 1 .. created = {}
    BY <2>1 DEF Call, RunShared, RunRefused, RunFresh, NewOp
  <2> QED BY <2>1, CallKeepsOps DEF ServiceOK
<1> QED BY <1>2, <1>3, <1>4, BooksStand DEF M!Alike

LEMMA ReserveShape ==
  ASSUME ServiceOK, NEW s \in Sessions, Exec!Reserve(s)
  PROVE  /\ s = seq + 1 /\ seq' = s /\ 1 .. seq' = (1 .. seq) \cup {s} /\ s \notin 1 .. seq
         /\ sess'[s] = M!Reserved /\ M!Pending(sess'[s]) /\ ~M!Terminal(sess'[s])
         /\ \A t \in 1 .. seq : t # s /\ sess'[t] = sess[t]
<1>1. M!Reserve(s)
  BY SameReserve
<1>2. s = seq + 1 /\ seq' = s /\ M!Update(s, M!Reserved) /\ seq \in Nat
  BY <1>1, SessionTypes DEF M!Reserve
<1>3. sess' = [sess EXCEPT ![s] = M!Reserved] /\ sess \in [M!Sessions -> M!Session]
  BY <1>2 DEF M!Update, ServiceOK, M!Lifecycle, M!LifecycleTypeOK
<1>4. 1 .. seq' = (1 .. seq) \cup {s} /\ s \notin 1 .. seq
  BY <1>2
<1>5. sess'[s] = M!Reserved /\ \A t \in 1 .. seq : t # s /\ sess'[t] = sess[t]
  BY <1>3, <1>4, SessionTypes
<1>6. M!Pending(M!Reserved) /\ ~M!Terminal(M!Reserved)
  BY DEF M!Reserved, M!Unborn, M!Pending, M!Terminal, M!TerminalStates
<1> QED BY <1>2, <1>4, <1>5, <1>6

LEMMA StartBooks ==
  ASSUME ServiceOK, [M!Next]_(M!vars), NEW o \in Ops, NEW s \in Sessions, Start(o, s)
  PROVE  Books'
<1>1. Begin(o, TRUE, TRUE) /\ Exec!Reserve(s) /\ origin' = [origin EXCEPT ![s] = o]
  BY DEF Start
<1>2. /\ ops[o].phase = "queued" /\ o \in 1 .. created /\ created' = created /\ ops[o].id # NoId
      /\ ops'[o].id = ops[o].id /\ ops'[o].phase = "running" /\ ops'[o].pin = "held"
      /\ \A p \in 1 .. created : p # o => SameOp(p)
  BY <1>1, BeginOp DEF ServiceOK
<1>3. origin'[s] = o /\ origin' \in [Sessions -> Nat] /\ \A t \in 1 .. seq : t # s => origin'[t] = origin[t]
  BY <1>1, SessionTypes DEF Ops
<1>4. \A t \in 1 .. seq : origin[t] # o /\ SameOp(origin[t])
  <2>1. \A t \in 1 .. seq : origin[t] # o
    BY <1>2, SessionTypes DEF Book
  <2> QED BY <1>2, <2>1, SessionTypes
<1>5. Book(s)'
  BY <1>1, <1>2, <1>3, ReserveShape DEF Book
<1>6. Dated(s)'
  BY <1>1, ReserveShape DEF Dated
<1> QED BY <1>1, <1>2, <1>3, <1>4, <1>5, <1>6, ReserveShape, OneBook

LEMMA StartWithoutIdBooks ==
  ASSUME ServiceOK, [M!Next]_(M!vars), NEW d \in Digests, NEW s \in Sessions, StartWithoutId(d, s)
  PROVE  Books'
<1>1. RunWithoutId(d, TRUE) /\ Exec!Reserve(s) /\ origin' = [origin EXCEPT ![s] = created + 1]
  BY DEF StartWithoutId
<1>2. /\ created' = created + 1 /\ created \in Nat
      /\ ops'[created + 1].id = NoId /\ ops'[created + 1].phase = "running"
      /\ ops'[created + 1].pin = "none"
      /\ \A p \in 1 .. created : SameOp(p)
  BY <1>1, NewOpAdded DEF ServiceOK
<1>3. /\ origin'[s] = created + 1 /\ origin' \in [Sessions -> Nat]
      /\ \A t \in 1 .. seq : t # s => origin'[t] = origin[t]
  BY <1>1, <1>2, SessionTypes
<1>4. \A t \in 1 .. seq : origin[t] # created + 1 /\ SameOp(origin[t])
  BY <1>2, SessionTypes
<1>5. Book(s)'
  BY <1>1, <1>2, <1>3, ReserveShape DEF Book
<1>6. Dated(s)'
  BY <1>1, ReserveShape DEF Dated
<1> QED BY <1>1, <1>2, <1>3, <1>4, <1>5, <1>6, ReserveShape, OneBook

LEMMA RefuseBooks ==
  ASSUME ServiceOK, [M!Next]_(M!vars), NEW o \in Ops, Refuse(o)
  PROVE  Books'
<1>1. Begin(o, accepting, FALSE) /\ UNCHANGED <<seq, sess, origin>>
  BY DEF Refuse, managerVars, Exec!Sweep
<1>2. /\ ops[o].phase = "queued" /\ created' = created
      /\ \A p \in 1 .. created : p # o => SameOp(p)
  BY <1>1, SessionTypes, BeginOp DEF ServiceOK
<1>3. \A s \in 1 .. seq : origin[s] # o
  BY <1>2, SessionTypes DEF Book
<1> QED BY <1>1, <1>2, <1>3, SessionTypes, BooksStand DEF M!Alike

LEMMA RefusalSettlesBooks ==
  ASSUME ServiceOK, [M!Next]_(M!vars), NEW o \in Ops, RefusalSettles(o)
  PROVE  Books'
<1>1. Settle(o) /\ UNCHANGED <<seq, sess, origin>> /\ \A s \in Sessions : origin[s] # o
  BY DEF RefusalSettles, managerVars
<1>2. created' = created /\ \A p \in 1 .. created : p # o => SameOp(p)
  BY <1>1, SettleOp DEF ServiceOK
<1> QED BY <1>1, <1>2, SessionTypes, BooksStand DEF M!Alike

LEMMA EndBooks ==
  ASSUME ServiceOK, [M!Next]_(M!vars), NEW s \in Sessions, End(s)
  PROVE  Books'
<1>1. (M!StartFails(s) \/ \E faulty \in BOOLEAN : M!Closed(s, faulty)) /\ ReleaseFor(s) /\ origin' = origin
  BY SameStartFails, SameClosed DEF End
<1>2. M!Lifecycle /\ s \in M!Sessions
  BY SessionTypes DEF ServiceOK
<1>3. M!Ends(sess[s], sess'[s])
  BY <1>1, <1>2, SessionAssumption, M!StartFailsLifecycle, M!ClosedLifecycle
<1>4. seq' = seq /\ now' = now /\ \A t \in M!Sessions \ {s} : sess'[t] = sess[t]
  <2>1. seq' = seq /\ now' = now /\ \E q : M!Update(s, q)
    BY <1>1 DEF M!StartFails, M!Closed
  <2> QED BY <1>2, <2>1, SessionAssumption, M!OneSession
<1>5. /\ s \in 1 .. seq /\ ~M!Terminal(sess[s]) /\ M!Terminal(sess'[s]) /\ sess'[s].ended = now
      /\ M!Pending(sess'[s]) <=> M!Pending(sess[s])
  BY <1>2, <1>3, StartedSessions DEF M!Ends
<1>6. PICK o \in Ops : o = origin[s]
  BY <1>5, SessionTypes
<1>7. Book(s) /\ o \in 1 .. created /\ now \in Nat
  BY <1>5, <1>6, SessionTypes DEF ServiceOK, TableOK, TypeOK
<1>8. /\ created' = created /\ ops'[o].id = ops[o].id /\ ops'[o].phase = ops[o].phase
      /\ ops'[o].pin = IF ops[o].id = NoId THEN "none" ELSE "released"
      /\ ops[o].id # NoId => ops'[o].quiet = now
      /\ \A p \in 1 .. created : p # o => SameOp(p)
  <2>1. CASE ops[o].id = NoId
    BY <1>1, <1>5, <1>6, <1>7, <2>1 DEF ReleaseFor, tableVars, Book, SameOp
  <2>2. CASE ops[o].id # NoId
    <3>1. Release(o)
      BY <1>1, <1>6, <2>2 DEF ReleaseFor
    <3> QED BY <2>2, <3>1, ReleaseOp DEF ServiceOK
  <2> QED BY <2>1, <2>2
<1>9. \A t \in 1 .. seq : t # s => origin[t] # o /\ SameOp(origin[t])
  BY <1>5, <1>6, <1>8, SessionTypes DEF ServiceOK, Books
<1>10. Book(s)'
  BY <1>1, <1>5, <1>6, <1>7, <1>8 DEF Book
<1>11. Dated(s)'
  BY <1>1, <1>4, <1>5, <1>6, <1>7, <1>8 DEF Dated
<1>12. 1 .. seq' = (1 .. seq) \cup {s}
  BY <1>4, <1>5
<1>13. \A t \in 1 .. seq : t # s => sess'[t] = sess[t] /\ origin'[t] = origin[t] /\ origin[t] # origin'[s]
  BY <1>1, <1>4, <1>6, <1>9, SessionTypes
<1>14. origin' \in [Sessions -> Nat] /\ created' \in {created, created + 1}
  BY <1>1, <1>8, SessionTypes
<1> QED BY <1>9, <1>10, <1>11, <1>12, <1>13, <1>14, OneBook

LEMMA AnswerBooks ==
  ASSUME ServiceOK, [M!Next]_(M!vars), NEW s \in Sessions, Answer(s)
  PROVE  Books'
<1>1. M!ExecReply(s) /\ Settle(origin[s]) /\ origin' = origin
  BY SameExecReply DEF Answer
<1>2. M!Lifecycle /\ s \in M!Sessions
  BY SessionTypes DEF ServiceOK
<1>3. M!Answers(sess[s], sess'[s])
  BY <1>1, <1>2, SessionAssumption, M!ExecReplyLifecycle
<1>4. seq' = seq /\ now' = now /\ \A t \in M!Sessions \ {s} : sess'[t] = sess[t]
  <2>1. seq' = seq /\ now' = now /\ \E q : M!Update(s, q)
    BY <1>1 DEF M!ExecReply
  <2> QED BY <1>2, <2>1, SessionAssumption, M!OneSession
<1>5. /\ s \in 1 .. seq /\ M!Pending(sess[s]) /\ ~M!Pending(sess'[s])
      /\ M!Terminal(sess'[s]) <=> M!Terminal(sess[s])
  BY <1>2, <1>3, StartedSessions DEF M!Answers
<1>6. PICK o \in Ops : o = origin[s]
  BY <1>5, SessionTypes
<1>7. Book(s) /\ Dated(s) /\ o \in 1 .. created /\ now \in Nat
  BY <1>5, <1>6, SessionTypes DEF ServiceOK, TableOK, TypeOK
<1>8. /\ created' = created /\ ops'[o].id = ops[o].id /\ ops'[o].phase = "settled"
      /\ ops'[o].pin = ops[o].pin /\ ops'[o].quiet = now
      /\ \A p \in 1 .. created : p # o => SameOp(p)
  BY <1>1, <1>6, SettleOp DEF ServiceOK
<1>9. \A t \in 1 .. seq : t # s => origin[t] # o /\ SameOp(origin[t])
  BY <1>5, <1>6, <1>8, SessionTypes DEF ServiceOK, Books
<1>10. Book(s)'
  BY <1>1, <1>5, <1>6, <1>7, <1>8 DEF Book
<1>11. M!Terminal(sess[s]) => sess'[s].ended = sess[s].ended
  BY <1>2, SessionAssumption, M!EndsStay
<1>12. Dated(s)'
  BY <1>1, <1>4, <1>5, <1>6, <1>7, <1>8, <1>11 DEF Dated
<1>13. 1 .. seq' = (1 .. seq) \cup {s}
  BY <1>4, <1>5
<1>14. \A t \in 1 .. seq : t # s => sess'[t] = sess[t] /\ origin'[t] = origin[t] /\ origin[t] # origin'[s]
  BY <1>1, <1>4, <1>6, <1>9, SessionTypes
<1>15. origin' \in [Sessions -> Nat] /\ created' \in {created, created + 1}
  BY <1>1, <1>8, SessionTypes
<1> QED BY <1>9, <1>10, <1>12, <1>13, <1>14, <1>15, OneBook

LEMMA UntouchedBooks ==
  ASSUME ServiceOK, [M!Next]_(M!vars), UNCHANGED <<seq, origin, ops, created>>,
         \A s \in M!Sessions : M!Alike(sess[s], sess'[s])
  PROVE  Books'
BY SessionTypes, BooksStand DEF SameOp

LEMMA SessionStepBooks ==
  ASSUME ServiceOK, [M!Next]_(M!vars), NEW s \in Sessions, SweepingStep(s) \/ OtherStep(s)
  PROVE  Books'
<1>1. UNCHANGED <<ops, created, origin>>
  BY DEF SweepingStep, OtherStep, Sweep, tableVars
<1>2. \/ \E timed \in BOOLEAN : M!Spawn(s, timed)
      \/ \E n \in 1 .. MaxOutput : M!Output(s, n)
      \/ M!TimeoutFires(s)
      \/ M!EscalationFires(s)
      \/ M!WriteReply(s)
      \/ \E force \in BOOLEAN : M!Terminate(s, force)
      \/ \E at \in 0 .. log[s].end \cup {M!Null}, input \in BOOLEAN : M!WriteBegins(s, at, input)
  BY SameSpawn, SameOutput, SameTimeoutFires, SameEscalationFires, SameWriteReply, SameTerminate, SameWriteBegins
     DEF SweepingStep, OtherStep, M!Null
<1>3. s \in M!Sessions /\ M!Lifecycle
  BY SessionTypes DEF ServiceOK
<1>4. \A t \in M!Sessions : M!Alike(sess[t], sess'[t])
  BY <1>2, <1>3, SessionAssumption, M!QuietStepsAlike
<1>5. seq' = seq
  BY <1>2 DEF M!Spawn, M!Output, M!TimeoutFires, M!EscalationFires, M!WriteReply, M!Terminate, M!WriteBegins
<1> QED BY <1>1, <1>4, <1>5, UntouchedBooks

LEMMA OutsideBooks ==
  ASSUME ServiceOK, [M!Next]_(M!vars), SweepBoth \/ Shutdown \/ TickBoth \/ UNCHANGED serviceVars
  PROVE  Books'
<1>1. UNCHANGED <<ops, created, origin>>
  BY DEF SweepBoth, Shutdown, TickBoth, serviceVars, tableVars, Sweep, Tick
<1>2. (M!Sweep \/ M!Close \/ M!CloseDrained \/ M!CloseReturns \/ M!Tick) \/ UNCHANGED <<seq, sess>>
  BY SameRest DEF SweepBoth, Shutdown, TickBoth, serviceVars, managerVars
<1>3. seq' = seq
  BY <1>2 DEF M!Sweep, M!Close, M!CloseDrained, M!CloseReturns, M!Tick
<1>4. \A t \in M!Sessions : M!Alike(sess[t], sess'[t])
  BY <1>2, SessionAssumption, M!OutsideAlike DEF ServiceOK, M!Alike
<1> QED BY <1>1, <1>3, <1>4, UntouchedBooks

(* The invariant of the two together is inductive.                            *)
LEMMA InitService == ServiceInit => ServiceOK
<1> SUFFICES ASSUME ServiceInit PROVE ServiceOK
  OBVIOUS
<1>1. M!Lifecycle
  BY SameInit, SessionAssumption, M!InitLifecycle DEF ServiceInit
<1>2. TableOK
  BY InitTable DEF ServiceInit
<1>3. seq = 0 /\ origin \in [Sessions -> Nat]
  BY DEF ServiceInit, Exec!Init
<1> QED BY <1>1, <1>2, <1>3 DEF ServiceOK, Books

LEMMA NextService == ServiceOK /\ [ServiceNext]_serviceVars => ServiceOK'
<1> SUFFICES ASSUME ServiceOK, [ServiceNext]_serviceVars PROVE ServiceOK'
  OBVIOUS
<1>1. [M!Next]_(M!vars)
  BY StepOfManager
<1>2. M!Lifecycle'
  BY <1>1, SessionAssumption, M!NextLifecycle DEF ServiceOK
<1>3. TableOK'
  BY StepOfTable, NextTable DEF ServiceOK
<1>4. Books'
  BY <1>1, CallBooks, StartBooks, StartWithoutIdBooks, RefuseBooks, RefusalSettlesBooks, EndBooks, AnswerBooks,
     SessionStepBooks, OutsideBooks DEF ServiceNext
<1> QED BY <1>2, <1>3, <1>4 DEF ServiceOK

(* In every reachable state each session has an operation of its own, and what *)
(* the table says of it is what the manager does.                             *)
THEOREM ServiceInvariant == ServiceSpec => []ServiceOK
BY InitService, NextService, PTL DEF ServiceSpec

(* The service runs its requests as RetryCache does and its sessions as         *)
(* ExecManager does: what is proved of either holds of it.                     *)
THEOREM RunsBoth == ServiceSpec => Spec /\ M!Spec
<1>1. ServiceInit => Init /\ M!Init
  BY SameInit DEF ServiceInit
<1>2. ServiceOK /\ [ServiceNext]_serviceVars => [Next]_vars
  BY StepOfTable
<1> QED BY <1>1, <1>2, StepOfManager, ServiceInvariant, PTL DEF ServiceSpec, Spec, M!Spec

(* The table's books agree with the manager's: a release function is owed      *)
(* exactly while its command has not ended, a promise is open exactly until    *)
(* its call has been answered, and a repeated call finds the command as long   *)
(* as it runs.                                                                 *)
THEOREM BooksAgreeHolds == ServiceSpec => []BooksAgree
<1>1. ServiceOK => BooksAgree
  <2> SUFFICES ASSUME ServiceOK, NEW s \in 1 .. seq
               PROVE  /\ Running(s) /\ RequestOf(s) # NoId => FoundByRetry(s)
                      /\ ops[origin[s]].phase = IF Exec!Pending(sess[s]) THEN "running" ELSE "settled"
                      /\ ops[origin[s]].pin = IF RequestOf(s) = NoId THEN "none"
                                              ELSE IF Running(s) THEN "held" ELSE "released"
    BY DEF BooksAgree
  <2>1. Book(s) /\ origin[s] \in Ops /\ origin[s] # 0
    BY SessionTypes DEF Ops
  <2>2. RequestOf(s) = ops[origin[s]].id
    BY <2>1 DEF RequestOf
  <2>3. (Exec!Pending(sess[s]) <=> M!Pending(sess[s])) /\ (Running(s) <=> ~M!Terminal(sess[s]))
    BY DEF Exec!Pending, M!Pending, Running, Exec!Terminal, M!Terminal, Exec!TerminalStates, M!TerminalStates
  <2>4. ASSUME ops[origin[s]].pin = "held", ops[origin[s]].id # NoId PROVE FoundByRetry(s)
    <3>1. Holds(entries, origin[s])
      BY <2>1, <2>4 DEF ServiceOK, TableOK, WorkingIsRegistered, Working
    <3>2. EntryMatches(RequestOf(s))
      BY <2>2, <3>1 DEF ServiceOK, TableOK, Holds
    <3> QED BY <2>2, <2>4, <3>1, <3>2 DEF FoundByRetry, Holds, EntryMatches
  <2> QED BY <2>1, <2>2, <2>3, <2>4 DEF Book
<1> QED BY <1>1, ServiceInvariant, PTL

-----------------------------------------------------------------------------
(* A table with room for every identifier never evicts: what leaves it has     *)
(* expired.                                                                    *)
RoomForAll == IsFiniteSet(Ids) /\ Cardinality(Ids) <= Capacity

LEMMA NeverFull ==
  ASSUME TableOK, RoomForAll, NEW j \in Ids, NEW d \in Digests, RunFresh(j, d),
         NEW i \in DOMAIN entries, ~Kept(i)
  PROVE  Expired(entries[i], now)
<1> DEFINE es == Swept(entries, now)
<1>1. PICK room \in RoomFor(es) : entries' = Registered(room, j, created + 1, d)
  BY DEF RunFresh
<1>2. DOMAIN es \subseteq Ids \ {j}
  BY SweptSubset DEF TableOK, TypeOK, RunFresh
<1>3. /\ IsFiniteSet(Ids \ {j}) /\ Cardinality(Ids \ {j}) = Cardinality(Ids) - 1
      /\ Cardinality(Ids) \in Nat
  BY FS_RemoveElement, FS_CardinalityType DEF RoomForAll
<1>4. Cardinality(DOMAIN es) <= Cardinality(Ids \ {j}) /\ Cardinality(DOMAIN es) \in Nat
  BY <1>2, <1>3, FS_Subset, FS_CardinalityType
<1>5. ~IsFull(es)
  BY <1>3, <1>4, TableAssumption DEF IsFull, RoomForAll
<1>6. room = es
  BY <1>1, <1>5 DEF RoomFor
<1>7. ASSUME i \in DOMAIN es PROVE FALSE
  <2>1. i # j /\ es[i] = entries[i]
    BY <1>2, <1>7, SweptSubset
  <2>2. i \in DOMAIN entries' /\ entries'[i] = es[i]
    BY <1>1, <1>6, <1>7, <2>1 DEF Registered
  <2> QED BY <2>1, <2>2 DEF Kept
<1> QED BY <1>7, SweptSubset

LEMMA OnlyExpiredLeave ==
  ASSUME TableOK, RoomForAll, [Next]_vars, NEW i \in DOMAIN entries, ~Kept(i)
  PROVE  Expired(entries[i], now)
BY NeverFull, StepKeeps

(* An operation keeps its identifier.                                          *)
LEMMA IdsStay ==
  ASSUME TableOK, [Next]_vars, NEW o \in 1 .. created
  PROVE  ops'[o].id = ops[o].id
<1>1. /\ o \in Ops /\ ops \in [Ops -> Op] /\ ops[o] \in Op
      /\ created \in Nat /\ o # created + 1
  BY TableAssumption DEF TableOK, TypeOK, Ops
<1>2. ASSUME NEW i \in Ids \cup {NoId}, NEW d \in Digests, NEW phase, NewOp(i, d, phase)
      PROVE  ops'[o].id = ops[o].id
  BY <1>1, <1>2 DEF NewOp
<1>3. ASSUME NEW i \in Ids, NEW d \in Digests, RunShared(i, d)
      PROVE  ops'[o].id = ops[o].id
  BY <1>1, <1>3 DEF RunShared, Op
<1>4. ASSUME NEW p \in Ops, NEW sweeps \in BOOLEAN, NEW pins \in BOOLEAN, Begin(p, sweeps, pins)
      PROVE  ops'[o].id = ops[o].id
  BY <1>1, <1>4, BeginOp DEF SameOp, Ops
<1>5. ASSUME NEW p \in Ops, Release(p) \/ Settle(p)
      PROVE  ops'[o].id = ops[o].id
  BY <1>1, <1>5, ReleaseOp, SettleOp DEF SameOp, Ops
<1> QED BY <1>2, <1>3, <1>4, <1>5 DEF Next, RunWithoutId, RunFresh, RunRefused,
           Sweep, Tick, vars

(* A step reserves one new session or none, and leaves the others their        *)
(* operations.                                                                 *)
LEMMA AtMostOneStart ==
  ASSUME ServiceOK, [ServiceNext]_serviceVars
  PROVE  /\ \A s \in 1 .. seq : origin'[s] = origin[s]
         /\ \A s \in 1 .. seq' : s \in 1 .. seq \/ ~M!Terminal(sess'[s])
<1>1. ASSUME seq' = seq, origin' = origin PROVE UNCHANGED <<seq, origin>>
  BY <1>1
<1>2. ASSUME NEW s \in Sessions, NEW o, Exec!Reserve(s), origin' = [origin EXCEPT ![s] = o]
      PROVE  /\ \A t \in 1 .. seq : origin'[t] = origin[t]
             /\ \A t \in 1 .. seq' : t \in 1 .. seq \/ ~M!Terminal(sess'[t])
  BY <1>2, ReserveShape, SessionTypes
<1>3. ASSUME NEW i \in Ids, NEW d \in Digests, Call(i, d) PROVE UNCHANGED <<seq, origin>>
  BY <1>3 DEF Call, managerVars
<1>4. ASSUME NEW o \in Ops, Refuse(o) \/ RefusalSettles(o) PROVE UNCHANGED <<seq, origin>>
  BY <1>4 DEF Refuse, RefusalSettles, managerVars, Exec!Sweep
<1>5. ASSUME NEW s \in Sessions, End(s) \/ Answer(s) PROVE UNCHANGED <<seq, origin>>
  BY <1>5 DEF End, Answer, Exec!StartFails, Exec!Closed, Exec!ExecReply
<1>6. ASSUME NEW s \in Sessions, SweepingStep(s) \/ OtherStep(s) PROVE UNCHANGED <<seq, origin>>
  BY <1>6 DEF SweepingStep, OtherStep, Exec!Spawn, Exec!Output, Exec!TimeoutFires, Exec!EscalationFires,
              Exec!WriteReply, Exec!Terminate, Exec!WriteBegins
<1>7. ASSUME SweepBoth \/ Shutdown \/ TickBoth \/ UNCHANGED serviceVars PROVE UNCHANGED <<seq, origin>>
  BY <1>7 DEF SweepBoth, Shutdown, TickBoth, serviceVars, managerVars, Exec!Sweep, Exec!Close, Exec!CloseDrained,
              Exec!CloseReturns, Exec!Tick
<1> QED BY <1>2, <1>3, <1>4, <1>5, <1>6, <1>7 DEF ServiceNext, Start, StartWithoutId

(* The entry of an ended command is kept until the retention time has run from *)
(* its end.                                                                    *)
Lasting(s) == LET o == origin[s] IN
  M!Terminal(sess[s]) /\ ops[o].id # NoId => Holds(entries, o) \/ now - sess[s].ended >= TTL
AllLast == \A s \in 1 .. seq : Lasting(s)

LEMMA HeldOrOld ==
  ASSUME ServiceOK, AllLast, NEW s \in 1 .. seq, ops[origin[s]].id # NoId
  PROVE  Holds(entries, origin[s]) \/ (M!Terminal(sess[s]) /\ now - sess[s].ended >= TTL)
<1>1. Book(s) /\ origin[s] \in Ops
  BY SessionTypes DEF Ops
<1>2. CASE M!Terminal(sess[s])
  BY <1>2 DEF AllLast, Lasting
<1>3. CASE ~M!Terminal(sess[s])
  BY <1>1, <1>3 DEF Book, ServiceOK, TableOK, WorkingIsRegistered, Working
<1> QED BY <1>2, <1>3

LEMMA NextLasts ==
  ASSUME ServiceOK, AllLast, RoomForAll, [ServiceNext]_serviceVars
  PROVE  AllLast'
<1> SUFFICES ASSUME NEW s \in 1 .. seq, M!Terminal(sess'[s]), ops'[origin[s]].id # NoId
             PROVE  Holds(entries, origin[s])' \/ now' - sess'[s].ended >= TTL
  BY AtMostOneStart DEF AllLast, Lasting, Holds
<1> DEFINE o == origin[s]
           i == ops[o].id
<1>1. TableOK /\ [Next]_vars /\ M!Lifecycle /\ [M!Next]_(M!vars)
  BY StepOfTable, StepOfManager DEF ServiceOK
<1>2. o \in 1 .. created /\ Book(s) /\ Dated(s) /\ s \in M!Sessions
  BY SessionTypes
<1>3. ops'[o].id = i /\ i # NoId
  BY <1>1, <1>2, IdsStay
<1>4. now \in Nat /\ now' \in Nat /\ now <= now'
  <2>1. now \in Nat
    BY <1>1, TableAssumption DEF TableOK, TypeOK
  <2>2. now' \in {now, now + 1}
    BY <1>1, SessionAssumption, M!ClockAdvances
  <2> QED BY <2>1, <2>2
<1>5. ASSUME M!Terminal(sess[s]), now - sess[s].ended >= TTL PROVE now' - sess'[s].ended >= TTL
  <2>1. sess'[s].ended = sess[s].ended
    BY <1>1, <1>2, <1>5, SessionAssumption, M!EndsStay
  <2>2. sess[s].ended \in Int
    <3>1. sess[s] \in M!Session
      BY <1>1, <1>2 DEF M!Lifecycle, M!LifecycleTypeOK
    <3> QED BY <3>1 DEF M!Session, M!Times, M!Null
  <2>3. TTL \in Int
    BY TableAssumption
  <2> QED BY <1>4, <1>5, <2>1, <2>2, <2>3
<1>6. CASE ~Holds(entries, o)
  BY <1>3, <1>5, <1>6, HeldOrOld
<1>7. CASE Holds(entries, o)
  <2>1. i \in DOMAIN entries /\ entries[i].op = o
    BY <1>7 DEF Holds
  <2>2. CASE Kept(i)
    <3>1. origin'[s] = o
      BY AtMostOneStart
    <3>2. ops'[o].id \in DOMAIN entries' /\ entries'[ops'[o].id].op = o
      BY <1>3, <2>1, <2>2 DEF Kept
    <3> QED BY <3>1, <3>2 DEF Holds
  <2>3. CASE ~Kept(i)
    <3>1. ~Working(o) /\ now - ops[o].quiet >= TTL
      <4>1. Expired(entries[i], now)
        BY <1>1, <2>1, <2>3, OnlyExpiredLeave
      <4> QED BY <1>1, <2>1, <4>1, ExpiredIsOld
    <3>2. M!Terminal(sess[s])
      BY <1>2, <1>3, <3>1 DEF Book, Working
    <3>3. sess[s].ended <= ops[o].quiet
      BY <1>2, <1>3, <3>2 DEF Dated
    <3>4. sess[s].ended \in Int /\ ops[o].quiet \in Int /\ TTL \in Int
      <4>1. sess[s] \in M!Session
        BY <1>1, <1>2 DEF M!Lifecycle, M!LifecycleTypeOK
      <4>2. ops[o] \in Op
        BY <1>1, <1>2, TableAssumption DEF TableOK, TypeOK, Ops
      <4>3. sess[s].ended \in Int
        BY <4>1 DEF M!Session, M!Times, M!Null
      <4>4. ops[o].quiet \in Int
        BY <4>2 DEF Op
      <4> QED BY <4>3, <4>4, TableAssumption
    <3>5. now - sess[s].ended >= TTL
      BY <1>4, <3>1, <3>3, <3>4
    <3> QED BY <1>5, <3>2, <3>5
  <2> QED BY <2>2, <2>3
<1> QED BY <1>6, <1>7

(* A request whose action starts has its identifier to itself: the command that *)
(* was started under it before has ended, and long enough ago.                 *)
LEMMA StartIsAlone ==
  ASSUME ServiceOK, AllLast, NEW o \in Ops, NEW s \in 1 .. seq, ops[o].phase = "queued", ops[o].id # NoId,
         ops[origin[s]].id = ops[o].id
  PROVE  M!Terminal(sess[s]) /\ now - sess[s].ended >= TTL
<1>1. Holds(entries, o)
  BY DEF ServiceOK, TableOK, WorkingIsRegistered, Working, Ops
<1>2. origin[s] # o
  BY SessionTypes DEF Book
<1>3. ~Holds(entries, origin[s])
  BY <1>1, <1>2 DEF Holds
<1> QED BY <1>3, HeldOrOld

(* A client that repeats a call whose answer it lost cannot start its command   *)
(* again before the retention time has run from the end of the command, however *)
(* long that runs and whatever is swept: provided the table has room for every  *)
(* identifier in use, since one that is full gives up a finished entry earlier. *)
THEOREM NoRerunHolds ==
  ASSUME RoomForAll
  PROVE  ServiceSpec => NoRerunBeforeTTL
<1>1. ServiceInit => AllLast
  BY DEF ServiceInit, Exec!Init, AllLast
<1>2. ServiceOK /\ AllLast /\ [ServiceNext]_serviceVars => AllLast'
  BY NextLasts
<1>3. ServiceOK /\ AllLast /\ [ServiceNext]_serviceVars =>
      [\A s \in 1 .. seq :
         seq' = seq + 1 /\ RequestOf(s) # NoId /\ RequestOf(s) = ops[origin'[seq']].id =>
           Exec!Terminal(sess[s]) /\ now - sess[s].ended >= TTL]_serviceVars
  <2> SUFFICES ASSUME ServiceOK, AllLast, ServiceNext, NEW s \in 1 .. seq,
                      seq' = seq + 1, RequestOf(s) # NoId, RequestOf(s) = ops[origin'[seq']].id
               PROVE  Exec!Terminal(sess[s]) /\ now - sess[s].ended >= TTL
    OBVIOUS
  <2>1. RequestOf(s) = ops[origin[s]].id
    BY SessionTypes DEF RequestOf
  <2>2. PICK t \in Sessions : (\E o \in Ops : Start(o, t)) \/ (\E d \in Digests : StartWithoutId(d, t))
    <3>1. seq \in Nat /\ seq' # seq
      BY SessionTypes
    <3>2. ASSUME NEW i \in Ids, NEW d \in Digests, Call(i, d) PROVE FALSE
      BY <3>1, <3>2 DEF Call, managerVars
    <3>3. ASSUME NEW o \in Ops, Refuse(o) \/ RefusalSettles(o) PROVE FALSE
      BY <3>1, <3>3 DEF Refuse, RefusalSettles, managerVars, Exec!Sweep
    <3>4. ASSUME NEW t \in Sessions, End(t) \/ Answer(t) PROVE FALSE
      BY <3>1, <3>4 DEF End, Answer, Exec!StartFails, Exec!Closed, Exec!ExecReply
    <3>5. ASSUME NEW t \in Sessions, SweepingStep(t) \/ OtherStep(t) PROVE FALSE
      BY <3>1, <3>5 DEF SweepingStep, OtherStep, Exec!Spawn, Exec!Output, Exec!TimeoutFires,
                        Exec!EscalationFires, Exec!WriteReply, Exec!Terminate, Exec!WriteBegins
    <3>6. ASSUME SweepBoth \/ Shutdown \/ TickBoth PROVE FALSE
      BY <3>1, <3>6 DEF SweepBoth, Shutdown, TickBoth, Exec!Sweep, Exec!Close, Exec!CloseDrained,
                        Exec!CloseReturns, Exec!Tick
    <3> QED BY <3>2, <3>3, <3>4, <3>5, <3>6 DEF ServiceNext
  <2>3. ASSUME NEW o \in Ops, Start(o, t) PROVE Exec!Terminal(sess[s]) /\ now - sess[s].ended >= TTL
    <3>1. origin'[seq'] = o
      BY <2>3, ReserveShape, SessionTypes DEF Start
    <3>2. ops[o].phase = "queued"
      BY <2>3 DEF Start, Begin
    <3>3. M!Terminal(sess[s]) /\ now - sess[s].ended >= TTL
      BY <2>1, <3>1, <3>2, StartIsAlone
    <3> QED BY <3>3 DEF Exec!Terminal, M!Terminal, Exec!TerminalStates, M!TerminalStates
  <2>4. ASSUME NEW d \in Digests, StartWithoutId(d, t) PROVE FALSE
    <3>1. origin'[seq'] = created + 1
      BY <2>4, ReserveShape, SessionTypes DEF StartWithoutId
    <3>2. created + 1 \in Ops /\ created + 1 \notin 1 .. created
      BY <2>4, SessionTypes, TableAssumption DEF StartWithoutId, RunWithoutId, NewOp, Ops
    <3>3. ops[created + 1].id = NoId
      BY <3>2 DEF ServiceOK, TableOK, OpWellFormed
    <3> QED BY <3>1, <3>3
  <2> QED BY <2>2, <2>3, <2>4
<1> QED BY <1>1, <1>2, <1>3, ServiceInvariant, PTL DEF ServiceSpec, NoRerunBeforeTTL
=============================================================================
