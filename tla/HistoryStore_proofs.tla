------------------------ MODULE HistoryStore_proofs ------------------------
(***************************************************************************)
(* Proofs about HistoryStore, for any commands, limits and faults: what the *)
(* records say, the disk they take, and the files of commands at work,      *)
(* across evictions, failed file operations, crashes and restarts; then      *)
(* about HistoryLock, the lock that lets one server have the store, and      *)
(* about LogQuery, the pages and searches that its logs are read by.         *)
(***************************************************************************)
EXTENDS HistoryStore, HistoryLock, LogQuery, FiniteSetTheorems, SequenceTheorems,
        WellFoundedInduction, TLAPS

(* The job at work, as a command i sees it.  A job that evicts a record      *)
(* stands where it will go on.                                               *)
Evicting == cur.at \in {"unlink_log", "unlink_json"}
Place == IF Evicting THEN cur.back ELSE cur.at
OpOn(i) == IF cur.id = i THEN cur.op ELSE "none"
PlaceOn(i) == IF cur.id = i THEN Place ELSE "idle"
ChunkOn(i) == IF cur.id = i /\ cur.op = "append" THEN cur.chunk ELSE <<>>

CurType == [op : {"none", "start", "append", "finish", "clear"}, id : Ids \cup {Nothing},
            at : {"idle", "room", "create", "write", "sync", "save_room", "write_tmp", "rename", "clear",
                  "unlink_log", "unlink_json"},
            back : {"idle", "room", "save_room", "clear"}, victim : Ids \cup {Nothing},
            chunk : Seq(Nat), text : Text \cup {Nothing}]

Typed == /\ life \in [Ids -> Lives] /\ printed \in [Ids -> 0..MaxPrinted] /\ phase \in Phases
         /\ entries \in [Ids -> Entry \cup {Nothing}] /\ active \subseteq Ids
         /\ sequence \in Nat /\ bytes \in Int /\ pendingBytes \in Int
         /\ queue \in Seq(Job) /\ cur \in CurType
         /\ json \in [Ids -> Text \cup {Nothing}] /\ tmp \in [Ids -> Text \cup {Nothing}]
         /\ log \in [Ids -> Seq(Nat) \cup {Nothing}] /\ synced \in [Ids -> Nat]

-----------------------------------------------------------------------------
(* What is on disk of a command, in any phase.                               *)
Claims(i, t) == t.state = "ended" => /\ life[i] = "finished"
                                     /\ i \in Captured /\ ~t.truncated => t.captured = printed[i]
Disk(i) == /\ log[i] # Nothing => /\ log[i] = Offsets(0, Len(log[i]))
                                  /\ Len(log[i]) <= printed[i] /\ Len(log[i]) <= MaxLog
           /\ json[i] # Nothing => Claims(i, json[i])
           /\ life[i] \in {"unused", "unarchived"} => json[i] = Nothing /\ tmp[i] = Nothing /\ log[i] = Nothing
           /\ life[i] \in {"unused", "starting"} => printed[i] = 0
           /\ i \notin Captured => log[i] = Nothing
           /\ synced[i] <= Bytes(log[i])

(* What the store keeps of it while it runs: nothing, or an entry.           *)
Forgotten(i) == /\ json[i] = Nothing /\ tmp[i] = Nothing /\ log[i] = Nothing
                /\ i \notin active /\ OpOn(i) \in {"none", "start"} /\ (OpOn(i) = "start" => PlaceOn(i) = "room")
Accounts(i, e) == /\ TextBytes(json[i]) = e.metaBytes
                  /\ log[i] # Nothing => Len(log[i]) = e.logBytes
                  /\ e.logBytes <= printed[i]
Stream(i, e) ==
  LET c == ChunkOn(i) IN
  /\ c = Offsets(e.logBytes, Len(c))
  /\ e.pending = Offsets(e.logBytes + Len(c), Len(e.pending))
  /\ e.reserved = e.logBytes + Len(c) + Len(e.pending)
  /\ e.reserved <= printed[i] /\ (phase = "ready" /\ e.accepting => e.reserved = printed[i])
Capturing(i, e) == /\ log[i] # Nothing \/ PlaceOn(i) = "create"
                   /\ ~e.writeFailed => Stream(i, e)
                   /\ e.writeFailed => ~e.accepting /\ e.pending \in Seq(1..MaxPrinted)
Resting(e) == ~e.accepting /\ e.pending = <<>> /\ ~e.queued
Remembered(i, e) ==
  /\ Accounts(i, e)
  /\ i \in active <=> e.state = "running" \/ OpOn(i) = "finish"
  /\ e.state = "ended" => life[i] = "finished"
  /\ i \in active => life[i] \in {"starting", "running", "finished"}
  /\ i \in active /\ i \in Captured => Capturing(i, e)
  /\ i \notin active \/ i \notin Captured => Resting(e)
  /\ i \in Captured /\ e.state = "ended" /\ ~e.truncated /\ PlaceOn(i) # "sync" => e.logBytes = printed[i]
  /\ e.pending # <<>> => e.queued
Working(i, e) ==
  /\ OpOn(i) = "start" => /\ PlaceOn(i) # "room" /\ e.state = "running" /\ ~e.queued /\ ~e.writeFailed
                          /\ e.metaBytes = 0 /\ e.reserved = 0 /\ e.logBytes = 0 /\ json[i] = Nothing
  /\ PlaceOn(i) = "create" => i \in Captured
  /\ OpOn(i) = "append" => i \in active /\ i \in Captured /\ ~e.writeFailed
  /\ OpOn(i) = "finish" => i \in active /\ e.state = "ended" /\ Resting(e)
  /\ PlaceOn(i) = "sync" => i \in Captured
Record(i) == /\ entries[i] = Nothing => Forgotten(i)
             /\ entries[i] # Nothing => Remembered(i, entries[i]) /\ Working(i, entries[i])
             /\ life[i] \in {"unused", "unarchived"} => entries[i] = Nothing
             /\ life[i] = "starting" => (entries[i] # Nothing <=> (OpOn(i) = "start" /\ PlaceOn(i) # "room"))
             /\ OpOn(i) = "start" => life[i] = "starting"
             /\ life[i] = "running" => i \in active
             /\ tmp[i] # Nothing => cur.id = i /\ cur.at = "rename" /\ tmp[i] = cur.text

Sound == \A i \in Ids : Disk(i) /\ (phase # "down" => Record(i))

(* The job at work and the queue behind it.                                  *)
Places(op) == CASE op = "start" -> {"room", "create", "save_room", "write_tmp", "rename"}
                [] op = "append" -> {"room", "write"}
                [] op = "finish" -> {"sync", "save_room", "write_tmp", "rename"}
                [] op = "clear" -> {"clear"}
                [] OTHER -> {"idle"}
Saving == Place \in {"save_room", "write_tmp", "rename"}
CurOK == /\ Place \in Places(cur.op)
         /\ cur.op = "none" => cur = Idle
         /\ cur.op \in {"start", "append", "finish"} <=> cur.id # Nothing
         /\ IF Evicting THEN cur.victim \in Known \ (active \cup {cur.id}) ELSE cur.victim = Nothing
         /\ cur.at = "unlink_json" => log[cur.victim] = Nothing
         /\ Saving => cur.text # Nothing /\ cur.text = TextOf(entries[cur.id], cur.text.size)

JobOK(op, i) ==
  /\ op = "start" => i \in Ids /\ life[i] = "starting" /\ entries[i] = Nothing /\ OpOn(i) = "none"
  /\ op = "append" => i \in active /\ i \in Captured /\ entries[i].queued /\ OpOn(i) # "finish"
  /\ op = "finish" => i \in active /\ life[i] = "finished" /\ OpOn(i) # "finish"
Ordered(q) == \A k, l \in DOMAIN q : k < l /\ q[k].id = q[l].id
                => /\ q[k].op \in {"start", "append"} => q[l].op # q[k].op
                   /\ q[k].op = "finish" => q[l].op \notin {"append", "finish"}
InQueue(q, op, i) == \E k \in DOMAIN q : q[k].op = op /\ q[k].id = i
QueueOK == /\ \A k \in DOMAIN queue : JobOK(queue[k].op, queue[k].id)
           /\ Ordered(queue)
           /\ \A i \in Known : entries[i].queued => InQueue(queue, "append", i)

(* The accounts and the limits.                                              *)
Needs == CASE cur.at \in {"write_tmp", "rename"} -> cur.text.size
           [] cur.at = "write" -> Len(cur.chunk) + MaxMeta
           [] OTHER -> 0
EntrySizes == [i \in Ids |-> IF entries[i] = Nothing THEN 0 ELSE entries[i].metaBytes + entries[i].logBytes]
Balance == /\ bytes = Total(EntrySizes, Ids)
           /\ bytes + Needs <= MaxTotal
           /\ Cardinality(Known) <= MaxRecords
PendingSizes == [i \in Ids |-> IF entries[i] = Nothing THEN 0 ELSE Len(entries[i].pending)]
Unwritten == IF cur.op = "append" THEN Len(cur.chunk) ELSE 0
Backlog == /\ pendingBytes = Total(PendingSizes, Ids) + Unwritten
           /\ pendingBytes <= MaxPending
DownOK == phase = "down" => /\ cur = Idle /\ queue = <<>> /\ active = {} /\ Known = {}
                            /\ \A i \in Ids : life[i] \notin {"starting", "running"}
                            /\ DiskUse <= MaxTotal /\ Cardinality(Recorded) <= MaxRecords

IInv == Typed /\ Sound /\ CurOK /\ QueueOK /\ Balance /\ Backlog /\ DownOK

-----------------------------------------------------------------------------
(* Sums.  Total is a fold of the community modules: a recursive function over *)
(* the subsets of its set, which takes an element with CHOOSE.  That it        *)
(* exists, and that the order does not matter, is by induction on the          *)
(* cardinality.                                                               *)

LEMMA NatInductionOnSets ==
  ASSUME NEW T, 0 \in T, \A n \in Nat : n \in T => n + 1 \in T
  PROVE  Nat \subseteq T
<1> SUFFICES ASSUME Nat \ T # {} PROVE FALSE
  OBVIOUS
<1>1. PICK x \in Nat \ T : \A y \in Nat \ T : <<y, x>> \notin OpToRel(<, Nat)
  BY NatLessThanWellFounded, WFMin
<1>2. \A y \in Nat \ T : ~(y < x)
  BY <1>1 DEF OpToRel
<1>3. x # 0
  OBVIOUS
<1>4. x - 1 \in Nat /\ x - 1 \in T
  BY <1>2, <1>3
<1> QED BY <1>4

LEMMA IdsAreFinite == ASSUME NEW S \in SUBSET Ids PROVE IsFiniteSet(S) /\ Cardinality(S) \in Nat
BY StoreAssumption, FS_Subset, FS_CardinalityType

\* To show something of every set of commands, take it for the set less any element.
LEMMA SubsetInduction ==
  ASSUME NEW T, {} \in T,
         \A S \in SUBSET Ids : S # {} /\ (\A x \in S : S \ {x} \in T) => S \in T
  PROVE  \A S \in SUBSET Ids : S \in T
<1> DEFINE Shown == {n \in Nat : \A S \in SUBSET Ids : Cardinality(S) = n => S \in T}
<1>1. \A S \in SUBSET Ids : IsFiniteSet(S) /\ Cardinality(S) \in Nat
  BY IdsAreFinite
<1>2. 0 \in Shown
  BY <1>1, FS_EmptySet
<1>3. \A n \in Nat : n \in Shown => n + 1 \in Shown
  <2> SUFFICES ASSUME NEW n \in Nat, n \in Shown, NEW S \in SUBSET Ids, Cardinality(S) = n + 1
               PROVE  S \in T
    OBVIOUS
  <2>1. S # {}
    <3>1. Cardinality(S) # 0
      OBVIOUS
    <3> QED BY <3>1, FS_EmptySet
  <2>2. \A x \in S : Cardinality(S \ {x}) = n
    <3> SUFFICES ASSUME NEW x \in S PROVE Cardinality(S \ {x}) = n
      OBVIOUS
    <3>1. Cardinality(S \ {x}) = Cardinality(S) - 1
      BY <1>1, FS_RemoveElement
    <3> QED BY <3>1
  <2>3. \A x \in S : S \ {x} \in T
    BY <2>2
  <2> QED BY <2>1, <2>3
<1> HIDE DEF Shown
<1>4. Nat \subseteq Shown
  BY <1>2, <1>3, NatInductionOnSets
<1> QED BY <1>1, <1>4 DEF Shown

Pick(S) == CHOOSE x \in S : TRUE
SumStep(g, S, size) == IF S = {} THEN 0 ELSE size[Pick(S)] + g[S \ {Pick(S)}]
IsSum(g, U, size) == g = [S \in SUBSET U |-> SumStep(g, S, size)]
Sizes == [Ids -> Nat]

LEMMA TotalUnfolds ==
  ASSUME NEW S, NEW size
  PROVE  Total(size, S) = (CHOOSE g : IsSum(g, S, size))[S]
BY DEF Total, MapThenSumSet, MapThenFoldSet, IsSum, SumStep, Pick

LEMMA PickIn == ASSUME NEW S, S # {} PROVE Pick(S) \in S
BY DEF Pick

LEMMA SumExists ==
  ASSUME NEW U \in SUBSET Ids, NEW size \in Sizes
  PROVE  \E g \in [SUBSET U -> Nat] : IsSum(g, U, size)
<1> DEFINE UpTo(g, n) == \A S \in SUBSET U : Cardinality(S) <= n => g[S] = SumStep(g, S, size)
           Shown == {n \in Nat : \E g \in [SUBSET U -> Nat] : UpTo(g, n)}
<1>1. \A S \in SUBSET U : IsFiniteSet(S) /\ Cardinality(S) \in Nat
  BY IdsAreFinite
<1>2. 0 \in Shown
  <2> DEFINE g == [S \in SUBSET U |-> 0]
  <2>1. UpTo(g, 0)
    BY <1>1, FS_EmptySet DEF SumStep
  <2> QED BY <2>1
<1>3. \A n \in Nat : n \in Shown => n + 1 \in Shown
  <2> SUFFICES ASSUME NEW n \in Nat, n \in Shown PROVE n + 1 \in Shown
    OBVIOUS
  <2>1. PICK g \in [SUBSET U -> Nat] : UpTo(g, n)
    OBVIOUS
  <2> DEFINE h == [S \in SUBSET U |-> IF Cardinality(S) <= n THEN g[S] ELSE SumStep(g, S, size)]
  <2>2. ASSUME NEW S \in SUBSET U, S # {}
        PROVE  /\ Pick(S) \in U /\ S \ {Pick(S)} \in SUBSET U
               /\ Cardinality(S \ {Pick(S)}) = Cardinality(S) - 1
    BY <2>2, <1>1, PickIn, FS_RemoveElement
  <2>3. \A S \in SUBSET U : SumStep(g, S, size) \in Nat
    <3> SUFFICES ASSUME NEW S \in SUBSET U, S # {} PROVE SumStep(g, S, size) \in Nat
      BY DEF SumStep
    <3>1. size[Pick(S)] \in Nat /\ g[S \ {Pick(S)}] \in Nat
      BY <2>2 DEF Sizes
    <3> QED BY <3>1 DEF SumStep
  <2>4. h \in [SUBSET U -> Nat]
    BY <2>3
  <2>5. UpTo(h, n + 1)
    <3> SUFFICES ASSUME NEW S \in SUBSET U, Cardinality(S) <= n + 1
                 PROVE  h[S] = SumStep(h, S, size)
      OBVIOUS
    <3>1. h[S] = SumStep(g, S, size)
      BY <2>1
    <3>2. CASE S = {}
      BY <3>1, <3>2 DEF SumStep
    <3>3. CASE S # {}
      <4>1. h[S \ {Pick(S)}] = g[S \ {Pick(S)}]
        BY <1>1, <2>2, <3>3
      <4> QED BY <3>1, <3>3, <4>1 DEF SumStep
    <3> QED BY <3>2, <3>3
  <2> HIDE DEF h
  <2>6. \E f \in [SUBSET U -> Nat] : UpTo(f, n + 1)
    BY <2>4, <2>5
  <2> QED BY <2>6
<1> HIDE DEF Shown
<1>4. Nat \subseteq Shown
  BY <1>2, <1>3, NatInductionOnSets
<1>5. Cardinality(U) \in Shown
  BY <1>1, <1>4
<1>6. PICK g \in [SUBSET U -> Nat] : UpTo(g, Cardinality(U))
  BY <1>5 DEF Shown
<1>7. \A S \in SUBSET U : g[S] = SumStep(g, S, size)
  BY <1>1, <1>6, FS_Subset
<1>8. IsSum(g, U, size)
  BY <1>7 DEF IsSum
<1> QED BY <1>8

LEMMA SumUnique ==
  ASSUME NEW U, NEW V \in SUBSET Ids, U \subseteq V, NEW size,
         NEW g, IsSum(g, U, size), NEW h, IsSum(h, V, size)
  PROVE  \A S \in SUBSET U : g[S] = h[S]
<1> DEFINE T == {S \in SUBSET Ids : S \subseteq U => g[S] = h[S]}
<1>1. \A S \in SUBSET U : g[S] = SumStep(g, S, size) /\ h[S] = SumStep(h, S, size)
  <2>1. g = [S \in SUBSET U |-> SumStep(g, S, size)] /\ h = [S \in SUBSET V |-> SumStep(h, S, size)]
    BY DEF IsSum
  <2> QED BY <2>1
<1>2. {} \in T
  BY <1>1 DEF SumStep
<1>3. \A S \in SUBSET Ids : S # {} /\ (\A x \in S : S \ {x} \in T) => S \in T
  BY <1>1, PickIn DEF SumStep
<1> HIDE DEF T
<1>4. \A S \in SUBSET Ids : S \in T
  BY <1>2, <1>3, SubsetInduction
<1> QED BY <1>4 DEF T

\* The sums of the subsets of a set are one function.
LEMMA TotalIsSum ==
  ASSUME NEW U \in SUBSET Ids, NEW size \in Sizes, NEW g, IsSum(g, U, size), NEW S \in SUBSET U
  PROVE  Total(size, S) = g[S]
<1>1. \E h : IsSum(h, S, size)
  BY SumExists
<1>2. IsSum(CHOOSE h : IsSum(h, S, size), S, size)
  BY <1>1
<1>3. (CHOOSE h : IsSum(h, S, size))[S] = g[S]
  BY <1>2, SumUnique
<1> QED BY <1>3, TotalUnfolds

LEMMA TotalSteps ==
  ASSUME NEW S \in SUBSET Ids, NEW size \in Sizes
  PROVE  /\ Total(size, S) \in Nat
         /\ S = {} => Total(size, S) = 0
         /\ \A x \in S : Total(size, S) = size[x] + Total(size, S \ {x})
<1>1. PICK g \in [SUBSET S -> Nat] : IsSum(g, S, size)
  BY SumExists
<1>2. \A R \in SUBSET S : g[R] = SumStep(g, R, size)
  <2>1. g = [R \in SUBSET S |-> SumStep(g, R, size)]
    BY <1>1 DEF IsSum
  <2> QED BY <2>1
<1>3. \A R \in SUBSET S : Total(size, R) = g[R]
  BY <1>1, TotalIsSum
<1> DEFINE T == {R \in SUBSET Ids : R \subseteq S => \A x \in R : g[R] = size[x] + g[R \ {x}]}
<1>4. {} \in T
  OBVIOUS
<1>5. ASSUME NEW R \in SUBSET Ids, R # {}, \A x \in R : R \ {x} \in T
      PROVE  R \in T
  <2> SUFFICES ASSUME R \subseteq S, NEW x \in R PROVE g[R] = size[x] + g[R \ {x}]
    OBVIOUS
  <2> DEFINE p == Pick(R)
  <2>1. p \in R /\ g[R] = size[p] + g[R \ {p}]
    BY <1>2, <1>5, PickIn DEF SumStep
  <2> HIDE DEF p
  <2>2. CASE p = x
    BY <2>1, <2>2
  <2>3. CASE p # x
    <3>1. g[R \ {p}] = size[x] + g[(R \ {p}) \ {x}]
      BY <1>5, <2>1, <2>3
    <3>2. g[R \ {x}] = size[p] + g[(R \ {x}) \ {p}]
      BY <1>5, <2>1, <2>3
    <3>3. (R \ {p}) \ {x} = (R \ {x}) \ {p}
      OBVIOUS
    <3>4. g[(R \ {x}) \ {p}] \in Nat /\ size[x] \in Nat /\ size[p] \in Nat
      BY <1>1, <2>1 DEF Sizes
    <3>5. g[R] = size[p] + (size[x] + g[(R \ {x}) \ {p}])
      BY <2>1, <3>1, <3>3
    <3> QED BY <3>2, <3>4, <3>5
  <2> QED BY <2>2, <2>3
<1> HIDE DEF T
<1>6. \A R \in SUBSET Ids : R \in T
  BY <1>4, <1>5, SubsetInduction
<1>7. \A x \in S : g[S] = size[x] + g[S \ {x}]
  BY <1>6 DEF T
<1>8. S = {} => g[S] = 0
  BY <1>2 DEF SumStep
<1> QED BY <1>1, <1>3, <1>7, <1>8

LEMMA TotalIsMonotone ==
  ASSUME NEW S \in SUBSET Ids, NEW f \in Sizes, NEW g \in Sizes, \A i \in S : f[i] <= g[i]
  PROVE  Total(f, S) <= Total(g, S)
<1> DEFINE T == {R \in SUBSET Ids : R \subseteq S => Total(f, R) <= Total(g, R)}
<1>1. {} \in T
  BY TotalSteps
<1>2. ASSUME NEW R \in SUBSET Ids, R # {}, \A x \in R : R \ {x} \in T
      PROVE  R \in T
  <2> SUFFICES ASSUME R \subseteq S PROVE Total(f, R) <= Total(g, R)
    OBVIOUS
  <2>1. PICK x \in R : TRUE
    BY <1>2
  <2>2. /\ Total(f, R) = f[x] + Total(f, R \ {x})
        /\ Total(g, R) = g[x] + Total(g, R \ {x})
        /\ Total(f, R \ {x}) \in Nat /\ Total(g, R \ {x}) \in Nat
    BY TotalSteps
  <2>3. Total(f, R \ {x}) <= Total(g, R \ {x})
    BY <1>2
  <2>4. f[x] \in Nat /\ g[x] \in Nat /\ f[x] <= g[x]
    BY DEF Sizes
  <2> QED BY <2>2, <2>3, <2>4
<1> HIDE DEF T
<1>3. \A R \in SUBSET Ids : R \in T
  BY <1>1, <1>2, SubsetInduction
<1> QED BY <1>3 DEF T

LEMMA TotalsAgree ==
  ASSUME NEW S \in SUBSET Ids, NEW f \in Sizes, NEW g \in Sizes, \A i \in S : f[i] = g[i]
  PROVE  Total(f, S) = Total(g, S)
<1>1. \A i \in S : f[i] <= g[i] /\ g[i] <= f[i]
  BY DEF Sizes
<1>2. Total(f, S) <= Total(g, S) /\ Total(g, S) <= Total(f, S)
  BY <1>1, TotalIsMonotone
<1>3. Total(f, S) \in Nat /\ Total(g, S) \in Nat
  BY TotalSteps
<1> QED BY <1>2, <1>3

LEMMA TotalChanges ==
  ASSUME NEW i \in Ids, NEW f \in Sizes, NEW g \in Sizes, \A j \in Ids \ {i} : g[j] = f[j]
  PROVE  Total(g, Ids) = Total(f, Ids) - f[i] + g[i]
<1>1. Total(g, Ids) = g[i] + Total(g, Ids \ {i}) /\ Total(f, Ids) = f[i] + Total(f, Ids \ {i})
  BY TotalSteps
<1>2. Total(g, Ids \ {i}) = Total(f, Ids \ {i}) /\ Total(f, Ids \ {i}) \in Nat
  BY TotalsAgree, TotalSteps
<1>3. f[i] \in Nat /\ g[i] \in Nat
  BY DEF Sizes
<1> QED BY <1>1, <1>2, <1>3

LEMMA TotalOfPart ==
  ASSUME NEW S \in SUBSET Ids, NEW f \in Sizes, \A i \in Ids \ S : f[i] = 0
  PROVE  Total(f, Ids) = Total(f, S)
<1> DEFINE T == {R \in SUBSET Ids : R \subseteq Ids \ S => Total(f, S \cup R) = Total(f, S)}
<1>1. {} \in T
  <2>1. S \cup {} = S
    OBVIOUS
  <2> QED BY <2>1
<1>2. ASSUME NEW R \in SUBSET Ids, R # {}, \A x \in R : R \ {x} \in T
      PROVE  R \in T
  <2> SUFFICES ASSUME R \subseteq Ids \ S PROVE Total(f, S \cup R) = Total(f, S)
    OBVIOUS
  <2>1. PICK x \in R : TRUE
    BY <1>2
  <2>2. (S \cup R) \ {x} = S \cup (R \ {x}) /\ x \in S \cup R /\ S \cup R \in SUBSET Ids
    BY <2>1
  <2>3. Total(f, S \cup R) = f[x] + Total(f, (S \cup R) \ {x})
    BY <2>2, TotalSteps
  <2>4. Total(f, S \cup (R \ {x})) = Total(f, S)
    BY <1>2
  <2>5. f[x] = 0 /\ Total(f, S) \in Nat
    BY TotalSteps
  <2> QED BY <2>2, <2>3, <2>4, <2>5
<1> HIDE DEF T
<1>3. \A R \in SUBSET Ids : R \in T
  BY <1>1, <1>2, SubsetInduction
<1>4. Total(f, S \cup (Ids \ S)) = Total(f, S)
  BY <1>3 DEF T
<1>5. S \cup (Ids \ S) = Ids
  OBVIOUS
<1> QED BY <1>4, <1>5

-----------------------------------------------------------------------------
(* Runs of offsets, and least and greatest elements.                          *)

LEMMA OffsetsTyped ==
  ASSUME NEW from \in Nat, NEW n \in Nat
  PROVE  Offsets(from, n) \in Seq(Nat) /\ Len(Offsets(from, n)) = n
BY DEF Offsets

LEMMA OffsetsWithin ==
  ASSUME NEW from \in Nat, NEW n \in Nat, NEW m \in Nat, from + n <= m
  PROVE  Offsets(from, n) \in Seq(1..m)
<1>1. \A k \in 1..n : from + k \in 1..m
  OBVIOUS
<1> QED BY <1>1 DEF Offsets

LEMMA NoOffsets == ASSUME NEW from \in Nat PROVE Offsets(from, 0) = <<>>
BY DEF Offsets

LEMMA Joined ==
  ASSUME NEW S, NEW p \in Seq(S), NEW q \in Seq(S)
  PROVE  /\ p \o q \in Seq(S) /\ Len(p \o q) = Len(p) + Len(q)
         /\ \A k \in 1..(Len(p) + Len(q)) : (p \o q)[k] = IF k <= Len(p) THEN p[k] ELSE q[k - Len(p)]
OBVIOUS

LEMMA Shortened ==
  ASSUME NEW S, NEW p \in Seq(S), NEW m \in 0..Len(p)
  PROVE  /\ SubSeq(p, 1, m) \in Seq(S) /\ Len(SubSeq(p, 1, m)) = m
         /\ \A k \in 1..m : SubSeq(p, 1, m)[k] = p[k]
OBVIOUS

LEMMA OffsetsJoin ==
  ASSUME NEW from \in Nat, NEW m \in Nat, NEW n \in Nat
  PROVE  Offsets(from, m) \o Offsets(from + m, n) = Offsets(from, m + n)
<1> DEFINE p == Offsets(from, m)
           q == Offsets(from + m, n)
           t == Offsets(from, m + n)
<1>1. p \in Seq(Nat) /\ Len(p) = m /\ q \in Seq(Nat) /\ Len(q) = n /\ t \in Seq(Nat) /\ Len(t) = m + n
  <2>1. from + m \in Nat /\ m + n \in Nat
    OBVIOUS
  <2> QED BY <2>1, OffsetsTyped
<1>2. /\ \A k \in 1..m : p[k] = from + k
      /\ \A k \in 1..n : q[k] = from + m + k
      /\ \A k \in 1..(m + n) : t[k] = from + k
  BY DEF Offsets
<1> HIDE DEF p, q, t
<1>3. p \o q \in Seq(Nat) /\ Len(p \o q) = m + n
  BY <1>1, Joined
<1>4. \A k \in 1..(m + n) : (p \o q)[k] = t[k]
  <2> SUFFICES ASSUME NEW k \in 1..(m + n) PROVE (p \o q)[k] = t[k]
    OBVIOUS
  <2>1. (p \o q)[k] = IF k <= m THEN p[k] ELSE q[k - m]
    BY <1>1, Joined
  <2> QED BY <1>2, <2>1
<1>5. p \o q = t
  <2> DEFINE r == p \o q
  <2>1. r \in Seq(Nat) /\ Len(r) = m + n /\ \A k \in 1..(m + n) : r[k] = t[k]
    BY <1>3, <1>4
  <2> HIDE DEF r
  <2>2. r = t
    BY <1>1, <2>1
  <2> QED BY <2>2 DEF r
<1> QED BY <1>5 DEF p, q, t

LEMMA OffsetsPart ==
  ASSUME NEW from \in Nat, NEW n \in Nat, NEW m \in 0..n
  PROVE  SubSeq(Offsets(from, n), 1, m) = Offsets(from, m)
<1> DEFINE s == SubSeq(Offsets(from, n), 1, m)
           t == Offsets(from, m)
<1>1. s \in Seq(Nat) /\ Len(s) = m /\ \A k \in 1..m : s[k] = Offsets(from, n)[k]
  BY OffsetsTyped, Shortened
<1>2. t \in Seq(Nat) /\ Len(t) = m
  BY OffsetsTyped
<1>3. \A k \in 1..m : s[k] = t[k]
  BY <1>1 DEF Offsets
<1> HIDE DEF s, t
<1>4. s = t
  BY <1>1, <1>2, <1>3
<1> QED BY <1>4 DEF s, t

LEMMA EmptyOrNot == ASSUME NEW S, NEW s \in Seq(S) PROVE Len(s) \in Nat /\ (Len(s) = 0 <=> s = <<>>)
OBVIOUS

LEMMA LeastNumber ==
  ASSUME NEW S \in SUBSET Nat, S # {}
  PROVE  \E m \in S : \A n \in S : m <= n
<1>1. PICK x \in S : \A y \in S : <<y, x>> \notin OpToRel(<, Nat)
  BY NatLessThanWellFounded, WFMin
<1>2. \A y \in S : ~(y < x)
  BY <1>1 DEF OpToRel
<1>3. \A y \in S : x <= y
  BY <1>2
<1> QED BY <1>3

LEMMA OldestIsIn ==
  ASSUME NEW S, S # {}, \A i \in S : entries[i].seq \in Nat
  PROVE  OldestOf(S) \in S
<1> DEFINE T == {entries[i].seq : i \in S}
<1>1. \E m \in T : \A n \in T : m <= n
  BY LeastNumber
<1>2. \E i \in S : \A j \in S : entries[i].seq <= entries[j].seq
  BY <1>1
<1> QED BY <1>2 DEF OldestOf

\* The greatest of finitely many numbers, for the sequence counter of a restart.
LEMMA GreatestNumber ==
  ASSUME NEW S \in SUBSET Ids, NEW f, \A i \in S : f[i] \in Nat
  PROVE  Max({0} \cup {f[i] : i \in S}) \in Nat
<1> DEFINE With(R) == {0} \cup {f[i] : i \in R}
           T == {R \in SUBSET Ids : R \subseteq S => \E m \in With(R) : \A n \in With(R) : m >= n}
<1>1. {} \in T
  OBVIOUS
<1>2. ASSUME NEW R \in SUBSET Ids, R # {}, \A x \in R : R \ {x} \in T
      PROVE  R \in T
  <2> SUFFICES ASSUME R \subseteq S PROVE \E m \in With(R) : \A n \in With(R) : m >= n
    OBVIOUS
  <2>1. PICK x \in R : TRUE
    BY <1>2
  <2>2. PICK m \in With(R \ {x}) : \A n \in With(R \ {x}) : m >= n
    BY <1>2
  <2>3. With(R) = With(R \ {x}) \cup {f[x]} /\ With(R) \subseteq Nat
    OBVIOUS
  <2> HIDE DEF With
  <2>4. m \in Nat /\ f[x] \in Nat
    BY <2>3
  <2>5. CASE m >= f[x]
    BY <2>2, <2>3, <2>5
  <2>6. CASE f[x] >= m
    <3>1. \A n \in With(R) : f[x] >= n
      BY <2>2, <2>3, <2>4, <2>6
    <3> QED BY <2>3, <3>1
  <2> QED BY <2>4, <2>5, <2>6
<1>3. With(S) \subseteq Nat
  OBVIOUS
<1> HIDE DEF T
<1>4. \A R \in SUBSET Ids : R \in T
  BY <1>1, <1>2, SubsetInduction
<1>5. \E m \in With(S) : \A n \in With(S) : m >= n
  BY <1>4 DEF T
<1>6. Max(With(S)) \in With(S)
  BY <1>5 DEF Max
<1> QED BY <1>3, <1>6

-----------------------------------------------------------------------------
(* Types of the parts, and what a step leaves alone.                          *)

LEMMA EntryFields ==
  ASSUME NEW e \in Entry
  PROVE  /\ e # Nothing /\ e.seq \in Nat /\ e.state \in {"running", "ended", "unknown"}
         /\ e.truncated \in BOOLEAN /\ e.metaBytes \in 0..MaxMeta /\ e.logBytes \in Nat
         /\ e.reserved \in 0..MaxLog /\ e.pending \in Seq(Nat)
         /\ e.queued \in BOOLEAN /\ e.accepting \in BOOLEAN /\ e.writeFailed \in BOOLEAN
<1>1. e # Nothing
  BY NothingAssumption
<1> QED BY <1>1 DEF Entry

LEMMA EntryIn ==
  ASSUME Typed, NEW i \in Ids, entries[i] # Nothing PROVE entries[i] \in Entry
BY DEF Typed

LEMMA LogIn ==
  ASSUME Typed, NEW i \in Ids, log[i] # Nothing
  PROVE  log[i] \in Seq(Nat) /\ Len(log[i]) \in Nat
BY DEF Typed

LEMMA TextFields ==
  ASSUME NEW t \in Text
  PROVE  /\ t # Nothing /\ t.seq \in Nat /\ t.state \in {"running", "ended"} /\ t.truncated \in BOOLEAN
         /\ t.captured \in Nat /\ t.size \in 1..MaxMeta
<1>1. t # Nothing
  BY NothingAssumption
<1> QED BY <1>1 DEF Text

LEMMA CurFields ==
  ASSUME Typed
  PROVE  /\ cur.op \in {"none", "start", "append", "finish", "clear"} /\ cur.id \in Ids \cup {Nothing}
         /\ cur.at \in {"idle", "room", "create", "write", "sync", "save_room", "write_tmp", "rename", "clear",
                        "unlink_log", "unlink_json"}
         /\ cur.back \in {"idle", "room", "save_room", "clear"} /\ cur.victim \in Ids \cup {Nothing}
         /\ cur.chunk \in Seq(Nat) /\ cur.text \in Text \cup {Nothing}
BY DEF Typed, CurType

LEMMA Limits ==
  /\ MaxRecords \in Nat \ {0} /\ MaxTotal \in Nat \ {0} /\ MaxLog \in Nat \ {0} /\ MaxPending \in Nat \ {0}
  /\ MaxMeta \in Nat \ {0} /\ MaxPrinted \in Nat /\ Captured \subseteq Ids /\ Nothing \notin Ids
BY StoreAssumption, NothingAssumption

\* A command of which the step changes nothing, and which it finds in the same way at work.
Same(j) == /\ life'[j] = life[j] /\ printed'[j] = printed[j] /\ entries'[j] = entries[j]
           /\ (j \in active') = (j \in active)
           /\ json'[j] = json[j] /\ tmp'[j] = tmp[j] /\ log'[j] = log[j] /\ synced'[j] = synced[j]
SameView(j) ==
  /\ OpOn(j)' = OpOn(j) /\ ChunkOn(j)' = ChunkOn(j)
  /\ \/ PlaceOn(j)' = PlaceOn(j)
     \/ /\ PlaceOn(j) \notin {"create", "sync"} /\ PlaceOn(j)' \notin {"create", "sync"}
        /\ OpOn(j) = "start" => PlaceOn(j) # "room" /\ PlaceOn(j)' # "room"
SameTmp(j) == tmp[j] # Nothing => cur'.id = j /\ cur'.at = "rename" /\ tmp[j] = cur'.text

LEMMA Untouched ==
  ASSUME Sound, NEW j \in Ids, phase # "down", phase' = "ready" => phase = "ready",
         Same(j), SameView(j), SameTmp(j)
  PROVE  Disk(j)' /\ Record(j)'
<1>1. Disk(j) /\ Record(j)
  BY DEF Sound
<1>2. Disk(j)'
  BY <1>1 DEF Disk, Same, Claims, Bytes
<1>3. Forgotten(j) => Forgotten(j)'
  BY DEF Forgotten, Same, SameView
<1>4. ASSUME NEW e, entries[j] = e, Remembered(j, e) PROVE Remembered(j, e)'
  <2>1. Accounts(j, e)' = Accounts(j, e)
    BY DEF Accounts, Same, TextBytes
  <2>2. Stream(j, e) => Stream(j, e)'
    BY DEF Stream, Same, SameView
  <2>3. Capturing(j, e) => Capturing(j, e)'
    BY <2>2 DEF Capturing, Same, SameView
  <2>4. Resting(e)' = Resting(e)
    BY DEF Resting
  <2> QED BY <1>4, <2>1, <2>3, <2>4 DEF Remembered, Same, SameView
<1>5. ASSUME NEW e, entries[j] = e, Working(j, e) PROVE Working(j, e)'
  BY <1>5 DEF Working, Same, SameView, Resting
<1>6. Record(j)'
  BY <1>1, <1>3, <1>4, <1>5 DEF Record, Same, SameView, SameTmp
<1> QED BY <1>2, <1>6

-----------------------------------------------------------------------------
(* The queue.                                                                 *)

LEMMA TailQueue ==
  ASSUME NEW q \in Seq(Job), q # <<>>, Ordered(q)
  PROVE  /\ Tail(q) \in Seq(Job) /\ Head(q) \in Job /\ Ordered(Tail(q)) /\ InQueue(q, Head(q).op, Head(q).id)
         /\ \A k \in DOMAIN Tail(q) : \E l \in DOMAIN q : Tail(q)[k] = q[l]
         /\ \A op, i : InQueue(q, op, i) => InQueue(Tail(q), op, i) \/ (Head(q).op = op /\ Head(q).id = i)
         /\ Head(q).op \in {"start", "append"} => ~InQueue(Tail(q), Head(q).op, Head(q).id)
         /\ Head(q).op = "finish" => /\ ~InQueue(Tail(q), "append", Head(q).id)
                                     /\ ~InQueue(Tail(q), "finish", Head(q).id)
<1> DEFINE t == Tail(q)
<1>1. PICK n \in Nat : Len(q) = n + 1
  <2>1. Len(q) \in Nat \ {0}
    BY EmptyOrNot
  <2>2. Len(q) = (Len(q) - 1) + 1 /\ Len(q) - 1 \in Nat
    BY <2>1
  <2> QED BY <2>2
<1>2. t \in Seq(Job) /\ DOMAIN t = 1..n /\ DOMAIN q = 1..(n + 1) /\ \A k \in 1..n : t[k] = q[k + 1]
  BY <1>1
<1>3. Head(q) = q[1] /\ q[1] \in Job
  BY <1>1
<1> HIDE DEF t
<1>4. Ordered(t)
  <2> SUFFICES ASSUME NEW k \in 1..n, NEW l \in 1..n, k < l, t[k].id = t[l].id
               PROVE  /\ t[k].op \in {"start", "append"} => t[l].op # t[k].op
                      /\ t[k].op = "finish" => t[l].op \notin {"append", "finish"}
    BY <1>2 DEF Ordered
  <2>1. k + 1 \in DOMAIN q /\ l + 1 \in DOMAIN q /\ k + 1 < l + 1 /\ t[k] = q[k + 1] /\ t[l] = q[l + 1]
    BY <1>2
  <2> QED BY <2>1 DEF Ordered
<1>5. \A k \in DOMAIN t : k + 1 \in DOMAIN q /\ t[k] = q[k + 1] /\ 1 \in DOMAIN q /\ 1 < k + 1
  BY <1>2
<1>6. ASSUME NEW op, NEW i, InQueue(q, op, i)
      PROVE  InQueue(t, op, i) \/ (Head(q).op = op /\ Head(q).id = i)
  <2>1. PICK k \in 1..(n + 1) : q[k].op = op /\ q[k].id = i
    BY <1>2, <1>6 DEF InQueue
  <2>2. CASE k = 1
    BY <1>3, <2>1, <2>2
  <2>3. CASE k # 1
    <3>1. k - 1 \in DOMAIN t /\ t[k - 1] = q[(k - 1) + 1] /\ (k - 1) + 1 = k
      BY <1>2, <2>3
    <3> QED BY <2>1, <3>1 DEF InQueue
  <2> QED BY <2>2, <2>3
<1>7. Head(q).op \in {"start", "append"} => ~InQueue(t, Head(q).op, Head(q).id)
  BY <1>3, <1>5 DEF InQueue, Ordered
<1>8. Head(q).op = "finish" => ~InQueue(t, "append", Head(q).id) /\ ~InQueue(t, "finish", Head(q).id)
  BY <1>3, <1>5 DEF InQueue, Ordered
<1>9. InQueue(q, Head(q).op, Head(q).id)
  BY <1>2, <1>3 DEF InQueue
<1> QED BY <1>2, <1>3, <1>4, <1>5, <1>6, <1>7, <1>8, <1>9 DEF t

LEMMA AppendQueue ==
  ASSUME NEW q \in Seq(Job), Ordered(q), NEW job \in Job,
         job.op \in {"start", "append", "finish"} => ~InQueue(q, job.op, job.id),
         job.op = "append" => ~InQueue(q, "finish", job.id)
  PROVE  /\ Append(q, job) \in Seq(Job) /\ Ordered(Append(q, job))
         /\ \A k \in DOMAIN Append(q, job) : Append(q, job)[k] = job \/ \E l \in DOMAIN q : Append(q, job)[k] = q[l]
         /\ \A op, i : InQueue(Append(q, job), op, i) <=> InQueue(q, op, i) \/ (job.op = op /\ job.id = i)
<1> DEFINE t == Append(q, job)
<1>1. PICK n \in Nat : Len(q) = n
  BY EmptyOrNot
<1>2. t \in Seq(Job) /\ DOMAIN t = 1..(n + 1) /\ DOMAIN q = 1..n /\ t[n + 1] = job /\ \A k \in 1..n : t[k] = q[k]
  BY <1>1
<1> HIDE DEF t
<1>3. Ordered(t)
  <2> SUFFICES ASSUME NEW k \in 1..(n + 1), NEW l \in 1..(n + 1), k < l, t[k].id = t[l].id
               PROVE  /\ t[k].op \in {"start", "append"} => t[l].op # t[k].op
                      /\ t[k].op = "finish" => t[l].op \notin {"append", "finish"}
    BY <1>2 DEF Ordered
  <2>1. k \in DOMAIN q /\ t[k] = q[k]
    BY <1>2
  <2>2. CASE l \in 1..n
    BY <1>2, <2>1, <2>2 DEF Ordered
  <2>3. CASE l = n + 1
    <3>1. InQueue(q, t[k].op, job.id)
      BY <1>2, <2>1, <2>3 DEF InQueue
    <3> QED BY <1>2, <2>3, <3>1
  <2> QED BY <2>2, <2>3
<1>4. \A k \in DOMAIN t : t[k] = job \/ (k \in DOMAIN q /\ t[k] = q[k])
  BY <1>2
<1>5. ASSUME NEW op, NEW i PROVE InQueue(t, op, i) <=> InQueue(q, op, i) \/ (job.op = op /\ job.id = i)
  <2>1. n + 1 \in DOMAIN t /\ \A k \in DOMAIN q : k \in DOMAIN t /\ t[k] = q[k]
    BY <1>2
  <2> QED BY <1>2, <1>4, <2>1 DEF InQueue
<1> QED BY <1>2, <1>3, <1>4, <1>5 DEF t

\* The jobs of the commands a step does not touch stay in order; i is the one it touches, if any.
LEMMA QueueStep ==
  ASSUME Typed, QueueOK, active' \subseteq Ids, NEW i \in Ids \cup {Nothing},
         \A j \in Ids \ {i} : Same(j) /\ OpOn(j)' = OpOn(j),
         \A k \in DOMAIN queue' : \/ \E l \in DOMAIN queue : queue'[k] = queue[l]
                                  \/ JobOK(queue[k].op, queue[k].id)',
         \A op \in {"start", "append", "finish"} : InQueue(queue', op, i) /\ JobOK(op, i) => JobOK(op, i)',
         Ordered(queue'),
         \A j \in Ids \ {i} : InQueue(queue, "append", j) => InQueue(queue', "append", j),
         i \in Ids /\ entries'[i] # Nothing /\ entries'[i].queued => InQueue(queue', "append", i)
  PROVE  QueueOK'
<1>1. ASSUME NEW k \in DOMAIN queue' PROVE JobOK(queue[k].op, queue[k].id)'
  <2>1. CASE JobOK(queue[k].op, queue[k].id)'
    BY <2>1
  <2>2. CASE \E l \in DOMAIN queue : queue'[k] = queue[l]
    <3>0. PICK op, j : op = queue'[k].op /\ j = queue'[k].id
      OBVIOUS
    <3>1. JobOK(op, j)
      BY <2>2, <3>0 DEF QueueOK
    <3>2. CASE j = i /\ op \in {"start", "append", "finish"}
      <4>1. InQueue(queue', op, i)
        BY <3>0, <3>2 DEF InQueue
      <4>2. JobOK(op, j)'
        BY <3>1, <3>2, <4>1
      <4> QED BY <3>0, <4>2
    <3>3. CASE j \in Ids \ {i}
      <4>1. JobOK(op, j)'
        BY <3>1, <3>3 DEF JobOK, Same
      <4> QED BY <3>0, <4>1
    <3>4. CASE j \notin Ids \/ op \notin {"start", "append", "finish"}
      <4>1. JobOK(op, j)'
        BY <3>1, <3>4 DEF JobOK, Typed
      <4> QED BY <3>0, <4>1
    <3> QED BY <3>2, <3>3, <3>4
  <2> QED BY <2>1, <2>2
<1>2. ASSUME NEW j \in Ids, entries'[j] # Nothing, entries'[j].queued PROVE InQueue(queue', "append", j)
  <2>1. CASE j = i
    BY <1>2, <2>1
  <2>2. CASE j # i
    <3>1. entries'[j] = entries[j] /\ j \in Known
      BY <1>2, <2>2 DEF Same, Known
    <3> QED BY <1>2, <2>2, <3>1 DEF QueueOK
  <2> QED BY <2>1, <2>2
<1> QED BY <1>1, <1>2 DEF QueueOK, Known

-----------------------------------------------------------------------------
(* The accounts, and what holds of the commands a step does not touch.        *)

LEMMA SizesTyped ==
  ASSUME NEW en \in [Ids -> Entry \cup {Nothing}]
  PROVE  /\ [i \in Ids |-> IF en[i] = Nothing THEN 0 ELSE en[i].metaBytes + en[i].logBytes] \in Sizes
         /\ [i \in Ids |-> IF en[i] = Nothing THEN 0 ELSE Len(en[i].pending)] \in Sizes
<1> SUFFICES ASSUME NEW i \in Ids, en[i] # Nothing
             PROVE  en[i].metaBytes + en[i].logBytes \in Nat /\ Len(en[i].pending) \in Nat
  BY DEF Sizes
<1>1. en[i] \in Entry
  OBVIOUS
<1>2. en[i].metaBytes \in Nat /\ en[i].logBytes \in Nat /\ en[i].pending \in Seq(Nat)
  BY <1>1, EntryFields, Limits
<1> QED BY <1>2, EmptyOrNot

LEMMA BooksStep ==
  ASSUME Typed, Typed', NEW i \in Ids, \A j \in Ids \ {i} : entries'[j] = entries[j]
  PROVE  /\ Total(EntrySizes', Ids) = Total(EntrySizes, Ids) - EntrySizes[i] + EntrySizes'[i]
         /\ Total(PendingSizes', Ids) = Total(PendingSizes, Ids) - PendingSizes[i] + PendingSizes'[i]
         /\ Total(EntrySizes, Ids) \in Nat /\ EntrySizes[i] \in Nat /\ EntrySizes'[i] \in Nat
         /\ Total(PendingSizes, Ids) \in Nat /\ PendingSizes[i] \in Nat /\ PendingSizes'[i] \in Nat
         /\ Total(EntrySizes', Ids) \in Nat /\ Total(PendingSizes', Ids) \in Nat
<1>1. EntrySizes \in Sizes /\ PendingSizes \in Sizes
  BY SizesTyped DEF Typed, EntrySizes, PendingSizes
<1>2. EntrySizes' \in Sizes /\ PendingSizes' \in Sizes
  BY SizesTyped DEF Typed, EntrySizes, PendingSizes
<1>3. \A j \in Ids \ {i} : EntrySizes'[j] = EntrySizes[j] /\ PendingSizes'[j] = PendingSizes[j]
  BY DEF EntrySizes, PendingSizes
<1>4. Total(EntrySizes, Ids) \in Nat /\ Total(PendingSizes, Ids) \in Nat
      /\ Total(EntrySizes', Ids) \in Nat /\ Total(PendingSizes', Ids) \in Nat
  BY <1>1, <1>2, TotalSteps
<1>5. EntrySizes[i] \in Nat /\ EntrySizes'[i] \in Nat /\ PendingSizes[i] \in Nat /\ PendingSizes'[i] \in Nat
  BY <1>1, <1>2 DEF Sizes
<1> QED BY <1>1, <1>2, <1>3, <1>4, <1>5, TotalChanges

LEMMA BooksKept ==
  ASSUME Balance, Backlog, entries' = entries, bytes' = bytes, pendingBytes' = pendingBytes,
         bytes + Needs' <= MaxTotal, Unwritten' = Unwritten
  PROVE  Balance' /\ Backlog'
BY DEF Balance, Backlog, EntrySizes, PendingSizes, Known

LEMMA KnownIsFinite ==
  IsFiniteSet(Known) /\ Cardinality(Known) \in Nat /\ Known \subseteq Ids /\ \A i \in Known : i \in Ids
BY IdsAreFinite DEF Known

LEMMA NeedsTyped ==
  ASSUME Typed, CurOK PROVE Needs \in Nat
<1>1. cur.at \in {"write_tmp", "rename"} => cur.text.size \in 1..MaxMeta
  BY CurFields, TextFields DEF CurOK, Saving, Place, Evicting
<1>2. Len(cur.chunk) \in Nat
  BY CurFields, EmptyOrNot
<1> QED BY <1>1, <1>2, Limits DEF Needs

LEMMA ViewKept == ASSUME NEW j, cur' = cur PROVE SameView(j)
BY DEF SameView, OpOn, ChunkOn, PlaceOn, Place, Evicting

LEMMA ViewElsewhere == ASSUME NEW j, cur.id # j, cur'.id # j PROVE SameView(j)
BY DEF SameView, OpOn, ChunkOn, PlaceOn

LEMMA TmpKept == ASSUME Sound, phase # "down", NEW j \in Ids, cur' = cur PROVE SameTmp(j)
BY DEF SameTmp, Sound, Record

LEMMA TmpElsewhere == ASSUME Sound, phase # "down", NEW j \in Ids, cur.id # j \/ cur.at # "rename" PROVE SameTmp(j)
BY DEF SameTmp, Sound, Record

LEMMA SoundStep ==
  ASSUME Sound, phase # "down", phase' = "ready" => phase = "ready", NEW i \in Ids \cup {Nothing},
         \A j \in Ids \ {i} : Same(j) /\ SameView(j) /\ SameTmp(j),
         i \in Ids => Disk(i)' /\ Record(i)'
  PROVE  Sound'
BY Untouched DEF Sound

\* The same without a change of the queue.
LEMMA QueueKept ==
  ASSUME Typed, QueueOK, active' \subseteq Ids, NEW i \in Ids \cup {Nothing}, queue' = queue,
         \A j \in Ids \ {i} : Same(j) /\ OpOn(j)' = OpOn(j),
         \A op \in {"start", "append", "finish"} : InQueue(queue, op, i) /\ JobOK(op, i) => JobOK(op, i)',
         i \in Ids /\ entries'[i] # Nothing /\ entries'[i].queued => entries[i] # Nothing /\ entries[i].queued
  PROVE  QueueOK'
<1>1. \A k \in DOMAIN queue' : \E l \in DOMAIN queue : queue'[k] = queue[l]
  OBVIOUS
<1>2. i \in Ids /\ entries'[i] # Nothing /\ entries'[i].queued => InQueue(queue', "append", i)
  BY DEF QueueOK, Known
<1>3. Ordered(queue') /\ \A j \in Ids \ {i} : InQueue(queue, "append", j) => InQueue(queue', "append", j)
  BY DEF QueueOK
<1> QED BY <1>1, <1>2, <1>3, QueueStep

\* A job more: the last one in the queue.
LEMMA QueuePush ==
  ASSUME Typed, QueueOK, active' \subseteq Ids, NEW i \in Ids \cup {Nothing},
         NEW job \in Job, queue' = Append(queue, job), JobOK(job.op, job.id)',
         job.op \in {"start", "append", "finish"} => ~InQueue(queue, job.op, job.id),
         job.op = "append" => ~InQueue(queue, "finish", job.id),
         \A j \in Ids \ {i} : Same(j) /\ OpOn(j)' = OpOn(j),
         \A op \in {"start", "append", "finish"} : JobOK(op, i) => JobOK(op, i)',
         i \in Ids /\ entries'[i] # Nothing /\ entries'[i].queued
           => (entries[i] # Nothing /\ entries[i].queued) \/ (job.op = "append" /\ job.id = i)
  PROVE  queue' \in Seq(Job) /\ QueueOK'
<1>1. /\ queue' \in Seq(Job) /\ Ordered(queue')
      /\ \A k \in DOMAIN queue' : queue'[k] = job \/ \E l \in DOMAIN queue : queue'[k] = queue[l]
      /\ \A op, j : InQueue(queue', op, j) <=> InQueue(queue, op, j) \/ (job.op = op /\ job.id = j)
  BY AppendQueue DEF QueueOK, Typed
<1>2. \A k \in DOMAIN queue' : \/ \E l \in DOMAIN queue : queue'[k] = queue[l]
                               \/ JobOK(queue[k].op, queue[k].id)'
  <2> SUFFICES ASSUME NEW k \in DOMAIN queue', queue'[k] = job PROVE JobOK(queue[k].op, queue[k].id)'
    BY <1>1
  <2> QED OBVIOUS
<1>3. i \in Ids /\ entries'[i] # Nothing /\ entries'[i].queued => InQueue(queue', "append", i)
  BY <1>1 DEF QueueOK, Known
<1>4. \A j \in Ids \ {i} : InQueue(queue, "append", j) => InQueue(queue', "append", j)
  BY <1>1
<1> QED BY <1>1, <1>2, <1>3, <1>4, QueueStep

\* A job less: the first one in the queue, of the command i if it is one to append.
LEMMA QueuePop ==
  ASSUME Typed, QueueOK, active' \subseteq Ids, NEW i \in Ids \cup {Nothing},
         queue # <<>>, queue' = Tail(queue), Head(queue).op = "append" => Head(queue).id = i,
         \A j \in Ids \ {i} : Same(j) /\ OpOn(j)' = OpOn(j),
         \A op \in {"start", "append", "finish"} : InQueue(Tail(queue), op, i) /\ JobOK(op, i) => JobOK(op, i)',
         i \in Ids /\ entries'[i] # Nothing /\ entries'[i].queued
           => entries[i] # Nothing /\ entries[i].queued /\ Head(queue).op # "append"
  PROVE  queue' \in Seq(Job) /\ QueueOK'
<1>1. /\ queue' \in Seq(Job) /\ Ordered(queue')
      /\ \A k \in DOMAIN queue' : \E l \in DOMAIN queue : queue'[k] = queue[l]
      /\ \A op, j : InQueue(queue, op, j)
                      => InQueue(queue', op, j) \/ (Head(queue).op = op /\ Head(queue).id = j)
  BY TailQueue DEF QueueOK, Typed
<1>2. i \in Ids /\ entries'[i] # Nothing /\ entries'[i].queued => InQueue(queue', "append", i)
  BY <1>1 DEF QueueOK, Known
<1>3. \A j \in Ids \ {i} : InQueue(queue, "append", j) => InQueue(queue', "append", j)
  BY <1>1
<1> QED BY <1>1, <1>2, <1>3, QueueStep

\* What is known of the command of the first job.
LEMMA HeadOK ==
  ASSUME Typed, QueueOK, queue # <<>>
  PROVE  /\ Head(queue) \in Job /\ JobOK(Head(queue).op, Head(queue).id)
         /\ Head(queue).op \in {"start", "append"} => ~InQueue(Tail(queue), Head(queue).op, Head(queue).id)
         /\ Head(queue).op = "finish" => /\ ~InQueue(Tail(queue), "append", Head(queue).id)
                                         /\ ~InQueue(Tail(queue), "finish", Head(queue).id)
         /\ \A op, i : InQueue(queue, op, i) => InQueue(Tail(queue), op, i) \/ (Head(queue).op = op /\ Head(queue).id = i)
<1>1. InQueue(queue, Head(queue).op, Head(queue).id)
  BY TailQueue DEF QueueOK, Typed
<1>2. JobOK(Head(queue).op, Head(queue).id)
  BY <1>1 DEF InQueue, QueueOK
<1> QED BY <1>2, TailQueue DEF QueueOK, Typed

LEMMA InQueueOK == ASSUME QueueOK, NEW op, NEW i, InQueue(queue, op, i) PROVE JobOK(op, i)
BY DEF QueueOK, InQueue

-----------------------------------------------------------------------------
(* Calls of the exec manager.                                                 *)

LEMMA CurKept ==
  ASSUME CurOK, cur' = cur, active' = active, log' = log,
         \A i \in Ids : (entries'[i] # Nothing) = (entries[i] # Nothing),
         Saving => TextOf(entries'[cur.id], cur.text.size) = TextOf(entries[cur.id], cur.text.size)
  PROVE  CurOK'
BY DEF CurOK, Saving, Place, Evicting, Known

LEMMA StartIInv == ASSUME IInv, NEW i \in Ids, Start(i) PROVE IInv'
<1> USE DEF IInv
<1>1. /\ life[i] = "unused" /\ phase # "down" /\ phase' = phase /\ cur' = cur
      /\ UNCHANGED <<printed, memory, disk>>
  BY DEF Start
<1>2. Disk(i) /\ Record(i) /\ entries[i] = Nothing /\ i \notin active /\ OpOn(i) = "none" /\ printed[i] = 0
  BY <1>1 DEF Sound, Record, Forgotten, Disk
<1>3. life' = [life EXCEPT ![i] = life'[i]] /\ life'[i] \in {"starting", "unarchived"}
      /\ (life'[i] = "starting" => queue' = Append(queue, [op |-> "start", id |-> i]))
      /\ (life'[i] = "unarchived" => queue' = queue)
  BY DEF Start, Enqueue, Typed
<1>4. \A j \in Ids \ {i} : Same(j) /\ SameView(j) /\ SameTmp(j) /\ OpOn(j)' = OpOn(j)
  <2> SUFFICES ASSUME NEW j \in Ids \ {i} PROVE Same(j) /\ SameView(j) /\ SameTmp(j) /\ OpOn(j)' = OpOn(j)
    OBVIOUS
  <2>1. Same(j)
    BY <1>1, <1>3 DEF Same, memory, disk, Typed
  <2> QED BY <1>1, <2>1, ViewKept, TmpKept DEF SameView
<1>5. Disk(i)' /\ Record(i)'
  <2>1. Disk(i)'
    BY <1>1, <1>2, <1>3 DEF Disk, Record, Forgotten, Claims, disk, Bytes
  <2>2. Record(i)'
    BY <1>1, <1>2, <1>3 DEF Record, Forgotten, OpOn, PlaceOn, Place, Evicting, memory, disk
  <2> QED BY <2>1, <2>2
<1>6. Sound'
  BY <1>1, <1>4, <1>5, SoundStep
<1>7. active' \subseteq Ids /\ entries'[i] = Nothing
  BY <1>1, <1>2 DEF memory, Typed
<1>8. queue' \in Seq(Job) /\ QueueOK'
  <2>1. \A op \in {"start", "append", "finish"} : ~JobOK(op, i)
    BY <1>1, <1>2 DEF JobOK
  <2>2. CASE life'[i] = "unarchived"
    <3>1. QueueOK'
      BY <1>3, <1>4, <1>7, <2>1, <2>2, QueueKept
    <3> QED BY <1>3, <2>2, <3>1 DEF Typed
  <2>3. CASE life'[i] = "starting"
    <3>1. PICK job : job = [op |-> "start", id |-> i]
      OBVIOUS
    <3>2. job \in Job /\ job.op = "start" /\ job.id = i /\ queue' = Append(queue, job)
      BY <1>3, <2>3, <3>1 DEF Job
    <3>3. JobOK("start", i)' /\ ~InQueue(queue, "start", i)
      BY <1>1, <1>2, <2>1, <2>3, InQueueOK DEF JobOK, memory, OpOn
    <3> QED BY <1>4, <1>7, <2>1, <3>2, <3>3, QueuePush
  <2> QED BY <1>3, <2>2, <2>3
<1>9. Typed'
  BY <1>1, <1>3, <1>8 DEF Typed, memory, disk, Lives
<1>10. CurOK' /\ Balance' /\ Backlog'
  <2>1. CurOK'
    BY <1>1, CurKept DEF memory, disk
  <2>2. Needs' = Needs /\ Unwritten' = Unwritten
    BY <1>1 DEF Needs, Unwritten
  <2>3. Balance' /\ Backlog'
    BY <1>1, <2>2, BooksKept DEF memory, Balance
  <2> QED BY <2>1, <2>3
<1>11. DownOK'
  BY <1>1 DEF DownOK
<1> QED BY <1>6, <1>8, <1>9, <1>10, <1>11

LEMMA FinishIInv == ASSUME IInv, NEW i \in Ids, Finish(i) PROVE IInv'
<1> USE DEF IInv
<1>1. /\ life[i] = "running" /\ phase # "down" /\ phase' = phase /\ cur' = cur
      /\ life' = [life EXCEPT ![i] = "finished"] /\ queue' = Append(queue, [op |-> "finish", id |-> i])
      /\ UNCHANGED <<printed, memory, disk>>
  BY DEF Finish, Enqueue
<1>2. life'[i] = "finished"
  BY <1>1 DEF Typed
<1>3. Disk(i) /\ Record(i) /\ i \in active /\ entries[i] # Nothing /\ OpOn(i) # "start"
  BY <1>1 DEF Sound, Record, Forgotten
<1>4. entries[i] \in Entry /\ Remembered(i, entries[i]) /\ Working(i, entries[i]) /\ OpOn(i) # "finish"
      /\ entries[i].state # "ended"
  BY <1>1, <1>3, EntryIn DEF Record, Remembered, Working
<1>5. \A j \in Ids \ {i} : Same(j) /\ SameView(j) /\ SameTmp(j) /\ OpOn(j)' = OpOn(j)
  <2> SUFFICES ASSUME NEW j \in Ids \ {i} PROVE Same(j) /\ SameView(j) /\ SameTmp(j) /\ OpOn(j)' = OpOn(j)
    OBVIOUS
  <2>1. Same(j)
    BY <1>1 DEF Same, memory, disk, Typed
  <2> QED BY <1>1, <2>1, ViewKept, TmpKept DEF SameView
<1>6. Disk(i)' /\ Record(i)'
  <2>1. Disk(i)'
    BY <1>1, <1>2, <1>3, <1>4 DEF Disk, Claims, disk, Bytes
  <2> DEFINE e == entries[i]
  <2>2. SameView(i) /\ entries'[i] = e /\ active' = active /\ json' = json /\ log' = log /\ tmp' = tmp
        /\ printed' = printed
    BY <1>1, ViewKept DEF memory, disk
  <2> HIDE DEF e
  <2>3. Accounts(i, entries[i])' /\ Resting(entries[i])' = Resting(entries[i])
        /\ (Capturing(i, entries[i]) => Capturing(i, entries[i])')
    BY <1>1, <1>4, <2>2 DEF e, Accounts, Remembered, Resting, Capturing, Stream, TextBytes, SameView
  <2>4. Remembered(i, entries[i])'
    BY <1>1, <1>2, <1>3, <1>4, <2>2, <2>3 DEF e, Remembered, SameView
  <2>5. Working(i, entries[i])'
    BY <1>3, <1>4, <2>2, <2>3 DEF e, Working, SameView
  <2>6. Record(i)'
    BY <1>1, <1>2, <1>3, <2>2, <2>4, <2>5 DEF e, Record, SameView
  <2> QED BY <2>1, <2>6
<1>7. Sound'
  BY <1>1, <1>5, <1>6, SoundStep
<1>8. queue' \in Seq(Job) /\ QueueOK'
  <2>1. PICK job : job = [op |-> "finish", id |-> i]
    OBVIOUS
  <2>2. job \in Job /\ job.op = "finish" /\ job.id = i /\ queue' = Append(queue, job)
    BY <1>1, <2>1 DEF Job
  <2>3. OpOn(i)' = OpOn(i) /\ entries' = entries /\ active' = active
    BY <1>1 DEF OpOn, memory
  <2>4. JobOK("finish", i)' /\ ~InQueue(queue, "finish", i)
    BY <1>1, <1>2, <1>3, <1>4, <2>3, InQueueOK DEF JobOK
  <2>5. \A op \in {"start", "append", "finish"} : JobOK(op, i) => JobOK(op, i)'
    BY <1>1, <1>3, <2>3 DEF JobOK
  <2>6. active' \subseteq Ids
    BY <2>3 DEF Typed
  <2> QED BY <1>5, <2>2, <2>3, <2>4, <2>5, <2>6, QueuePush
<1>9. Typed'
  BY <1>1, <1>8 DEF Typed, memory, disk, Lives
<1>10. CurOK' /\ Balance' /\ Backlog'
  <2>1. CurOK'
    BY <1>1, CurKept DEF memory, disk
  <2>2. Needs' = Needs /\ Unwritten' = Unwritten
    BY <1>1 DEF Needs, Unwritten
  <2>3. Balance' /\ Backlog'
    BY <1>1, <2>2, BooksKept DEF memory, Balance
  <2> QED BY <2>1, <2>3
<1>11. DownOK'
  BY <1>1 DEF DownOK
<1> QED BY <1>7, <1>8, <1>9, <1>10, <1>11

\* Steps that touch no command, and the job at work not either.
LEMMA QuietIInv ==
  ASSUME IInv, phase # "down", phase' \in Phases, phase' \notin {"down", "ready"} \/ phase' = phase,
         UNCHANGED <<commands, memory, cur, disk>>, queue' \in Seq(Job), QueueOK'
  PROVE  IInv'
<1> USE DEF IInv
<1>1. \A j \in Ids : Same(j) /\ SameView(j) /\ SameTmp(j)
  <2> SUFFICES ASSUME NEW j \in Ids PROVE Same(j) /\ SameView(j) /\ SameTmp(j)
    OBVIOUS
  <2>1. Same(j)
    BY DEF Same, commands, memory, disk
  <2> QED BY <2>1, ViewKept, TmpKept
<1>2. Sound'
  BY <1>1, SoundStep, Limits
<1>3. Typed'
  BY DEF Typed, commands, memory, disk
<1>4. CurOK'
  BY CurKept DEF memory, disk
<1>5. Needs' = Needs /\ Unwritten' = Unwritten
  BY DEF Needs, Unwritten
<1>6. Balance' /\ Backlog'
  BY <1>5, BooksKept DEF memory, Balance
<1>7. DownOK'
  BY DEF DownOK
<1> QED BY <1>2, <1>3, <1>4, <1>6, <1>7

LEMMA QuietQueue ==
  ASSUME Typed, UNCHANGED <<commands, memory, cur, disk>>
  PROVE  active' \subseteq Ids /\ \A j \in Ids : Same(j) /\ OpOn(j)' = OpOn(j)
BY DEF Typed, Same, OpOn, commands, memory, disk

LEMMA ClearIInv == ASSUME IInv, Clear PROVE IInv'
<1>1. phase = "ready" /\ phase' = phase /\ UNCHANGED <<commands, memory, cur, disk>>
      /\ queue' = Append(queue, [op |-> "flush_for_clear", id |-> Nothing])
  BY DEF Clear, Enqueue
<1>2. PICK job : job = [op |-> "flush_for_clear", id |-> Nothing]
  OBVIOUS
<1>3. job \in Job /\ queue' = Append(queue, job) /\ job.op = "flush_for_clear" /\ job.id = Nothing
  BY <1>1, <1>2 DEF Job
<1>4. JobOK("flush_for_clear", Nothing)' /\ \A op \in {"start", "append", "finish"} : ~JobOK(op, Nothing)
  BY Limits DEF JobOK, IInv, Typed
<1>5. queue' \in Seq(Job) /\ QueueOK'
  BY <1>1, <1>3, <1>4, QuietQueue, QueuePush, Limits DEF IInv
<1> QED BY <1>1, <1>5, QuietIInv DEF Phases

LEMMA CloseIInv == ASSUME IInv, Close PROVE IInv'
<1>1. phase = "ready" /\ phase' = "closing" /\ UNCHANGED <<commands, memory, cur, disk>>
      /\ queue' = Append(queue, [op |-> "flush_for_close", id |-> Nothing])
  BY DEF Close, Enqueue
<1>2. PICK job : job = [op |-> "flush_for_close", id |-> Nothing]
  OBVIOUS
<1>3. job \in Job /\ queue' = Append(queue, job) /\ job.op = "flush_for_close" /\ job.id = Nothing
  BY <1>1, <1>2 DEF Job
<1>4. JobOK("flush_for_close", Nothing)' /\ \A op \in {"start", "append", "finish"} : ~JobOK(op, Nothing)
  BY Limits DEF JobOK, IInv, Typed
<1>5. queue' \in Seq(Job) /\ QueueOK'
  BY <1>1, <1>3, <1>4, QuietQueue, QueuePush, Limits DEF IInv
<1> QED BY <1>1, <1>5, QuietIInv DEF Phases

LEMMA UnlockIInv == ASSUME IInv, Unlock PROVE IInv'
<1>1. phase = "unlocking" /\ phase' = "closed" /\ UNCHANGED <<commands, memory, cur, disk>> /\ queue' = queue
  BY DEF Unlock
<1>2. \A op \in {"start", "append", "finish"} : ~JobOK(op, Nothing)
  BY Limits DEF JobOK, IInv, Typed
<1>3. QueueOK' /\ queue' \in Seq(Job)
  BY <1>1, <1>2, QuietQueue, QueueKept, Limits DEF IInv, Typed
<1> QED BY <1>1, <1>3, QuietIInv DEF Phases

\* A job that begins: its record, and the fields of it.
Work(op, i, at, chunk, text) ==
  [op |-> op, id |-> i, at |-> at, back |-> "idle", victim |-> Nothing, chunk |-> chunk, text |-> text]

LEMMA JobAtWork ==
  ASSUME NEW op \in {"start", "append", "finish", "clear"}, NEW i \in Ids \cup {Nothing},
         NEW at \in {"room", "sync", "save_room", "clear"}, NEW chunk \in Seq(Nat), NEW text \in Text \cup {Nothing},
         cur' = Work(op, i, at, chunk, text)
  PROVE  /\ cur' \in CurType /\ cur'.op = op /\ cur'.id = i /\ cur'.at = at /\ cur'.victim = Nothing
         /\ cur'.chunk = chunk /\ cur'.text = text
<1>1. /\ op \in {"none", "start", "append", "finish", "clear"}
      /\ at \in {"idle", "room", "create", "write", "sync", "save_room", "write_tmp", "rename", "clear",
                 "unlink_log", "unlink_json"}
  OBVIOUS
<1>2. cur' \in CurType
  BY <1>1 DEF CurType, Work
<1> QED BY <1>2 DEF Work

-----------------------------------------------------------------------------
(* The job that is taken from the queue.                                      *)

\* The phase is not "down" when there is work.
LEMMA Up == ASSUME IInv, queue # <<>> \/ cur # Idle PROVE phase # "down"
BY DEF IInv, DownOK

LEMMA FlushedIInv == ASSUME IInv, Flushed PROVE IInv'
<1> USE DEF IInv
<1>1. queue # <<>> /\ UNCHANGED <<commands, memory, cur, disk>> /\ phase # "down"
      /\ phase' \in {phase, "unlocking"}
      /\ Head(queue).op \in {"flush_for_clear", "flush_for_close"}
  BY Up DEF Flushed
<1>2. \/ queue' = Tail(queue)
      \/ queue' = Append(Tail(queue), [op |-> "clear", id |-> Nothing])
  BY DEF Flushed
<1>3. /\ Tail(queue) \in Seq(Job) /\ Ordered(Tail(queue))
      /\ \A k \in DOMAIN Tail(queue) : \E l \in DOMAIN queue : Tail(queue)[k] = queue[l]
      /\ \A i : InQueue(queue, "append", i) => InQueue(Tail(queue), "append", i)
  BY <1>1, TailQueue DEF QueueOK, Typed
<1>4. \A op \in {"start", "append", "finish"} : ~JobOK(op, Nothing)
  BY Limits DEF JobOK, Typed
<1>5. active' \subseteq Ids /\ \A j \in Ids \ {Nothing} : Same(j) /\ OpOn(j)' = OpOn(j)
  BY <1>1, QuietQueue
<1>6. CASE queue' = Tail(queue)
  <2>1. QueueOK'
    BY <1>3, <1>4, <1>5, <1>6, QueueStep, Limits
  <2> QED BY <1>1, <1>3, <1>6, <2>1, QuietIInv DEF Phases, Typed
<1>7. CASE queue' = Append(Tail(queue), [op |-> "clear", id |-> Nothing])
  <2>1. PICK job : job = [op |-> "clear", id |-> Nothing]
    OBVIOUS
  <2>2. job \in Job /\ queue' = Append(Tail(queue), job) /\ job.op = "clear" /\ job.id = Nothing
    BY <1>7, <2>1 DEF Job
  <2>3. PICK q : q = Tail(queue)
    OBVIOUS
  <2>4. /\ q \in Seq(Job) /\ queue' = Append(q, job) /\ queue' \in Seq(Job) /\ Ordered(queue')
        /\ \A k \in DOMAIN queue' : queue'[k] = job \/ \E l \in DOMAIN q : queue'[k] = q[l]
        /\ \A op, j : InQueue(queue', op, j) <=> InQueue(q, op, j) \/ (job.op = op /\ job.id = j)
    BY <1>3, <2>2, <2>3, AppendQueue
  <2>5. JobOK("clear", Nothing)'
    BY DEF JobOK
  <2>6. \A k \in DOMAIN queue' : \/ \E l \in DOMAIN queue : queue'[k] = queue[l]
                                 \/ JobOK(queue[k].op, queue[k].id)'
    <3> SUFFICES ASSUME NEW k \in DOMAIN queue', queue'[k] = job PROVE JobOK(queue[k].op, queue[k].id)'
      BY <1>3, <2>3, <2>4
    <3> QED BY <2>2, <2>5
  <2>7. \A j : InQueue(queue, "append", j) => InQueue(queue', "append", j)
    BY <1>3, <2>3, <2>4
  <2>8. QueueOK'
    BY <1>4, <1>5, <2>4, <2>6, <2>7, QueueStep, Limits
  <2> QED BY <1>1, <2>4, <2>8, QuietIInv DEF Phases, Typed
<1> QED BY <1>2, <1>6, <1>7

\* A command at work once the job is taken is found in the same way by all others.
LEMMA OthersAtBegin ==
  ASSUME IInv, cur = Idle, phase # "down", NEW i \in Ids \cup {Nothing}, cur'.id \in {i, Nothing}, NEW j \in Ids \ {i}
  PROVE  SameView(j) /\ SameTmp(j) /\ OpOn(j)' = OpOn(j) /\ OpOn(j) = "none"
<1>1. cur.id = Nothing /\ cur.op = "none" /\ cur.at = "idle" /\ cur.id # j /\ cur'.id # j
  BY Limits DEF Idle
<1> QED BY <1>1, ViewElsewhere, TmpElsewhere DEF IInv, OpOn

LEMMA BeginStartIInv == ASSUME IInv, BeginStart PROVE IInv'
<1> USE DEF IInv
<1>1. PICK i : i = Head(queue).id
  OBVIOUS
<1>2. /\ cur = Idle /\ queue # <<>> /\ queue' = Tail(queue) /\ Head(queue).op = "start" /\ phase # "down"
      /\ UNCHANGED <<commands, phase, memory, disk, crashes>>
  BY Up DEF BeginStart, Begin
<1>3. cur' = [Idle EXCEPT !.op = "start", !.id = i, !.at = "room"]
  BY <1>1 DEF BeginStart
<1>4. i \in Ids /\ life[i] = "starting" /\ entries[i] = Nothing
  BY <1>1, <1>2, HeadOK DEF JobOK
<1>5. /\ cur'.op = "start" /\ cur'.id = i /\ cur'.at = "room" /\ cur'.victim = Nothing /\ cur'.chunk = <<>>
      /\ cur' \in CurType
  <2>1. cur' = Work("start", i, "room", <<>>, Nothing)
    BY <1>3 DEF Idle, Work
  <2>2. <<>> \in Seq(Nat) /\ i \in Ids \cup {Nothing}
    BY <1>4
  <2> QED BY <2>1, <2>2, JobAtWork
<1>6. \A j \in Ids : Same(j)
  BY <1>2 DEF Same, commands, memory, disk
<1>7. \A j \in Ids \ {i} : Same(j) /\ SameView(j) /\ SameTmp(j) /\ OpOn(j)' = OpOn(j)
  BY <1>2, <1>4, <1>5, <1>6, OthersAtBegin
<1>8. Disk(i)' /\ Record(i)'
  <2>1. Disk(i) /\ Record(i) /\ Same(i)
    BY <1>2, <1>4, <1>6 DEF Sound
  <2>2. OpOn(i)' = "start" /\ PlaceOn(i)' = "room"
    BY <1>5 DEF OpOn, PlaceOn, Place, Evicting
  <2>3. Disk(i)'
    BY <2>1 DEF Disk, Same, Claims, Bytes
  <2>4. Record(i)'
    BY <1>4, <2>1, <2>2 DEF Record, Same, Forgotten
  <2> QED BY <2>3, <2>4
<1>9. Sound'
  BY <1>2, <1>4, <1>7, <1>8, SoundStep
<1>10. queue' \in Seq(Job) /\ QueueOK'
  <2>1. \A op \in {"start", "append", "finish"} : InQueue(Tail(queue), op, i) => ~JobOK(op, i)
    BY <1>1, <1>2, <1>4, HeadOK DEF JobOK, Sound, Record, Forgotten
  <2>2. active' \subseteq Ids /\ entries'[i] = Nothing
    BY <1>2, <1>4 DEF memory, Typed
  <2> QED BY <1>2, <1>4, <1>7, <2>1, <2>2, QueuePop
<1>11. Typed'
  BY <1>2, <1>5, <1>10 DEF Typed, commands, memory, disk
<1>12. CurOK'
  BY <1>4, <1>5, Limits DEF CurOK, Place, Evicting, Places, Saving
<1>13. Balance' /\ Backlog'
  <2>1. Needs' = 0 /\ Unwritten' = 0 /\ Unwritten = 0 /\ Needs = 0
    BY <1>2, <1>5 DEF Needs, Unwritten, Idle
  <2> QED BY <1>2, <2>1, BooksKept DEF memory, Balance, Typed
<1>14. DownOK'
  BY <1>2 DEF DownOK
<1> QED BY <1>9, <1>10, <1>11, <1>12, <1>13, <1>14

LEMMA BeginClearIInv == ASSUME IInv, BeginClear PROVE IInv'
<1> USE DEF IInv
<1>1. /\ cur = Idle /\ queue # <<>> /\ queue' = Tail(queue) /\ Head(queue).op = "clear" /\ phase # "down"
      /\ UNCHANGED <<commands, phase, memory, disk, crashes>>
  BY Up DEF BeginClear, Begin
<1>2. cur' = [Idle EXCEPT !.op = "clear", !.at = "clear"]
  BY DEF BeginClear
<1>3. /\ cur'.op = "clear" /\ cur'.id = Nothing /\ cur'.at = "clear" /\ cur'.victim = Nothing /\ cur'.chunk = <<>>
      /\ cur' \in CurType
  <2>1. cur' = Work("clear", Nothing, "clear", <<>>, Nothing)
    BY <1>2 DEF Idle, Work
  <2>2. <<>> \in Seq(Nat)
    OBVIOUS
  <2> QED BY <2>1, <2>2, JobAtWork
<1>4. \A j \in Ids \ {Nothing} : Same(j) /\ SameView(j) /\ SameTmp(j) /\ OpOn(j)' = OpOn(j)
  <2>1. \A j \in Ids : Same(j)
    BY <1>1 DEF Same, commands, memory, disk
  <2> QED BY <1>1, <1>3, <2>1, OthersAtBegin
<1>5. Sound'
  BY <1>1, <1>4, SoundStep, Limits
<1>6. queue' \in Seq(Job) /\ QueueOK'
  <2>1. \A op \in {"start", "append", "finish"} : ~JobOK(op, Nothing)
    BY Limits DEF JobOK, Typed
  <2>2. active' \subseteq Ids
    BY <1>1 DEF memory, Typed
  <2> QED BY <1>1, <1>4, <2>1, <2>2, QueuePop, Limits
<1>7. Typed'
  BY <1>1, <1>3, <1>6 DEF Typed, commands, memory, disk
<1>8. CurOK'
  BY <1>3, Limits DEF CurOK, Place, Evicting, Places, Saving
<1>9. Balance' /\ Backlog'
  <2>1. Needs' = 0 /\ Unwritten' = 0 /\ Unwritten = 0 /\ Needs = 0
    BY <1>1, <1>3 DEF Needs, Unwritten, Idle
  <2> QED BY <1>1, <2>1, BooksKept DEF memory, Balance, Typed
<1>10. DownOK'
  BY <1>1 DEF DownOK
<1> QED BY <1>5, <1>6, <1>7, <1>8, <1>9, <1>10

Taken(e) == [e EXCEPT !.pending = <<>>, !.queued = FALSE]

LEMMA TakenEntry ==
  ASSUME NEW e \in Entry, NEW f \in {Taken(e)}
  PROVE  /\ f \in Entry /\ f.seq = e.seq /\ f.state = e.state /\ f.truncated = e.truncated
         /\ f.metaBytes = e.metaBytes /\ f.logBytes = e.logBytes /\ f.reserved = e.reserved
         /\ f.accepting = e.accepting /\ f.writeFailed = e.writeFailed
         /\ f.pending = <<>> /\ f.queued = FALSE
<1>1. <<>> \in Seq(Nat)
  OBVIOUS
<1> QED BY <1>1 DEF Entry, Taken

LEMMA OthersEntries ==
  ASSUME Typed, NEW i \in Ids, NEW f \in Entry \cup {Nothing}, entries' = [entries EXCEPT ![i] = f]
  PROVE  /\ entries' \in [Ids -> Entry \cup {Nothing}] /\ entries'[i] = f
         /\ \A j \in Ids \ {i} : entries'[j] = entries[j]
BY DEF Typed

LEMMA BeginAppendIInv == ASSUME IInv, BeginAppend PROVE IInv'
<1> USE DEF IInv
<1>1. PICK i : i = Head(queue).id
  OBVIOUS
<1>2. /\ cur = Idle /\ queue # <<>> /\ queue' = Tail(queue) /\ Head(queue).op = "append" /\ phase # "down"
      /\ UNCHANGED <<commands, phase, active, sequence, bytes, disk, crashes>>
  BY Up DEF BeginAppend, Begin
<1>3. i \in active /\ i \in Ids /\ i \in Captured
  BY <1>1, <1>2, HeadOK DEF JobOK, Typed
<1>4. Disk(i) /\ Record(i) /\ entries[i] # Nothing
  BY <1>2, <1>3 DEF Sound, Record, Forgotten
<1>5. PICK e \in Entry : e = entries[i] /\ Remembered(i, e) /\ Working(i, e)
  BY <1>3, <1>4, EntryIn DEF Record
<1>6. PICK f \in {Taken(e)} : TRUE
  OBVIOUS
<1>7. /\ f \in Entry /\ f # Nothing /\ f.state = e.state /\ f.truncated = e.truncated
      /\ f.metaBytes = e.metaBytes /\ f.logBytes = e.logBytes /\ f.reserved = e.reserved
      /\ f.accepting = e.accepting /\ f.writeFailed = e.writeFailed
      /\ f.pending = <<>> /\ f.queued = FALSE /\ f.seq = e.seq
  <2>1. f \in Entry
    BY TakenEntry
  <2>2. f # Nothing
    BY <2>1, EntryFields
  <2> QED BY <2>2, TakenEntry
<1>8. entries' = [entries EXCEPT ![i] = f]
  BY <1>1, <1>3, <1>5, <1>6 DEF BeginAppend, Typed, Taken
<1>9. entries' \in [Ids -> Entry \cup {Nothing}] /\ entries'[i] = f /\ \A j \in Ids \ {i} : entries'[j] = entries[j]
  BY <1>3, <1>7, <1>8, OthersEntries
<1>10. \A j \in Ids \ {i} : Same(j)
  BY <1>2, <1>9 DEF Same, commands, disk
<1>11. /\ e.pending \in Seq(Nat) /\ Len(e.pending) \in Nat /\ e.logBytes \in Nat /\ e.metaBytes \in Nat
       /\ e.reserved \in Nat
  BY EntryFields, EmptyOrNot, Limits
<1>12. OpOn(i) = "none" /\ PlaceOn(i) = "idle" /\ ChunkOn(i) = <<>>
  BY <1>2, <1>3, Limits DEF OpOn, PlaceOn, ChunkOn, Idle
<1>13. \/ /\ e.writeFailed /\ cur' = cur /\ pendingBytes' = pendingBytes - Len(e.pending)
       \/ /\ ~e.writeFailed /\ pendingBytes' = pendingBytes
          /\ cur' = [Idle EXCEPT !.op = "append", !.id = i, !.at = "room", !.chunk = e.pending]
  BY <1>1, <1>5 DEF BeginAppend
<1>14. ~e.writeFailed =>
         /\ cur' \in CurType /\ cur'.op = "append" /\ cur'.id = i /\ cur'.at = "room" /\ cur'.victim = Nothing
         /\ cur'.chunk = e.pending
  <2> SUFFICES ASSUME ~e.writeFailed
               PROVE  /\ cur' \in CurType /\ cur'.op = "append" /\ cur'.id = i /\ cur'.at = "room"
                      /\ cur'.victim = Nothing /\ cur'.chunk = e.pending
    OBVIOUS
  <2>1. cur' = Work("append", i, "room", e.pending, Nothing)
    BY <1>13 DEF Idle, Work
  <2>2. i \in Ids \cup {Nothing} /\ e.pending \in Seq(Nat)
    BY <1>3, <1>11
  <2> HIDE DEF IInv
  <2> QED BY <2>1, <2>2, JobAtWork
<1>15. /\ OpOn(i)' = (IF e.writeFailed THEN "none" ELSE "append")
       /\ PlaceOn(i)' = (IF e.writeFailed THEN "idle" ELSE "room")
       /\ ChunkOn(i)' = (IF e.writeFailed THEN <<>> ELSE e.pending)
  BY <1>12, <1>13, <1>14 DEF OpOn, PlaceOn, ChunkOn, Place, Evicting
<1>16. \A j \in Ids \ {i} : Same(j) /\ SameView(j) /\ SameTmp(j) /\ OpOn(j)' = OpOn(j)
  <2>1. cur'.id \in {i, Nothing}
    BY <1>2, <1>13, <1>14 DEF Idle
  <2> QED BY <1>2, <1>3, <1>10, <2>1, OthersAtBegin
<1>17. Disk(i)' /\ Record(i)'
  <2>1. /\ life' = life /\ printed' = printed /\ active' = active /\ phase' = phase
        /\ json' = json /\ tmp' = tmp /\ log' = log /\ synced' = synced
    BY <1>2 DEF commands, disk
  <2>2. Disk(i)'
    BY <1>4, <2>1 DEF Disk, Claims, Bytes
  <2>3. ~e.writeFailed => Stream(i, f)'
    <3> SUFFICES ASSUME ~e.writeFailed PROVE Stream(i, f)'
      OBVIOUS
    <3>1. Stream(i, e)
      BY <1>3, <1>5 DEF Remembered, Capturing
    <3>2. /\ e.pending = Offsets(e.logBytes, Len(e.pending)) /\ e.reserved = e.logBytes + Len(e.pending)
          /\ e.reserved <= printed[i] /\ (phase = "ready" /\ e.accepting => e.reserved = printed[i])
      BY <1>11, <1>12, <3>1 DEF Stream
    <3>3. f.pending = Offsets(e.logBytes + Len(e.pending), 0) /\ Len(f.pending) = 0
      <4>1. e.logBytes + Len(e.pending) \in Nat
        BY <1>11
      <4> QED BY <1>7, <4>1, NoOffsets
    <3> QED BY <1>7, <1>11, <1>15, <2>1, <3>2, <3>3 DEF Stream
  <2>4. Capturing(i, f)'
    BY <1>3, <1>5, <1>7, <1>12, <2>1, <2>3 DEF Remembered, Capturing
  <2>5. Remembered(i, f)'
    BY <1>3, <1>5, <1>7, <1>12, <1>15, <2>1, <2>4 DEF Remembered, Accounts, TextBytes
  <2>6. Working(i, f)'
    BY <1>3, <1>7, <1>15, <2>1 DEF Working
  <2>7. tmp[i] = Nothing /\ life[i] # "starting"
    BY <1>2, <1>4, <1>12 DEF Record, Idle
  <2>8. Record(i)'
    BY <1>3, <1>4, <1>7, <1>9, <1>15, <2>1, <2>5, <2>6, <2>7 DEF Record
  <2> QED BY <2>2, <2>8
<1>18. Sound'
  BY <1>2, <1>3, <1>16, <1>17, SoundStep
<1>19. queue' \in Seq(Job) /\ QueueOK'
  <2>1. \A op \in {"start", "append", "finish"} : InQueue(Tail(queue), op, i) /\ JobOK(op, i) => JobOK(op, i)'
    <3>1. ~JobOK("start", i)
      BY <1>4 DEF JobOK
    <3>2. ~InQueue(Tail(queue), "append", i)
      BY <1>1, <1>2, HeadOK
    <3>3. JobOK("finish", i) => JobOK("finish", i)'
      BY <1>2, <1>15 DEF JobOK, commands
    <3> QED BY <3>1, <3>2, <3>3
  <2>2. active' \subseteq Ids /\ ~entries'[i].queued
    BY <1>2, <1>7, <1>9 DEF Typed
  <2> QED BY <1>1, <1>2, <1>3, <1>16, <2>1, <2>2, QueuePop
<1>20. Typed'
  BY <1>2, <1>9, <1>11, <1>13, <1>14, <1>19 DEF Typed, commands, disk
<1>21. CurOK'
  <2>1. CASE e.writeFailed
    <3>1. cur' = Idle
      BY <1>2, <1>13, <2>1
    <3> QED BY <3>1 DEF CurOK, Place, Evicting, Places, Saving, Idle
  <2>2. CASE ~e.writeFailed
    BY <1>3, <1>14, <2>2, Limits DEF CurOK, Place, Evicting, Places, Saving
  <2> QED BY <2>1, <2>2
<1>22. Balance' /\ Backlog'
  <2>1. /\ Needs' = 0 /\ Needs = 0 /\ Unwritten = 0
        /\ Unwritten' = IF e.writeFailed THEN 0 ELSE Len(e.pending)
    BY <1>2, <1>13, <1>14 DEF Needs, Unwritten, Idle
  <2>2. /\ EntrySizes'[i] = EntrySizes[i] /\ PendingSizes[i] = Len(e.pending) /\ PendingSizes'[i] = 0
    BY <1>3, <1>4, <1>5, <1>7, <1>9 DEF EntrySizes, PendingSizes
  <2>3. /\ Total(EntrySizes', Ids) = Total(EntrySizes, Ids)
        /\ Total(PendingSizes', Ids) = Total(PendingSizes, Ids) - Len(e.pending)
        /\ Total(PendingSizes, Ids) \in Nat
    BY <1>3, <1>9, <1>20, <2>2, BooksStep
  <2>4. Known' = Known
    BY <1>4, <1>7, <1>9 DEF Known
  <2>5. Balance'
    BY <1>2, <2>1, <2>3, <2>4 DEF Balance
  <2>6. pendingBytes = Total(PendingSizes, Ids) /\ pendingBytes <= MaxPending
    BY <2>1, <2>3 DEF Backlog
  <2>7. pendingBytes' = Total(PendingSizes', Ids) + Unwritten' /\ pendingBytes' <= MaxPending
    BY <1>11, <1>13, <2>1, <2>3, <2>6, Limits
  <2>8. Backlog'
    BY <2>7 DEF Backlog
  <2> QED BY <2>5, <2>8
<1>23. DownOK'
  BY <1>2 DEF DownOK
<1> QED BY <1>18, <1>19, <1>20, <1>21, <1>22, <1>23

EndedEntry(e) == [e EXCEPT !.state = "ended", !.accepting = FALSE]

LEMMA EndedFields ==
  ASSUME NEW e \in Entry, NEW f \in {EndedEntry(e)}
  PROVE  /\ f \in Entry /\ f.seq = e.seq /\ f.state = "ended" /\ f.truncated = e.truncated
         /\ f.metaBytes = e.metaBytes /\ f.logBytes = e.logBytes /\ f.reserved = e.reserved
         /\ f.accepting = FALSE /\ f.writeFailed = e.writeFailed
         /\ f.pending = e.pending /\ f.queued = e.queued
BY DEF Entry, EndedEntry

LEMMA TextOfTyped ==
  ASSUME NEW e \in Entry, e.state \in {"running", "ended"}, NEW size \in 1..MaxMeta
  PROVE  /\ TextOf(e, size) \in Text /\ TextOf(e, size) # Nothing
         /\ TextOf(e, size).size = size /\ TextOf(e, size).state = e.state
         /\ TextOf(e, size).truncated = e.truncated /\ TextOf(e, size).captured = e.logBytes
<1>1. TextOf(e, size) \in Text
  BY EntryFields DEF TextOf, Text
<1> QED BY <1>1, TextFields DEF TextOf

LEMMA BeginFinishIInv == ASSUME IInv, BeginFinish PROVE IInv'
<1> USE DEF IInv
<1>1. PICK i : i = Head(queue).id
  OBVIOUS
<1>2. /\ cur = Idle /\ queue # <<>> /\ queue' = Tail(queue) /\ Head(queue).op = "finish" /\ phase # "down"
      /\ UNCHANGED <<commands, phase, active, sequence, bytes, pendingBytes, disk, crashes>>
  BY Up DEF BeginFinish, Begin
<1>3. i \in active /\ i \in Ids /\ life[i] = "finished"
  BY <1>1, <1>2, HeadOK DEF JobOK, Typed
<1>4. Disk(i) /\ Record(i) /\ entries[i] # Nothing
  BY <1>2, <1>3 DEF Sound, Record, Forgotten
<1>5. PICK e \in Entry : e = entries[i] /\ Remembered(i, e) /\ Working(i, e)
  BY <1>3, <1>4, EntryIn DEF Record
<1>6. PICK f \in {EndedEntry(e)} : TRUE
  OBVIOUS
<1>7. /\ f \in Entry /\ f # Nothing /\ f.state = "ended" /\ f.truncated = e.truncated
      /\ f.metaBytes = e.metaBytes /\ f.logBytes = e.logBytes /\ f.reserved = e.reserved
      /\ f.accepting = FALSE /\ f.writeFailed = e.writeFailed
      /\ f.pending = e.pending /\ f.queued = e.queued
  <2>1. f \in Entry
    BY EndedFields
  <2>2. f # Nothing
    BY <2>1, EntryFields
  <2> QED BY <2>2, EndedFields
<1>8. entries' = [entries EXCEPT ![i] = f]
  BY <1>1, <1>4, <1>5, <1>6 DEF BeginFinish, EndedEntry
<1>9. entries' \in [Ids -> Entry \cup {Nothing}] /\ entries'[i] = f /\ \A j \in Ids \ {i} : entries'[j] = entries[j]
  BY <1>3, <1>7, <1>8, OthersEntries
<1>10. \A j \in Ids \ {i} : Same(j)
  BY <1>2, <1>9 DEF Same, commands, disk
<1>11. OpOn(i) = "none" /\ PlaceOn(i) = "idle" /\ ChunkOn(i) = <<>>
  BY <1>2, <1>3, Limits DEF OpOn, PlaceOn, ChunkOn, Idle
<1>12. f = [entries[Head(queue).id] EXCEPT !.state = "ended", !.accepting = FALSE]
  BY <1>1, <1>5, <1>6 DEF EndedEntry
<1>13. \E text \in Text \cup {Nothing}, at \in {"sync", "save_room"} :
         /\ cur' = Work("finish", i, at, <<>>, text)
         /\ at = "sync" <=> i \in Captured
         /\ at = "save_room" => text # Nothing /\ text = TextOf(f, text.size)
  <2>1. CASE i \in Captured
    <3>1. cur' = [Idle EXCEPT !.op = "finish", !.id = i, !.at = "sync"]
      BY <1>1, <1>4, <2>1 DEF BeginFinish
    <3>2. cur' = Work("finish", i, "sync", <<>>, Nothing)
      BY <3>1 DEF Idle, Work
    <3> QED BY <2>1, <3>2
  <2>2. CASE i \notin Captured
    <3>1. PICK size \in 1..MaxMeta :
            cur' = [[Idle EXCEPT !.op = "finish", !.id = i, !.at = "sync"]
                      EXCEPT !.at = "save_room", !.text = TextOf(f, size)]
      BY <1>1, <1>4, <1>12, <2>2 DEF BeginFinish
    <3>2. PICK text : text = TextOf(f, size)
      OBVIOUS
    <3>3. text \in Text /\ text # Nothing /\ text.size = size
      BY <1>7, <3>2, TextOfTyped
    <3>4. cur' = Work("finish", i, "save_room", <<>>, text)
      BY <3>1, <3>2 DEF Idle, Work
    <3> QED BY <2>2, <3>2, <3>3, <3>4
  <2> QED BY <2>1, <2>2
<1>14. PICK text \in Text \cup {Nothing}, at \in {"sync", "save_room"} :
         /\ cur' = Work("finish", i, at, <<>>, text)
         /\ at = "sync" <=> i \in Captured
         /\ at = "save_room" => text # Nothing /\ text = TextOf(f, text.size)
  BY <1>13
<1>15. /\ cur' \in CurType /\ cur'.op = "finish" /\ cur'.id = i /\ cur'.at = at /\ cur'.victim = Nothing
       /\ cur'.chunk = <<>> /\ cur'.text = text
  <2>1. <<>> \in Seq(Nat) /\ i \in Ids \cup {Nothing}
    BY <1>3
  <2> HIDE DEF IInv
  <2> QED BY <1>14, <2>1, JobAtWork
<1>16. OpOn(i)' = "finish" /\ PlaceOn(i)' = at /\ ChunkOn(i)' = <<>>
  BY <1>15 DEF OpOn, PlaceOn, ChunkOn, Place, Evicting
<1>17. \A j \in Ids \ {i} : Same(j) /\ SameView(j) /\ SameTmp(j) /\ OpOn(j)' = OpOn(j)
  BY <1>2, <1>3, <1>10, <1>15, OthersAtBegin
<1>18. Resting(e) \/ (e.accepting /\ e.pending = <<>> /\ ~e.queued)
  <2>1. ~e.queued
    <3>1. e.queued => InQueue(queue, "append", i)
      BY <1>3, <1>4, <1>5 DEF QueueOK, Known
    <3>2. ~InQueue(queue, "append", i)
      BY <1>1, <1>2, HeadOK
    <3> QED BY <3>1, <3>2, <1>5, EntryFields
  <2> QED BY <1>5, <2>1, EntryFields DEF Remembered, Resting
<1>19. Disk(i)' /\ Record(i)'
  <2>1. /\ life' = life /\ printed' = printed /\ active' = active /\ phase' = phase
        /\ json' = json /\ tmp' = tmp /\ log' = log /\ synced' = synced
    BY <1>2 DEF commands, disk
  <2>2. Disk(i)'
    BY <1>4, <2>1 DEF Disk, Claims, Bytes
  <2>3. Resting(f)
    BY <1>7, <1>18 DEF Resting
  <2>4. i \in Captured => Capturing(i, f)'
    BY <1>3, <1>5, <1>7, <1>11, <1>16, <2>1 DEF Remembered, Capturing, Stream
  <2>5. Remembered(i, f)'
    BY <1>3, <1>5, <1>7, <1>11, <1>14, <1>16, <2>1, <2>3, <2>4 DEF Remembered, Accounts, TextBytes, Resting
  <2>6. Working(i, f)'
    BY <1>3, <1>7, <1>14, <1>16, <2>1, <2>3 DEF Working, Resting
  <2>7. tmp[i] = Nothing
    BY <1>2, <1>4 DEF Record, Idle
  <2>8. Record(i)'
    BY <1>3, <1>4, <1>7, <1>9, <1>16, <2>1, <2>5, <2>6, <2>7 DEF Record
  <2> QED BY <2>2, <2>8
<1>20. Sound'
  BY <1>2, <1>3, <1>17, <1>19, SoundStep
<1>21. queue' \in Seq(Job) /\ QueueOK'
  <2>1. \A op \in {"start", "append", "finish"} : InQueue(Tail(queue), op, i) => ~JobOK(op, i)
    <3>1. ~JobOK("start", i)
      BY <1>4 DEF JobOK
    <3> QED BY <1>1, <1>2, <3>1, HeadOK
  <2>2. active' \subseteq Ids /\ ~entries'[i].queued
    BY <1>2, <1>7, <1>9, <1>18 DEF Typed, Resting
  <2> QED BY <1>1, <1>2, <1>3, <1>17, <2>1, <2>2, QueuePop
<1>22. Typed'
  BY <1>2, <1>9, <1>15, <1>21 DEF Typed, commands, disk
<1>23. CurOK'
  <2>1. TextOf(entries[i], text.size)' = TextOf(f, text.size)
    BY <1>9 DEF TextOf
  <2>2. Saving' => at = "save_room"
    BY <1>15 DEF Saving, Place, Evicting
  <2>3. ~Evicting' /\ Place' = at
    BY <1>15 DEF Place, Evicting
  <2> QED BY <1>3, <1>9, <1>14, <1>15, <2>2, <2>3, Limits DEF CurOK, Places, TextOf
<1>24. Balance' /\ Backlog'
  <2>1. Needs' = 0 /\ Needs = 0 /\ Unwritten = 0 /\ Unwritten' = 0
    BY <1>2, <1>15 DEF Needs, Unwritten, Idle
  <2>2. EntrySizes' = EntrySizes /\ PendingSizes' = PendingSizes
    BY <1>3, <1>4, <1>5, <1>7, <1>9 DEF EntrySizes, PendingSizes
  <2>3. Known' = Known
    BY <1>4, <1>7, <1>9 DEF Known
  <2> QED BY <1>2, <2>1, <2>2, <2>3 DEF Balance, Backlog
<1>25. DownOK'
  BY <1>2 DEF DownOK
<1> QED BY <1>20, <1>21, <1>22, <1>23, <1>24, <1>25

-----------------------------------------------------------------------------
(* The steps of makeRoom() and remove().                                      *)

Ats == {"idle", "room", "create", "write", "sync", "save_room", "write_tmp", "rename", "clear",
        "unlink_log", "unlink_json"}

LEMMA Moves ==
  ASSUME Typed, NEW s \in Ats, cur' = [cur EXCEPT !.at = s]
  PROVE  /\ cur' \in CurType /\ cur'.at = s /\ cur'.op = cur.op /\ cur'.id = cur.id /\ cur'.back = cur.back
         /\ cur'.victim = cur.victim /\ cur'.chunk = cur.chunk /\ cur'.text = cur.text
BY DEF Typed, CurType, Ats

\* A job that is not idle belongs to a store that runs; it is one of three on a command, or a clear.
LEMMA AtWork ==
  ASSUME IInv, cur.at # "idle"
  PROVE  /\ phase # "down" /\ cur # Idle /\ cur.op # "none"
         /\ cur.op \in {"start", "append", "finish"} => cur.id \in Ids
         /\ cur.op = "clear" => cur.id = Nothing
<1>1. cur # Idle
  BY DEF Idle
<1>2. cur.op # "none"
  BY <1>1 DEF IInv, CurOK
<1>3. cur.op \in {"start", "append", "finish"} => cur.id \in Ids
  BY CurFields DEF IInv, CurOK
<1>4. cur.op = "clear" => cur.id = Nothing
  BY DEF IInv, CurOK
<1> QED BY <1>1, <1>2, <1>3, <1>4, Up

\* Only the place of the job changes.
LEMMA MovesIInv ==
  ASSUME IInv, phase # "down", UNCHANGED <<commands, phase, memory, queue, disk>>,
         cur' \in CurType, cur'.op = cur.op, cur'.id = cur.id, cur'.chunk = cur.chunk, cur'.text = cur.text,
         cur.at # "rename", CurOK', bytes + Needs' <= MaxTotal,
         \/ Place' = Place
         \/ Place \notin {"create", "sync", "idle"} /\ Place' \notin {"create", "sync", "idle"}
            /\ (cur.op = "start" => Place # "room" /\ Place' # "room")
  PROVE  IInv'
<1> USE DEF IInv
<1>1. \A j \in Ids : Same(j) /\ SameView(j) /\ SameTmp(j) /\ OpOn(j)' = OpOn(j)
  <2> SUFFICES ASSUME NEW j \in Ids PROVE Same(j) /\ SameView(j) /\ SameTmp(j) /\ OpOn(j)' = OpOn(j)
    OBVIOUS
  <2>1. Same(j)
    BY DEF Same, commands, memory, disk
  <2>2. SameView(j)
    BY DEF SameView, OpOn, ChunkOn, PlaceOn
  <2> QED BY <2>1, <2>2, TmpElsewhere DEF SameView
<1>2. Sound'
  BY <1>1, SoundStep, Limits
<1>3. Typed'
  BY DEF Typed, commands, memory, disk
<1>4. QueueOK'
  <2>1. \A op \in {"start", "append", "finish"} : ~JobOK(op, Nothing)
    BY Limits DEF JobOK, Typed
  <2>2. active' \subseteq Ids
    BY DEF Typed, memory
  <2> QED BY <1>1, <2>1, <2>2, QueueKept, Limits
<1>5. Balance' /\ Backlog'
  <2>1. Unwritten' = Unwritten
    BY DEF Unwritten
  <2> QED BY <2>1, BooksKept DEF memory
<1>6. DownOK'
  BY DEF DownOK
<1> QED BY <1>2, <1>3, <1>4, <1>5, <1>6

\* There is room: save() goes on, and so does the writing of a chunk.
LEMMA FitsIInv ==
  ASSUME IInv, Fits, UNCHANGED <<commands, phase, memory, queue, disk>>,
         \/ At("save_room") /\ Goto("write_tmp")
         \/ At("room") /\ cur.op = "append" /\ Goto("write")
  PROVE  IInv'
<1>1. cur.at \in {"save_room", "room"} /\ phase # "down" /\ Typed /\ CurOK
  BY AtWork DEF At, IInv
<1>2. Place = cur.at /\ ~Evicting
  BY <1>1 DEF Place, Evicting
<1>3. CASE At("save_room") /\ Goto("write_tmp")
  <2>1. /\ cur' \in CurType /\ cur'.at = "write_tmp" /\ cur'.op = cur.op /\ cur'.id = cur.id
        /\ cur'.victim = cur.victim /\ cur'.chunk = cur.chunk /\ cur'.text = cur.text
    BY <1>1, <1>3, Moves DEF Goto, Ats
  <2>2. Place' = "write_tmp" /\ ~Evicting' /\ Place = "save_room"
    BY <1>2, <1>3, <2>1 DEF Place, Evicting, At
  <2>3. CurOK'
    <3>1. cur.op \in {"start", "finish"}
      BY <1>1, <2>2, CurFields DEF CurOK, Places
    <3>2. entries' = entries /\ cur.victim = Nothing /\ cur.id # Nothing /\ Saving
      BY <1>1, <1>2, <2>2, <3>1 DEF CurOK, Saving, memory
    <3>3. cur.text # Nothing /\ cur.text = TextOf(entries[cur.id], cur.text.size)
      BY <1>1, <3>2 DEF CurOK
    <3>4. cur'.text # Nothing /\ cur'.text = TextOf(entries'[cur'.id], cur'.text.size)
      BY <2>1, <3>2, <3>3
    <3>5. Place' \in Places(cur'.op)
      BY <2>1, <2>2, <3>1 DEF Places
    <3> QED BY <2>1, <2>2, <3>1, <3>2, <3>4, <3>5 DEF CurOK
  <2>4. bytes + Needs' <= MaxTotal
    <3>1. Needs' = cur.text.size
      BY <2>1 DEF Needs
    <3>2. Needed = cur.text.size
      BY <1>3 DEF Needed
    <3> QED BY <3>1, <3>2 DEF Fits
  <2> QED BY <1>1, <2>1, <2>2, <2>3, <2>4, MovesIInv
<1>4. CASE At("room") /\ cur.op = "append" /\ Goto("write")
  <2>1. /\ cur' \in CurType /\ cur'.at = "write" /\ cur'.op = cur.op /\ cur'.id = cur.id
        /\ cur'.victim = cur.victim /\ cur'.chunk = cur.chunk /\ cur'.text = cur.text
    BY <1>1, <1>4, Moves DEF Goto, Ats
  <2>2. Place' = "write" /\ ~Evicting' /\ Place = "room"
    BY <1>2, <1>4, <2>1 DEF Place, Evicting, At
  <2>3. CurOK'
    BY <1>1, <1>2, <1>4, <2>1, <2>2 DEF CurOK, Places, Saving, TextOf, memory
  <2>4. bytes + Needs' <= MaxTotal
    BY <1>4, <2>1 DEF Needs, Fits, Needed, At
  <2> QED BY <1>1, <1>4, <2>1, <2>2, <2>3, <2>4, MovesIInv
<1> QED BY <1>3, <1>4

\* A victim: known, at rest, and not the command of the job.
LEMMA EvictIInv ==
  ASSUME IInv, NEW v \in Known \ (active \cup {cur.id}), Evict(v), cur.at \in {"room", "save_room", "clear"},
         UNCHANGED <<commands, phase, memory, queue, disk>>
  PROVE  IInv'
<1>1. phase # "down" /\ Typed /\ CurOK /\ v \in Ids
  BY AtWork DEF IInv, Known
<1>2. cur' = [cur EXCEPT !.victim = v, !.at = "unlink_log", !.back = cur.at]
  BY DEF Evict
<1>3. /\ cur' \in CurType /\ cur'.at = "unlink_log" /\ cur'.op = cur.op /\ cur'.id = cur.id /\ cur'.back = cur.at
      /\ cur'.victim = v /\ cur'.chunk = cur.chunk /\ cur'.text = cur.text
  BY <1>1, <1>2 DEF Typed, CurType
<1>4. Place' = Place /\ Evicting' /\ Place = cur.at
  BY <1>3 DEF Place, Evicting
<1>5. CurOK'
  BY <1>1, <1>3, <1>4, AtWork DEF CurOK, Places, Saving, TextOf, memory, Known
<1>6. bytes + Needs' <= MaxTotal
  <2>1. Needs' = 0 /\ Needs = 0
    BY <1>3 DEF Needs
  <2> QED BY <2>1 DEF IInv, Balance
<1> QED BY <1>1, <1>3, <1>4, <1>5, <1>6, MovesIInv

LEMMA ClearNextGoesOn ==
  ASSUME IInv, At("clear"), NEW v \in Known \ active, Evict(v), UNCHANGED <<commands, phase, memory, queue, disk>>
  PROVE  IInv'
<1>1. cur.op = "clear" /\ cur.id = Nothing /\ v # Nothing
  BY AtWork, CurFields, Limits DEF IInv, CurOK, Places, Place, Evicting, At, Known
<1> QED BY <1>1, EvictIInv DEF At

\* The clear is over.
LEMMA ClearNextEnds ==
  ASSUME IInv, At("clear"), Done, UNCHANGED <<commands, phase, memory, queue, disk>>
  PROVE  IInv'
<1>1. phase # "down" /\ Typed /\ CurOK /\ cur.op = "clear" /\ cur.id = Nothing
  BY AtWork, CurFields DEF IInv, CurOK, Places, Place, Evicting, At
<1> USE DEF IInv
<1>2. cur' = Idle /\ Idle.op = "none" /\ Idle.id = Nothing /\ Idle.at = "idle" /\ Idle \in CurType
  BY DEF Done, Idle, CurType
<1>3. \A j \in Ids : Same(j) /\ SameView(j) /\ SameTmp(j) /\ OpOn(j)' = OpOn(j)
  <2> SUFFICES ASSUME NEW j \in Ids PROVE Same(j) /\ SameView(j) /\ SameTmp(j) /\ OpOn(j)' = OpOn(j)
    OBVIOUS
  <2>1. Same(j)
    BY DEF Same, commands, memory, disk
  <2> QED BY <1>1, <1>2, <2>1, ViewElsewhere, TmpElsewhere, Limits DEF SameView
<1>4. Sound'
  BY <1>1, <1>3, SoundStep, Limits
<1>5. Typed'
  BY <1>2 DEF Typed, commands, memory, disk
<1>6. QueueOK'
  <2>1. \A op \in {"start", "append", "finish"} : ~JobOK(op, Nothing)
    BY Limits DEF JobOK, Typed
  <2>2. active' \subseteq Ids
    BY DEF Typed, memory
  <2> QED BY <1>3, <2>1, <2>2, QueueKept, Limits
<1>7. Balance' /\ Backlog'
  <2>1. Unwritten' = 0 /\ Unwritten = 0 /\ Needs' = 0 /\ Needs = 0
    BY <1>1, <1>2 DEF Unwritten, Needs, At
  <2> QED BY <2>1, BooksKept DEF memory, Balance
<1>8. CurOK'
  BY <1>2 DEF CurOK, Place, Evicting, Places, Saving, Idle
<1>9. DownOK'
  BY <1>1 DEF DownOK
<1> QED BY <1>4, <1>5, <1>6, <1>7, <1>8, <1>9

-----------------------------------------------------------------------------
(* What a command prints.                                                     *)

LEMMA LesserOfTwo ==
  ASSUME NEW a \in Int, NEW b \in Int PROVE Min({a, b}) = IF a <= b THEN a ELSE b
<1> DEFINE S == {a, b}
           m == IF a <= b THEN a ELSE b
<1>1. m \in S /\ \A y \in S : m <= y
  OBVIOUS
<1>2. \A x \in S : (\A y \in S : x <= y) => x = m
  OBVIOUS
<1> QED BY <1>1, <1>2 DEF Min

\* The entry with what was kept of the output.
Extended(e, kept, n) ==
  [e EXCEPT !.pending = @ \o kept, !.reserved = @ + Len(kept), !.accepting = ~(Len(kept) < n),
            !.truncated = @ \/ Len(kept) < n, !.queued = @ \/ kept # <<>>]

LEMMA ExtendedFields ==
  ASSUME NEW e \in Entry, NEW kept \in Seq(Nat), e.reserved + Len(kept) <= MaxLog, NEW n \in Nat,
         NEW f \in {Extended(e, kept, n)}
  PROVE  /\ f \in Entry /\ f.seq = e.seq /\ f.state = e.state
         /\ f.metaBytes = e.metaBytes /\ f.logBytes = e.logBytes /\ f.writeFailed = e.writeFailed
         /\ f.pending = e.pending \o kept /\ f.reserved = e.reserved + Len(kept)
         /\ f.accepting => Len(kept) >= n
         /\ e.truncated => f.truncated
         /\ f.queued => e.queued \/ kept # <<>>
         /\ e.queued \/ kept # <<>> => f.queued
<1> DEFINE p == e.pending \o kept
           r == e.reserved + Len(kept)
           a == ~(Len(kept) < n)
           t == e.truncated \/ Len(kept) < n
           q == e.queued \/ kept # <<>>
<1>1. p \in Seq(Nat)
  BY EntryFields, Joined
<1>2. r \in 0..MaxLog
  BY EntryFields, EmptyOrNot, Limits
<1>3. a \in BOOLEAN /\ t \in BOOLEAN /\ q \in BOOLEAN
  OBVIOUS
<1>4. f = [e EXCEPT !.pending = p, !.reserved = r, !.accepting = a, !.truncated = t, !.queued = q]
  BY DEF Extended
<1> HIDE DEF p, r, a, t, q
<1>5. /\ f \in Entry /\ f.seq = e.seq /\ f.state = e.state
      /\ f.metaBytes = e.metaBytes /\ f.logBytes = e.logBytes /\ f.writeFailed = e.writeFailed
      /\ f.pending = p /\ f.reserved = r /\ f.accepting = a /\ f.truncated = t /\ f.queued = q
  BY <1>1, <1>2, <1>3, <1>4 DEF Entry
<1>6. /\ a => Len(kept) >= n
      /\ e.truncated => t
      /\ (e.queued \/ kept # <<>>) <=> q
  BY EmptyOrNot DEF a, t, q
<1> QED BY <1>5, <1>6 DEF p, r

\* The entry of a command that runs.
LEMMA RunningEntry ==
  ASSUME IInv, NEW i \in Ids, life[i] = "running", phase # "down"
  PROVE  /\ Disk(i) /\ Record(i) /\ i \in active /\ entries[i] # Nothing /\ entries[i] \in Entry
         /\ Remembered(i, entries[i]) /\ Working(i, entries[i])
         /\ entries[i].state # "ended" /\ OpOn(i) \notin {"start", "finish"}
         /\ \A op : InQueue(queue, op, i) => op \notin {"start", "finish"}
<1>1. Disk(i) /\ Record(i) /\ i \in active /\ entries[i] # Nothing
  BY DEF IInv, Sound, Record, Forgotten
<1>2. entries[i] \in Entry /\ Remembered(i, entries[i]) /\ Working(i, entries[i])
  BY <1>1, EntryIn DEF Record, IInv
<1>3. \A op : InQueue(queue, op, i) => op \notin {"start", "finish"}
  BY InQueueOK DEF IInv, JobOK
<1> QED BY <1>1, <1>2, <1>3 DEF Record, Remembered, Working

LEMMA SavingOp == ASSUME CurOK, Typed, Saving PROVE cur.op \in {"start", "finish"}
BY CurFields DEF CurOK, Places, Saving

\* Nothing of the output is kept: the archive no longer wants it.
LEMMA OutputLost ==
  ASSUME IInv, NEW i \in Ids, life[i] = "running", phase # "down", NEW n \in Nat, printed[i] + n <= MaxPrinted,
         printed' = [printed EXCEPT ![i] = @ + n], UNCHANGED <<life, phase, memory, queue, cur, disk>>,
         ~(phase = "ready" /\ i \in Captured /\ entries[i].accepting)
  PROVE  IInv'
<1> USE DEF IInv
<1>1. printed' \in [Ids -> 0..MaxPrinted] /\ printed'[i] = printed[i] + n /\ printed[i] \in Nat
      /\ \A j \in Ids \ {i} : printed'[j] = printed[j]
  BY Limits DEF Typed
<1>2. \A j \in Ids \ {i} : Same(j) /\ SameView(j) /\ SameTmp(j) /\ OpOn(j)' = OpOn(j)
  <2> SUFFICES ASSUME NEW j \in Ids \ {i} PROVE Same(j) /\ SameView(j) /\ SameTmp(j) /\ OpOn(j)' = OpOn(j)
    OBVIOUS
  <2>1. Same(j)
    BY <1>1 DEF Same, memory, disk
  <2> QED BY <2>1, ViewKept, TmpKept DEF SameView
<1>3. PICK e \in Entry : /\ e = entries[i] /\ Disk(i) /\ Record(i) /\ Remembered(i, e) /\ Working(i, e)
                         /\ i \in active /\ e.state # "ended" /\ e # Nothing
                         /\ \A op : InQueue(queue, op, i) => op \notin {"start", "finish"}
  BY RunningEntry, EntryFields
<1>4. SameView(i) /\ entries'[i] = e /\ active' = active /\ life' = life
      /\ json' = json /\ tmp' = tmp /\ log' = log /\ synced' = synced
  BY <1>3, ViewKept DEF memory, disk
<1>5. e.logBytes \in Nat /\ e.reserved \in Nat
  BY EntryFields, Limits
<1>6. Disk(i)'
  <2>1. log[i] # Nothing => Len(log[i]) \in Nat
    BY LogIn
  <2> QED BY <1>1, <1>3, <1>4, <2>1 DEF Disk, Claims, Bytes
<1>7. i \in Captured /\ Stream(i, e) => Stream(i, e)'
  <2> SUFFICES ASSUME i \in Captured, Stream(i, e) PROVE Stream(i, e)'
    OBVIOUS
  <2>1. ~(phase = "ready" /\ e.accepting) /\ phase' = phase
    BY <1>3
  <2>2. ChunkOn(i)' = ChunkOn(i)
    BY <1>4 DEF SameView
  <2> QED BY <1>1, <1>5, <2>1, <2>2 DEF Stream
<1>8. i \in Captured /\ Capturing(i, e) => Capturing(i, e)'
  BY <1>4, <1>7 DEF Capturing, SameView
<1>9. Remembered(i, e)'
  BY <1>1, <1>3, <1>4, <1>5, <1>8 DEF Remembered, Accounts, SameView, TextBytes
<1>10. Working(i, e)'
  BY <1>3, <1>4 DEF Working, SameView
<1>11. Record(i)'
  BY <1>3, <1>4, <1>9, <1>10 DEF Record, SameView
<1>12. Sound'
  BY <1>2, <1>6, <1>11, SoundStep
<1>13. Typed'
  BY <1>1 DEF Typed, memory, disk
<1>14. QueueOK'
  <2>1. \A op \in {"start", "append", "finish"} : InQueue(queue, op, i) /\ JobOK(op, i) => JobOK(op, i)'
    BY <1>4 DEF JobOK, SameView, memory
  <2>2. active' \subseteq Ids /\ entries' = entries
    BY DEF Typed, memory
  <2> QED BY <1>2, <2>1, <2>2, QueueKept
<1>15. CurOK' /\ Balance' /\ Backlog'
  <2>1. CurOK'
    BY CurKept DEF memory, disk
  <2>2. Needs' = Needs /\ Unwritten' = Unwritten
    BY DEF Needs, Unwritten
  <2> QED BY <2>1, <2>2, BooksKept DEF memory, Balance
<1>16. DownOK'
  BY DEF DownOK
<1> QED BY <1>12, <1>13, <1>14, <1>15, <1>16

\* What is kept is the beginning of the output, as long as it fits; the rest ends the capture.
LEMMA OutputKept ==
  ASSUME IInv, NEW i \in Captured, NEW e \in Entry, e = entries[i], life[i] = "running", phase = "ready", e.accepting,
         NEW n \in Nat \ {0}, printed[i] + n <= MaxPrinted, printed' = [printed EXCEPT ![i] = @ + n],
         NEW f \in {Accepted(e, Offsets(printed[i], n))}, entries' = [entries EXCEPT ![i] = f],
         pendingBytes' = pendingBytes + (f.reserved - e.reserved),
         IF f.queued /\ ~e.queued THEN Enqueue("append", i) ELSE UNCHANGED queue,
         UNCHANGED <<life, phase, active, sequence, bytes, cur, disk>>
  PROVE  IInv'
<1> USE DEF IInv
<1>1. i \in Ids /\ printed' \in [Ids -> 0..MaxPrinted] /\ printed'[i] = printed[i] + n /\ printed[i] \in Nat
      /\ \A j \in Ids \ {i} : printed'[j] = printed[j]
  BY Limits DEF Typed
<1>2. /\ e # Nothing /\ Disk(i) /\ Record(i) /\ Remembered(i, e) /\ Working(i, e)
      /\ i \in active /\ e.state # "ended" /\ OpOn(i) \notin {"start", "finish"}
      /\ \A op : InQueue(queue, op, i) => op \notin {"start", "finish"}
  BY <1>1, RunningEntry, EntryFields
<1>3. /\ e.logBytes \in Nat /\ e.reserved \in 0..MaxLog /\ e.pending \in Seq(Nat) /\ Len(e.pending) \in Nat
      /\ Len(ChunkOn(i)) \in Nat /\ e.queued \in BOOLEAN
  BY EntryFields, EmptyOrNot, CurFields DEF ChunkOn
<1>4. /\ ~e.writeFailed /\ Capturing(i, e) /\ Stream(i, e) /\ e.reserved = printed[i]
  <2>1. Capturing(i, e)
    BY <1>2 DEF Remembered
  <2>2. ~e.writeFailed
    BY <2>1 DEF Capturing
  <2>3. Stream(i, e)
    BY <2>1, <2>2 DEF Capturing
  <2> QED BY <2>1, <2>2, <2>3 DEF Stream
<1>5. Room(e) \in Nat /\ Room(e) <= MaxLog - e.reserved /\ Room(e) <= MaxPending - pendingBytes
      /\ pendingBytes \in Int
  <2>1. pendingBytes \in Int /\ pendingBytes <= MaxPending
    BY DEF Typed, Backlog
  <2>2. MaxLog - e.reserved \in Nat /\ MaxPending - pendingBytes \in Nat
    BY <1>3, <2>1, Limits
  <2>3. Room(e) = IF MaxLog - e.reserved <= MaxPending - pendingBytes
                    THEN MaxLog - e.reserved ELSE MaxPending - pendingBytes
    BY <2>2, LesserOfTwo DEF Room
  <2> QED BY <2>1, <2>2, <2>3
<1>6. PICK m \in 0..n : m = Min({n, Room(e)}) /\ m <= Room(e)
  <2>1. Min({n, Room(e)}) = IF n <= Room(e) THEN n ELSE Room(e)
    BY <1>5, LesserOfTwo
  <2> QED BY <1>5, <2>1
<1>7. PICK kept : kept = Offsets(printed[i], m)
  OBVIOUS
<1>8. kept \in Seq(Nat) /\ Len(kept) = m /\ (m = 0 <=> kept = <<>>)
  <2>1. m \in Nat
    OBVIOUS
  <2>2. kept \in Seq(Nat) /\ Len(kept) = m
    BY <1>1, <1>7, <2>1, OffsetsTyped
  <2> QED BY <2>2, EmptyOrNot
<1>10. f = Extended(e, kept, n)
  <2> DEFINE o == Offsets(printed[i], n)
  <2>1. Len(o) = n
    BY <1>1, OffsetsTyped
  <2>2. SubSeq(o, 1, Min({Len(o), Room(e)})) = kept
    <3>1. SubSeq(o, 1, m) = kept
      BY <1>1, <1>7, OffsetsPart
    <3> QED BY <1>6, <2>1, <3>1
  <2> HIDE DEF o
  <2>3. Accepted(e, o) = Extended(e, kept, n)
    BY <1>8, <2>1, <2>2 DEF Accepted, Extended
  <2> QED BY <2>3 DEF o
<1>11. /\ f \in Entry /\ f # Nothing /\ f.state = e.state /\ f.seq = e.seq
       /\ f.metaBytes = e.metaBytes /\ f.logBytes = e.logBytes /\ f.writeFailed = e.writeFailed
       /\ f.pending = e.pending \o kept /\ f.reserved = e.reserved + m
       /\ (f.accepting => m = n) /\ (e.truncated => f.truncated) /\ (f.queued <=> e.queued \/ kept # <<>>)
  <2>1. e.reserved + Len(kept) <= MaxLog
    BY <1>3, <1>5, <1>6, <1>8, Limits
  <2>2. f \in {Extended(e, kept, n)} /\ n \in Nat
    BY <1>10
  <2> HIDE DEF IInv
  <2>3. /\ f \in Entry /\ f.state = e.state /\ f.seq = e.seq
        /\ f.metaBytes = e.metaBytes /\ f.logBytes = e.logBytes
        /\ f.reserved = e.reserved + Len(kept)
    BY <1>8, <2>1, <2>2, ExtendedFields
  <2>4. f.pending = e.pending \o kept
    BY <1>8, <2>1, <2>2, ExtendedFields, Zenon
  <2>5. f.writeFailed = e.writeFailed
    BY <1>8, <2>1, <2>2, ExtendedFields
  <2>6. (f.accepting => m >= n) /\ (e.truncated => f.truncated) /\ (f.queued <=> e.queued \/ kept # <<>>)
    BY <1>8, <2>1, <2>2, ExtendedFields
  <2>7. f # Nothing
    BY <2>3, EntryFields
  <2> QED BY <1>8, <2>3, <2>4, <2>5, <2>6, <2>7
<1>12. entries' \in [Ids -> Entry \cup {Nothing}] /\ entries'[i] = f /\ \A j \in Ids \ {i} : entries'[j] = entries[j]
  BY <1>1, <1>11, OthersEntries
<1>13. Len(f.pending) = Len(e.pending) + m /\ f.pending \in Seq(Nat)
  <2>1. PICK p \in Seq(Nat), q \in Seq(Nat) : p = e.pending /\ q = kept
    BY <1>3, <1>8
  <2>2. Len(p \o q) = Len(p) + Len(q) /\ p \o q \in Seq(Nat)
    BY Joined
  <2> QED BY <1>8, <1>11, <2>1, <2>2
<1>14. f.queued => e.queued \/ m # 0
  BY <1>8, <1>11
<1>15. f.pending # <<>> => f.queued
  <2>1. e.pending # <<>> => e.queued
    BY <1>2 DEF Remembered
  <2>2. f.pending # <<>> => Len(e.pending) # 0 \/ m # 0
    BY <1>3, <1>13, EmptyOrNot
  <2> QED BY <1>3, <1>8, <1>11, <2>1, <2>2, EmptyOrNot
<1>16. \A j \in Ids \ {i} : Same(j) /\ SameView(j) /\ SameTmp(j) /\ OpOn(j)' = OpOn(j)
  <2> SUFFICES ASSUME NEW j \in Ids \ {i} PROVE Same(j) /\ SameView(j) /\ SameTmp(j) /\ OpOn(j)' = OpOn(j)
    OBVIOUS
  <2>1. Same(j)
    BY <1>1, <1>12 DEF Same, disk
  <2> QED BY <2>1, ViewKept, TmpKept DEF SameView
<1>17. SameView(i) /\ active' = active /\ life' = life /\ phase' = phase
       /\ json' = json /\ tmp' = tmp /\ log' = log /\ synced' = synced
  BY ViewKept DEF disk
<1>18. Disk(i)'
  <2>1. log[i] # Nothing => Len(log[i]) \in Nat
    BY <1>1, LogIn
  <2> QED BY <1>1, <1>2, <1>17, <2>1 DEF Disk, Claims, Bytes
<1>19. Stream(i, f)'
  <2>1. PICK c : c = ChunkOn(i) /\ ChunkOn(i)' = c
    BY <1>17 DEF SameView
  <2>2. /\ c = Offsets(e.logBytes, Len(c)) /\ e.pending = Offsets(e.logBytes + Len(c), Len(e.pending))
        /\ e.reserved = e.logBytes + Len(c) + Len(e.pending)
    BY <1>4, <2>1 DEF Stream
  <2>3. e.logBytes + Len(c) \in Nat /\ printed[i] = (e.logBytes + Len(c)) + Len(e.pending)
    BY <1>3, <1>4, <2>1, <2>2
  <2>4. f.pending = Offsets(e.logBytes + Len(c), Len(e.pending) + m)
    <3>1. PICK a \in Nat : a = e.logBytes + Len(c)
      BY <2>3
    <3>2. m \in Nat
      OBVIOUS
    <3>3. Offsets(a, Len(e.pending)) \o Offsets(a + Len(e.pending), m) = Offsets(a, Len(e.pending) + m)
      BY <1>3, <3>2, OffsetsJoin
    <3> QED BY <1>7, <1>11, <2>2, <2>3, <3>1, <3>3
  <2>5. f.reserved = f.logBytes + Len(c) + Len(f.pending)
    BY <1>3, <1>11, <1>13, <2>1, <2>2
  <2>6. f.reserved <= printed'[i] /\ (f.accepting => f.reserved = printed'[i])
    <3>1. f.reserved = printed[i] + m /\ (f.accepting => m = n)
      BY <1>4, <1>11
    <3> QED BY <1>1, <3>1
  <2> QED BY <1>11, <1>13, <2>1, <2>2, <2>4, <2>5, <2>6 DEF Stream
<1>20. Capturing(i, f)'
  BY <1>4, <1>11, <1>17, <1>19 DEF Capturing, SameView
<1>21. Remembered(i, f)'
  <2>1. Accounts(i, f)'
    BY <1>1, <1>2, <1>3, <1>11, <1>17 DEF Remembered, Accounts, TextBytes
  <2> QED BY <1>2, <1>11, <1>15, <1>17, <1>20, <2>1 DEF Remembered, SameView
<1>22. Working(i, f)'
  BY <1>2, <1>4, <1>11, <1>17 DEF Working, SameView
<1>23. Record(i)'
  BY <1>2, <1>11, <1>12, <1>17, <1>21, <1>22 DEF Record, SameView
<1>24. Sound'
  BY <1>1, <1>16, <1>18, <1>23, SoundStep
<1>25. queue' \in Seq(Job) /\ QueueOK'
  <2>1. active' \subseteq Ids
    BY <1>17 DEF Typed
  <2>2. JobOK("append", i) => JobOK("append", i)'
    BY <1>11, <1>12, <1>17 DEF JobOK, SameView
  <2>3. ~JobOK("start", i) /\ ~JobOK("finish", i)
    BY <1>2 DEF JobOK
  <2>4. CASE f.queued /\ ~e.queued
    <3>1. PICK job : job = [op |-> "append", id |-> i]
      OBVIOUS
    <3>2. job \in Job /\ job.op = "append" /\ job.id = i
      BY <1>1, <3>1 DEF Job
    <3>3. queue' = Append(queue, job)
      BY <2>4, <3>1 DEF Enqueue
    <3>4. JobOK("append", i)' /\ ~InQueue(queue, "append", i) /\ ~InQueue(queue, "finish", i)
      BY <1>2, <1>12, <1>17, <2>4, InQueueOK DEF JobOK, SameView
    <3> QED BY <1>1, <1>12, <1>16, <2>1, <2>2, <2>3, <2>4, <3>2, <3>3, <3>4, QueuePush
  <2>5. CASE ~(f.queued /\ ~e.queued)
    <3>1. queue' = queue
      BY <2>5
    <3>2. entries'[i].queued => e.queued
      BY <1>12, <2>5
    <3>3. QueueOK'
      BY <1>1, <1>2, <1>16, <2>1, <2>2, <2>3, <3>1, <3>2, QueueKept
    <3> QED BY <3>1, <3>3 DEF Typed
  <2> QED BY <2>4, <2>5
<1>26. Typed'
  <2>1. pendingBytes' \in Int
    BY <1>3, <1>5, <1>11
  <2> QED BY <1>1, <1>12, <1>17, <1>25, <2>1 DEF Typed
<1>27. CurOK'
  <2>1. Saving => cur.id # i
    BY <1>2, SavingOp DEF OpOn
  <2>2. Saving => entries'[cur.id] = entries[cur.id]
    <3> SUFFICES ASSUME Saving PROVE entries'[cur.id] = entries[cur.id]
      OBVIOUS
    <3>1. cur.id \in Ids
      BY SavingOp, CurFields DEF CurOK
    <3> QED BY <1>12, <2>1, <3>1
  <2>3. \A j \in Ids : (entries'[j] # Nothing) = (entries[j] # Nothing)
    BY <1>2, <1>11, <1>12
  <2> QED BY <1>17, <2>2, <2>3, CurKept
<1>28. Balance' /\ Backlog'
  <2>1. Needs' = Needs /\ Unwritten' = Unwritten
    BY DEF Needs, Unwritten
  <2>2. /\ EntrySizes'[i] = EntrySizes[i] /\ PendingSizes[i] = Len(e.pending)
        /\ PendingSizes'[i] = Len(e.pending) + m
    BY <1>1, <1>2, <1>11, <1>12, <1>13 DEF EntrySizes, PendingSizes
  <2>3. /\ Total(EntrySizes', Ids) = Total(EntrySizes, Ids)
        /\ Total(PendingSizes', Ids) = Total(PendingSizes, Ids) + m
    <3>1. /\ Total(EntrySizes', Ids) = Total(EntrySizes, Ids) - EntrySizes[i] + EntrySizes'[i]
          /\ Total(PendingSizes', Ids) = Total(PendingSizes, Ids) - PendingSizes[i] + PendingSizes'[i]
          /\ Total(EntrySizes, Ids) \in Nat /\ EntrySizes[i] \in Nat
          /\ Total(PendingSizes, Ids) \in Nat
      BY <1>1, <1>12, <1>26, BooksStep
    <3> QED BY <1>3, <2>2, <3>1
  <2>4. Known' = Known
    BY <1>1, <1>2, <1>11, <1>12 DEF Known
  <2>5. Balance'
    BY <2>1, <2>3, <2>4 DEF Balance
  <2>6. pendingBytes' = pendingBytes + m
    BY <1>3, <1>5, <1>11
  <2>7. Total(PendingSizes, Ids) \in Nat /\ Unwritten \in Nat
    BY <1>1, <1>12, <1>26, BooksStep, CurFields, EmptyOrNot DEF Unwritten
  <2>8. pendingBytes = Total(PendingSizes, Ids) + Unwritten
    BY DEF Backlog
  <2>9. pendingBytes' = Total(PendingSizes', Ids) + Unwritten' /\ pendingBytes' <= MaxPending
    BY <1>5, <1>6, <2>1, <2>3, <2>6, <2>7, <2>8, Limits
  <2>10. Backlog'
    BY <2>9 DEF Backlog
  <2> QED BY <2>5, <2>10
<1>29. DownOK'
  BY DEF DownOK
<1> QED BY <1>24, <1>25, <1>26, <1>27, <1>28, <1>29

LEMMA OutputIInv == ASSUME IInv, NEW i \in Ids, NEW n \in 1..MaxPrinted, Output(i, n) PROVE IInv'
<1>1. /\ life[i] = "running" /\ phase # "down" /\ n \in Nat \ {0} /\ printed[i] + n <= MaxPrinted
      /\ printed' = [printed EXCEPT ![i] = @ + n]
      /\ UNCHANGED <<life, phase, active, sequence, bytes, cur, disk>>
  BY Limits DEF Output
<1>2. CASE phase = "ready" /\ i \in Captured /\ entries[i] # Nothing /\ entries[i].accepting
  <2>1. PICK e : e = entries[i]
    OBVIOUS
  <2>2. PICK f : f = Accepted(e, Offsets(printed[i], n))
    OBVIOUS
  <2>3. /\ entries' = [entries EXCEPT ![i] = f] /\ pendingBytes' = pendingBytes + (f.reserved - e.reserved)
        /\ IF f.queued /\ ~e.queued THEN Enqueue("append", i) ELSE UNCHANGED queue
    BY <1>2, <2>1, <2>2 DEF Output
  <2>4. e \in Entry /\ f \in {Accepted(e, Offsets(printed[i], n))}
    BY <1>2, <2>1, <2>2, EntryIn DEF IInv
  <2> QED BY <1>1, <1>2, <2>1, <2>3, <2>4, OutputKept
<1>3. CASE ~(phase = "ready" /\ i \in Captured /\ entries[i] # Nothing /\ entries[i].accepting)
  <2>1. UNCHANGED <<entries, pendingBytes, queue>>
    BY <1>3 DEF Output
  <2>2. entries[i] # Nothing
    BY <1>1, RunningEntry
  <2> QED BY <1>1, <1>3, <2>1, <2>2, OutputLost DEF memory
<1> QED BY <1>2, <1>3

-----------------------------------------------------------------------------
(* A job ends.                                                                *)

LEMMA JobOver ==
  ASSUME IInv, cur.at # "idle", cur' = Idle
  PROVE  /\ CurOK' /\ cur' \in CurType /\ Needs' = 0 /\ Unwritten' = 0 /\ bytes <= MaxTotal /\ phase # "down"
         /\ \A j \in Ids : OpOn(j)' = "none" /\ PlaceOn(j)' = "idle" /\ ChunkOn(j)' = <<>>
         /\ \A j \in Ids \ {cur.id} : SameView(j) /\ SameTmp(j) /\ OpOn(j)' = OpOn(j)
<1>1. phase # "down" /\ Typed /\ CurOK /\ Sound
  BY AtWork DEF IInv
<1>2. Idle.op = "none" /\ Idle.id = Nothing /\ Idle.at = "idle" /\ Idle.chunk = <<>> /\ Idle \in CurType
  BY DEF Idle, CurType
<1>3. CurOK'
  BY DEF CurOK, Place, Evicting, Places, Saving, Idle
<1>4. Needs' = 0 /\ Unwritten' = 0
  BY <1>2 DEF Unwritten, Needs
<1>5. bytes <= MaxTotal
  <2>1. Needs \in Nat /\ bytes \in Int /\ bytes + Needs <= MaxTotal
    BY <1>1, NeedsTyped DEF IInv, Typed, Balance
  <2> QED BY <2>1, Limits
<1>6. \A j \in Ids : OpOn(j)' = "none" /\ PlaceOn(j)' = "idle" /\ ChunkOn(j)' = <<>>
  BY <1>2, Limits DEF OpOn, PlaceOn, ChunkOn
<1>7. \A j \in Ids \ {cur.id} : SameView(j) /\ SameTmp(j) /\ OpOn(j)' = OpOn(j)
  BY <1>1, <1>2, ViewElsewhere, TmpElsewhere, Limits DEF SameView
<1> QED BY <1>1, <1>2, <1>3, <1>4, <1>5, <1>6, <1>7

\* A clear stops where it is.
LEMMA FailClearIInv ==
  ASSUME IInv, cur.at # "idle", cur.op = "clear", cur' = Idle, UNCHANGED <<commands, phase, memory, queue, disk>>
  PROVE  IInv'
<1>1. /\ CurOK' /\ cur' \in CurType /\ Needs' = 0 /\ Unwritten' = 0 /\ bytes <= MaxTotal /\ phase # "down"
      /\ \A j \in Ids \ {cur.id} : SameView(j) /\ SameTmp(j) /\ OpOn(j)' = OpOn(j)
  BY JobOver
<1>2. cur.id = Nothing /\ Unwritten = 0
  BY AtWork DEF Unwritten
<1> USE DEF IInv
<1>3. \A j \in Ids \ {Nothing} : Same(j) /\ SameView(j) /\ SameTmp(j) /\ OpOn(j)' = OpOn(j)
  BY <1>1, <1>2 DEF Same, commands, memory, disk
<1>4. Sound'
  BY <1>1, <1>3, SoundStep, Limits
<1>5. Typed'
  BY <1>1 DEF Typed, commands, memory, disk
<1>6. QueueOK'
  <2>1. \A op \in {"start", "append", "finish"} : ~JobOK(op, Nothing)
    BY Limits DEF JobOK, Typed
  <2>2. active' \subseteq Ids
    BY DEF Typed, memory
  <2> QED BY <1>3, <2>1, <2>2, QueueKept, Limits
<1>7. Balance' /\ Backlog'
  <2>1. bytes + Needs' <= MaxTotal
    BY <1>1 DEF Typed
  <2> QED BY <1>1, <1>2, <2>1, BooksKept DEF memory
<1>8. DownOK'
  BY <1>1 DEF DownOK
<1> QED BY <1>1, <1>4, <1>5, <1>6, <1>7, <1>8

\* A start that fails leaves nothing.
LEMMA FailStartIInv ==
  ASSUME IInv, cur.at # "idle", cur.op = "start", Undone(cur.id), cur' = Idle,
         UNCHANGED <<printed, phase, sequence, queue>>
  PROVE  IInv'
<1>0. PICK i : i = cur.id
  OBVIOUS
<1>1. /\ CurOK' /\ cur' \in CurType /\ Needs' = 0 /\ Unwritten' = 0 /\ bytes <= MaxTotal /\ phase # "down"
      /\ \A j \in Ids : OpOn(j)' = "none" /\ PlaceOn(j)' = "idle" /\ ChunkOn(j)' = <<>>
      /\ \A j \in Ids \ {i} : SameView(j) /\ SameTmp(j) /\ OpOn(j)' = OpOn(j)
  BY <1>0, JobOver
<1>2. i \in Ids /\ Unwritten = 0
  BY <1>0, AtWork DEF Unwritten
<1> USE DEF IInv
<1>3. /\ entries' = [entries EXCEPT ![i] = Nothing] /\ active' = active \ {i}
      /\ json' = [json EXCEPT ![i] = Nothing] /\ tmp' = [tmp EXCEPT ![i] = Nothing]
      /\ log' = [log EXCEPT ![i] = Nothing] /\ synced' = [synced EXCEPT ![i] = 0]
      /\ life' = [life EXCEPT ![i] = "unarchived"] /\ bytes' = bytes /\ pendingBytes' = pendingBytes
  BY <1>0 DEF Undone
<1>4. /\ entries'[i] = Nothing /\ i \notin active' /\ json'[i] = Nothing /\ tmp'[i] = Nothing /\ log'[i] = Nothing
      /\ synced'[i] = 0 /\ life'[i] = "unarchived"
  BY <1>2, <1>3 DEF Typed
<1>5. Typed'
  BY <1>1, <1>3 DEF Typed, Lives
<1>6. \A j \in Ids \ {i} : Same(j)
  BY <1>2, <1>3 DEF Same, Typed
<1>7. Disk(i) /\ Record(i) /\ OpOn(i) = "start" /\ life[i] = "starting"
  BY <1>0, <1>1, <1>2 DEF Sound, OpOn, Record
<1>8. Sound'
  <2>1. Disk(i)'
    BY <1>4, <1>7 DEF Disk, Bytes
  <2>2. Record(i)'
    BY <1>1, <1>2, <1>4 DEF Record, Forgotten
  <2> QED BY <1>1, <1>2, <1>6, <2>1, <2>2, SoundStep
<1>9. ASSUME entries[i] # Nothing
      PROVE  ~entries[i].queued /\ EntrySizes[i] = 0 /\ PendingSizes[i] = 0
  <2>1. PICK e \in Entry : e = entries[i] /\ Remembered(i, e) /\ Working(i, e)
    BY <1>2, <1>7, <1>9, EntryIn DEF Record
  <2>2. /\ ~e.queued /\ ~e.writeFailed /\ e.metaBytes = 0 /\ e.reserved = 0 /\ e.logBytes = 0
        /\ i \in active
    BY <1>7, <2>1 DEF Working, Remembered
  <2>3. Len(e.pending) = 0
    <3>1. CASE i \in Captured
      <4>1. Stream(i, e)
        BY <2>1, <2>2, <3>1 DEF Remembered, Capturing
      <4>2. Len(ChunkOn(i)) \in Nat /\ Len(e.pending) \in Nat
        BY EntryFields, CurFields, EmptyOrNot DEF ChunkOn
      <4>3. 0 = 0 + Len(ChunkOn(i)) + Len(e.pending)
        BY <2>2, <4>1 DEF Stream
      <4> QED BY <4>2, <4>3
    <3>2. CASE i \notin Captured
      BY <2>1, <3>2 DEF Remembered, Resting
    <3> QED BY <3>1, <3>2
  <2> QED BY <1>2, <1>9, <2>1, <2>2, <2>3 DEF EntrySizes, PendingSizes
<1>10. QueueOK'
  <2>1. \A op \in {"start", "append", "finish"} : ~JobOK(op, i)
    BY <1>7, <1>9 DEF JobOK, Record, Forgotten
  <2>2. active' \subseteq Ids
    BY <1>5 DEF Typed
  <2> QED BY <1>1, <1>2, <1>4, <1>6, <2>1, <2>2, QueueKept
<1>11. Balance' /\ Backlog'
  <2>1. EntrySizes[i] = 0 /\ PendingSizes[i] = 0 /\ EntrySizes'[i] = 0 /\ PendingSizes'[i] = 0
    BY <1>2, <1>4, <1>9 DEF EntrySizes, PendingSizes
  <2>2. \A j \in Ids \ {i} : entries'[j] = entries[j]
    BY <1>6 DEF Same
  <2>3. Total(EntrySizes', Ids) = Total(EntrySizes, Ids) /\ Total(PendingSizes', Ids) = Total(PendingSizes, Ids)
    <3>1. /\ Total(EntrySizes', Ids) = Total(EntrySizes, Ids) - EntrySizes[i] + EntrySizes'[i]
          /\ Total(PendingSizes', Ids) = Total(PendingSizes, Ids) - PendingSizes[i] + PendingSizes'[i]
          /\ Total(EntrySizes, Ids) \in Nat /\ Total(PendingSizes, Ids) \in Nat
      BY <1>2, <1>5, <2>2, BooksStep
    <3> QED BY <2>1, <3>1
  <2>4. Cardinality(Known') <= MaxRecords
    <3>1. Known' \subseteq Known
      BY <1>2, <1>4, <2>2 DEF Known
    <3>2. Cardinality(Known') <= Cardinality(Known) /\ Cardinality(Known') \in Nat
      BY <3>1, KnownIsFinite, FS_Subset, FS_CardinalityType
    <3> QED BY <3>2, KnownIsFinite, Limits DEF Balance
  <2>5. Balance'
    BY <1>1, <1>3, <2>3, <2>4 DEF Balance, Typed
  <2>6. Backlog'
    BY <1>1, <1>2, <1>3, <2>3 DEF Backlog
  <2> QED BY <2>5, <2>6
<1>12. DownOK'
  BY <1>1 DEF DownOK
<1> QED BY <1>1, <1>5, <1>8, <1>10, <1>11, <1>12

\* A metadata file that cannot be written at the end: the record goes without it, and is not complete.
Marked(e, t) == [e EXCEPT !.truncated = t]

LEMMA MarkedFields ==
  ASSUME NEW e \in Entry, NEW t \in BOOLEAN, NEW f \in {Marked(e, t)}
  PROVE  /\ f \in Entry /\ f # Nothing /\ f.seq = e.seq /\ f.state = e.state /\ f.truncated = t
         /\ f.metaBytes = e.metaBytes /\ f.logBytes = e.logBytes /\ f.reserved = e.reserved
         /\ f.accepting = e.accepting /\ f.writeFailed = e.writeFailed
         /\ f.pending = e.pending /\ f.queued = e.queued
<1>1. f \in Entry
  BY DEF Entry, Marked
<1>2. f # Nothing
  BY <1>1, EntryFields
<1> QED BY <1>1, <1>2 DEF Entry, Marked

LEMMA FailFinishIInv ==
  ASSUME IInv, cur.at # "idle", cur.op = "finish", cur' = Idle,
         entries' = [entries EXCEPT ![cur.id].truncated = @ \/ cur.id \in Captured],
         active' = FreedBy(cur.id), tmp' = [tmp EXCEPT ![cur.id] = Nothing],
         UNCHANGED <<commands, phase, sequence, bytes, pendingBytes, queue, json, log, synced>>
  PROVE  IInv'
<1>0. PICK i : i = cur.id
  OBVIOUS
<1>1. /\ CurOK' /\ cur' \in CurType /\ Needs' = 0 /\ Unwritten' = 0 /\ bytes <= MaxTotal /\ phase # "down"
      /\ \A j \in Ids : OpOn(j)' = "none" /\ PlaceOn(j)' = "idle" /\ ChunkOn(j)' = <<>>
      /\ \A j \in Ids \ {i} : SameView(j) /\ SameTmp(j) /\ OpOn(j)' = OpOn(j)
  BY <1>0, JobOver
<1>2. i \in Ids /\ Unwritten = 0 /\ OpOn(i) = "finish"
  BY <1>0, AtWork DEF Unwritten, OpOn
<1> USE DEF IInv
<1>3. Disk(i) /\ Record(i) /\ entries[i] # Nothing
  BY <1>1, <1>2 DEF Sound, Record, Forgotten
<1>4. PICK e \in Entry : e = entries[i] /\ Remembered(i, e) /\ Working(i, e)
  BY <1>2, <1>3, EntryIn DEF Record
<1>5. PICK t \in BOOLEAN : t = (e.truncated \/ i \in Captured) /\ (i \in Captured => t)
  <2>1. (e.truncated \/ i \in Captured) \in BOOLEAN
    OBVIOUS
  <2> QED BY <2>1
<1>6. PICK f \in {Marked(e, t)} : TRUE
  OBVIOUS
<1>7. /\ f \in Entry /\ f # Nothing /\ f.state = e.state /\ f.truncated = t
      /\ f.metaBytes = e.metaBytes /\ f.logBytes = e.logBytes
      /\ f.accepting = e.accepting /\ f.pending = e.pending /\ f.queued = e.queued
  BY MarkedFields
<1>8. entries' = [entries EXCEPT ![i] = f]
  <2>1. entries' = [entries EXCEPT ![i] = [entries[i] EXCEPT !.truncated = entries[i].truncated \/ i \in Captured]]
    BY <1>0
  <2> QED BY <1>4, <1>5, <1>6, <2>1 DEF Marked
<1>9. entries' \in [Ids -> Entry \cup {Nothing}] /\ entries'[i] = f /\ \A j \in Ids \ {i} : entries'[j] = entries[j]
  BY <1>2, <1>7, <1>8, OthersEntries
<1>10. active' = active \ {i} /\ tmp' \in [Ids -> Text \cup {Nothing}] /\ tmp'[i] = Nothing
       /\ \A j \in Ids \ {i} : tmp'[j] = tmp[j]
  BY <1>0, <1>2 DEF FreedBy, Typed
<1>11. \A j \in Ids \ {i} : Same(j)
  BY <1>9, <1>10 DEF Same, commands
<1>12. Typed'
  BY <1>1, <1>9, <1>10 DEF Typed, commands
<1>13. i \in active /\ e.state = "ended" /\ Resting(e) /\ life[i] = "finished"
  BY <1>2, <1>4 DEF Working, Remembered
<1>14. Sound'
  <2>1. life' = life /\ printed' = printed
    BY DEF commands
  <2>2. Disk(i)'
    BY <1>3, <1>10, <1>13, <2>1 DEF Disk, Claims, Bytes
  <2>3. Accounts(i, f)' /\ Resting(f)
    BY <1>4, <1>7, <1>13, <2>1 DEF Remembered, Accounts, TextBytes, Resting
  <2>4. Remembered(i, f)'
    BY <1>1, <1>2, <1>5, <1>7, <1>10, <1>13, <2>1, <2>3 DEF Remembered, Resting
  <2>5. Working(i, f)'
    BY <1>1, <1>2 DEF Working
  <2>6. Record(i)'
    BY <1>1, <1>2, <1>7, <1>9, <1>10, <1>13, <2>1, <2>4, <2>5 DEF Record
  <2> QED BY <1>1, <1>2, <1>11, <2>2, <2>6, SoundStep
<1>15. QueueOK'
  <2>1. \A op \in {"start", "append", "finish"} : ~JobOK(op, i)
    BY <1>2, <1>3 DEF JobOK
  <2>2. active' \subseteq Ids /\ ~entries'[i].queued
    BY <1>7, <1>9, <1>12, <1>13 DEF Typed, Resting
  <2> QED BY <1>1, <1>2, <1>11, <2>1, <2>2, QueueKept
<1>16. Balance' /\ Backlog'
  <2>1. EntrySizes' = EntrySizes /\ PendingSizes' = PendingSizes
    BY <1>2, <1>3, <1>4, <1>7, <1>9 DEF EntrySizes, PendingSizes
  <2>2. Known' = Known
    BY <1>3, <1>7, <1>9 DEF Known
  <2> QED BY <1>1, <1>2, <2>1, <2>2 DEF Balance, Backlog, Typed
<1>17. DownOK'
  BY <1>1 DEF DownOK
<1> QED BY <1>1, <1>12, <1>14, <1>15, <1>16, <1>17

\* What waits in memory is part of the output.
LEMMA PendingWithin ==
  ASSUME Typed, NEW i \in Ids, NEW e \in Entry, Stream(i, e)
  PROVE  e.pending \in Seq(1..MaxPrinted)
<1>1. printed[i] \in Nat /\ printed[i] <= MaxPrinted /\ MaxPrinted \in Nat
  BY Limits DEF Typed
<1>2. Len(ChunkOn(i)) \in Nat
  BY CurFields, EmptyOrNot DEF ChunkOn
<1>3. PICK b \in Nat, c \in Nat, n \in Nat : b = e.logBytes /\ c = Len(ChunkOn(i)) /\ n = Len(e.pending)
  BY <1>2, EntryFields, EmptyOrNot
<1>4. e.pending = Offsets(b + c, n) /\ b + c + n <= printed[i]
  BY <1>3 DEF Stream
<1>5. b + c \in Nat /\ (b + c) + n <= MaxPrinted
  BY <1>1, <1>4
<1> QED BY <1>1, <1>4, <1>5, OffsetsWithin

\* What an append leaves: the beginning of its chunk, of k offsets, is in the log.
LEMMA AppendingEntry ==
  ASSUME IInv, cur.at # "idle", cur.op = "append", NEW i, i = cur.id
  PROVE  /\ i \in Ids /\ i \in active /\ i \in Captured /\ OpOn(i) = "append" /\ ChunkOn(i) = cur.chunk
         /\ Disk(i) /\ Record(i) /\ entries[i] # Nothing /\ entries[i] \in Entry
         /\ Remembered(i, entries[i]) /\ Capturing(i, entries[i]) /\ Stream(i, entries[i])
         /\ ~entries[i].writeFailed /\ entries[i].state = "running"
         /\ log[i] # Nothing /\ log[i] \in Seq(Nat) /\ Len(log[i]) = entries[i].logBytes
         /\ log[i] = Offsets(0, entries[i].logBytes)
         /\ cur.chunk = Offsets(entries[i].logBytes, Len(cur.chunk))
<1> USE DEF IInv
<1>1. i \in Ids /\ OpOn(i) = "append" /\ ChunkOn(i) = cur.chunk /\ PlaceOn(i) \in {"room", "write"}
  BY AtWork DEF OpOn, ChunkOn, PlaceOn, CurOK, Places
<1>2. Disk(i) /\ Record(i) /\ entries[i] # Nothing
  BY <1>1, AtWork DEF Sound, Record, Forgotten
<1>3. entries[i] \in Entry /\ Remembered(i, entries[i]) /\ Working(i, entries[i])
  BY <1>1, <1>2, EntryIn DEF Record
<1>4. i \in active /\ i \in Captured /\ ~entries[i].writeFailed /\ entries[i].state = "running"
  BY <1>1, <1>3 DEF Working, Remembered
<1>5. Capturing(i, entries[i]) /\ log[i] # Nothing
  BY <1>1, <1>3, <1>4 DEF Remembered, Capturing
<1>6. Stream(i, entries[i])
  BY <1>4, <1>5 DEF Capturing
<1>7. log[i] \in Seq(Nat) /\ Len(log[i]) = entries[i].logBytes
  BY <1>1, <1>3, <1>5, LogIn DEF Remembered, Accounts
<1>8. log[i] = Offsets(0, entries[i].logBytes)
  BY <1>2, <1>5, <1>7 DEF Disk
<1>9. cur.chunk = Offsets(entries[i].logBytes, Len(cur.chunk))
  BY <1>1, <1>6 DEF Stream
<1> QED BY <1>1, <1>2, <1>3, <1>4, <1>5, <1>6, <1>7, <1>8, <1>9

Appended(i, e, k, f) ==
  /\ cur.at # "idle" /\ cur.op = "append" /\ i = cur.id /\ e \in Entry /\ e = entries[i]
  /\ k \in Nat /\ k <= Len(cur.chunk) /\ bytes + k <= MaxTotal
  /\ f \in Entry /\ f.state = e.state /\ f.metaBytes = e.metaBytes /\ f.logBytes = e.logBytes + k
  /\ f.reserved = e.reserved /\ f.pending = e.pending /\ f.queued = e.queued
  /\ \/ f.writeFailed /\ ~f.accepting
     \/ ~f.writeFailed /\ k = Len(cur.chunk) /\ (f.accepting => e.accepting)
  /\ entries' = [entries EXCEPT ![i] = f] /\ log' = [log EXCEPT ![i] = Offsets(0, e.logBytes + k)]
  /\ bytes' = bytes + k /\ pendingBytes' = pendingBytes - Len(cur.chunk) /\ cur' = Idle
  /\ UNCHANGED <<commands, phase, active, sequence, queue, json, tmp, synced>>

LEMMA AppendEnds == ASSUME IInv, NEW i, NEW e, NEW k, NEW f, Appended(i, e, k, f) PROVE IInv'
<1> USE DEF Appended
<1>1. /\ CurOK' /\ cur' \in CurType /\ Needs' = 0 /\ Unwritten' = 0 /\ bytes <= MaxTotal /\ phase # "down"
      /\ \A j \in Ids : OpOn(j)' = "none" /\ PlaceOn(j)' = "idle" /\ ChunkOn(j)' = <<>>
      /\ \A j \in Ids \ {i} : SameView(j) /\ SameTmp(j) /\ OpOn(j)' = OpOn(j)
  BY JobOver
<1>2. /\ i \in Ids /\ i \in active /\ i \in Captured /\ OpOn(i) = "append" /\ ChunkOn(i) = cur.chunk
      /\ Disk(i) /\ Record(i) /\ entries[i] # Nothing /\ e # Nothing
      /\ Remembered(i, e) /\ Capturing(i, e) /\ Stream(i, e) /\ ~e.writeFailed /\ e.state = "running"
      /\ log[i] # Nothing /\ Len(log[i]) = e.logBytes
  BY AppendingEntry
<1> USE DEF IInv
<1>3. /\ e.logBytes \in Nat /\ e.metaBytes \in Nat /\ e.reserved \in 0..MaxLog
      /\ e.pending \in Seq(Nat) /\ Len(e.pending) \in Nat /\ Len(cur.chunk) \in Nat
  BY EntryFields, EmptyOrNot, CurFields, Limits
<1>4. f # Nothing
  BY EntryFields
<1>5. entries' \in [Ids -> Entry \cup {Nothing}] /\ entries'[i] = f /\ \A j \in Ids \ {i} : entries'[j] = entries[j]
  BY <1>2, OthersEntries
<1>6. /\ Offsets(0, e.logBytes + k) \in Seq(Nat) /\ Len(Offsets(0, e.logBytes + k)) = e.logBytes + k
  <2>1. e.logBytes + k \in Nat
    BY <1>3
  <2> QED BY <2>1, OffsetsTyped
<1>7. Offsets(0, e.logBytes + k) # Nothing
  BY <1>6, NothingAssumption
<1>8. /\ log' \in [Ids -> Seq(Nat) \cup {Nothing}] /\ log'[i] = Offsets(0, e.logBytes + k)
      /\ \A j \in Ids \ {i} : log'[j] = log[j]
  BY <1>2, <1>6 DEF Typed
<1>9. \A j \in Ids \ {i} : Same(j)
  BY <1>5, <1>8 DEF Same, commands
<1>10. Typed'
  <2>1. bytes' \in Int /\ pendingBytes' \in Int
    BY <1>3 DEF Typed
  <2> QED BY <1>1, <1>5, <1>8, <2>1 DEF Typed, commands
<1>11. /\ e.reserved = e.logBytes + Len(cur.chunk) + Len(e.pending) /\ e.reserved <= printed[i]
       /\ e.pending = Offsets(e.logBytes + Len(cur.chunk), Len(e.pending))
       /\ (phase = "ready" /\ e.accepting => e.reserved = printed[i])
  BY <1>2 DEF Stream
<1>12. printed[i] \in Nat
  BY <1>2, Limits DEF Typed
<1>13. life' = life /\ printed' = printed
  BY DEF commands
<1>14. e.logBytes + k <= printed[i] /\ e.logBytes + k <= MaxLog
  <2>1. e.reserved \in Nat /\ e.reserved <= MaxLog /\ MaxLog \in Nat
    BY <1>3, Limits
  <2>2. k \in Nat /\ k <= Len(cur.chunk)
    OBVIOUS
  <2> HIDE DEF IInv, Appended
  <2>3. e.logBytes + k <= e.reserved
    BY <1>3, <1>11, <2>2
  <2>4. e.logBytes + k \in Nat
    BY <1>3, <2>2
  <2> QED BY <1>11, <1>12, <2>1, <2>3, <2>4
<1>15. Disk(i)'
  <2>1. log'[i] = Offsets(0, Len(log'[i])) /\ Len(log'[i]) <= printed'[i] /\ Len(log'[i]) <= MaxLog
    BY <1>6, <1>8, <1>13, <1>14
  <2>2. synced'[i] <= Len(log'[i])
    <3>1. synced[i] <= e.logBytes /\ synced[i] \in Nat
      BY <1>2 DEF Disk, Bytes, Typed
    <3> QED BY <1>3, <1>6, <1>8, <3>1
  <2> QED BY <1>2, <1>7, <1>8, <1>13, <2>1, <2>2 DEF Disk, Claims, Bytes, Record
<1>16. Record(i)'
  <2>1. Accounts(i, f)'
    BY <1>2, <1>6, <1>8, <1>13, <1>14 DEF Remembered, Accounts, TextBytes
  <2>2. ~f.writeFailed => Stream(i, f)'
    <3> SUFFICES ASSUME ~f.writeFailed PROVE Stream(i, f)'
      OBVIOUS
    <3>1. f.logBytes = e.logBytes + Len(cur.chunk) /\ (f.accepting => e.accepting)
      OBVIOUS
    <3>2. <<>> = Offsets(f.logBytes, 0) /\ Len(<<>>) = 0
      BY <1>3, <3>1, NoOffsets
    <3>3. f.pending = Offsets(f.logBytes + 0, Len(f.pending)) /\ f.reserved = f.logBytes + 0 + Len(f.pending)
      BY <1>3, <1>11, <3>1
    <3> QED BY <1>1, <1>2, <1>11, <1>13, <3>1, <3>2, <3>3 DEF Stream
  <2>3. Capturing(i, f)'
    <3>1. f.pending \in Seq(1..MaxPrinted)
      BY <1>2, PendingWithin
    <3> QED BY <1>7, <1>8, <2>2, <3>1 DEF Capturing
  <2>4. Remembered(i, f)'
    BY <1>1, <1>2, <1>13, <2>1, <2>3 DEF Remembered
  <2>5. Working(i, f)'
    BY <1>1, <1>2 DEF Working
  <2>6. life[i] # "starting" /\ tmp[i] = Nothing
    BY <1>2, AtWork DEF Record, CurOK, Places, Place, Evicting
  <2> QED BY <1>1, <1>2, <1>4, <1>5, <1>13, <2>4, <2>5, <2>6 DEF Record
<1>17. Sound'
  BY <1>1, <1>2, <1>9, <1>15, <1>16, SoundStep
<1>18. QueueOK'
  <2>1. \A op \in {"start", "append", "finish"} : JobOK(op, i) => JobOK(op, i)'
    BY <1>1, <1>2, <1>5, <1>13 DEF JobOK
  <2>2. active' \subseteq Ids
    BY DEF Typed
  <2> QED BY <1>1, <1>2, <1>5, <1>9, <2>1, <2>2, QueueKept
<1>19. Balance' /\ Backlog'
  <2>1. /\ EntrySizes[i] = e.metaBytes + e.logBytes /\ EntrySizes'[i] = e.metaBytes + (e.logBytes + k)
        /\ PendingSizes'[i] = PendingSizes[i]
    BY <1>2, <1>4, <1>5 DEF EntrySizes, PendingSizes
  <2>2. /\ Total(EntrySizes', Ids) = Total(EntrySizes, Ids) - EntrySizes[i] + EntrySizes'[i]
        /\ Total(PendingSizes', Ids) = Total(PendingSizes, Ids) - PendingSizes[i] + PendingSizes'[i]
        /\ Total(EntrySizes, Ids) \in Nat /\ Total(PendingSizes, Ids) \in Nat /\ PendingSizes[i] \in Nat
    BY <1>2, <1>5, <1>10, BooksStep
  <2>3. Total(EntrySizes', Ids) = Total(EntrySizes, Ids) + k /\ Total(PendingSizes', Ids) = Total(PendingSizes, Ids)
    <3>1. k \in Nat
      OBVIOUS
    <3> HIDE DEF IInv, Appended
    <3> QED BY <1>3, <2>1, <2>2, <3>1
  <2>4. Known' = Known
    BY <1>2, <1>4, <1>5 DEF Known
  <2>5. Balance'
    BY <1>1, <2>2, <2>3, <2>4 DEF Balance, Typed
  <2>6. Unwritten = Len(cur.chunk)
    BY DEF Unwritten
  <2>7. pendingBytes = Total(PendingSizes, Ids) + Len(cur.chunk) /\ pendingBytes <= MaxPending
    BY <2>6 DEF Backlog
  <2>8. pendingBytes' = Total(PendingSizes', Ids) + Unwritten' /\ pendingBytes' <= MaxPending
    BY <1>1, <1>3, <2>2, <2>3, <2>7, Limits
  <2> QED BY <2>5, <2>8 DEF Backlog
<1>20. DownOK'
  BY <1>1 DEF DownOK
<1> QED BY <1>1, <1>10, <1>17, <1>18, <1>19, <1>20

\* The log with a part of the chunk.
LEMMA LogGrows ==
  ASSUME IInv, cur.at # "idle", cur.op = "append", NEW i, i = cur.id, NEW k \in 0..Len(cur.chunk),
         NEW written, written = SubSeq(cur.chunk, 1, k) \/ (written = <<>> /\ k = 0)
  PROVE  /\ log[i] \o written = Offsets(0, entries[i].logBytes + k)
         /\ Len(log[i] \o written) = entries[i].logBytes + k /\ entries[i].logBytes + k \in Nat
<1>1. /\ entries[i] \in Entry /\ log[i] = Offsets(0, entries[i].logBytes)
      /\ cur.chunk = Offsets(entries[i].logBytes, Len(cur.chunk))
  BY AppendingEntry
<1>2. PICK b \in Nat : b = entries[i].logBytes
  BY <1>1, EntryFields
<1>3. PICK n \in Nat : n = Len(cur.chunk)
  BY CurFields, EmptyOrNot DEF IInv
<1>4. written = Offsets(b, k)
  <2>1. CASE written = SubSeq(cur.chunk, 1, k)
    <3>1. k \in 0..n
      BY <1>3
    <3>2. SubSeq(Offsets(b, n), 1, k) = Offsets(b, k)
      BY <3>1, OffsetsPart
    <3> QED BY <1>1, <1>2, <1>3, <2>1, <3>2
  <2>2. CASE written = <<>> /\ k = 0
    BY <2>2, NoOffsets
  <2> QED BY <2>1, <2>2
<1>5. k \in Nat /\ b + k \in Nat /\ 0 + b = b
  BY <1>3
<1>6. Offsets(0, b) \o Offsets(0 + b, k) = Offsets(0, b + k)
  BY <1>5, OffsetsJoin
<1>7. Len(Offsets(0, b + k)) = b + k
  BY <1>5, OffsetsTyped
<1> QED BY <1>1, <1>2, <1>4, <1>5, <1>6, <1>7

LEMMA FailedFields ==
  ASSUME NEW e \in Entry, NEW size \in Nat, NEW f \in {FailedWrite(e, size)}
  PROVE  /\ f \in Entry /\ f.state = e.state /\ f.metaBytes = e.metaBytes /\ f.logBytes = size
         /\ f.reserved = e.reserved /\ f.pending = e.pending /\ f.queued = e.queued
         /\ f.writeFailed = TRUE /\ f.accepting = FALSE
BY DEF Entry, FailedWrite

LEMMA FailAppendIInv ==
  ASSUME IInv, cur.at # "idle", cur.op = "append", NEW written, Fail(written),
         \/ written = <<>>
         \/ cur.at = "write" /\ \E n \in 0..Len(cur.chunk) : written = SubSeq(cur.chunk, 1, n)
  PROVE  IInv'
<1>1. PICK i : i = cur.id
  OBVIOUS
<1>2. PICK file : file = log[i] \o written
  OBVIOUS
<1>3. /\ log' = [log EXCEPT ![i] = file]
      /\ entries' = [entries EXCEPT ![i] = FailedWrite(entries[i], Len(file))]
      /\ bytes' = bytes + (Len(file) - entries[i].logBytes)
      /\ pendingBytes' = pendingBytes - Len(cur.chunk)
      /\ cur' = Idle /\ UNCHANGED <<commands, phase, active, sequence, queue, json, tmp, synced>>
  BY <1>1, <1>2 DEF Fail, Done, commands
<1>4. PICK e \in Entry : e = entries[i]
  BY <1>1, AppendingEntry
<1>5. Len(cur.chunk) \in Nat /\ bytes \in Int
  BY CurFields, EmptyOrNot DEF IInv, Typed
<1>6. PICK k \in 0..Len(cur.chunk) : /\ written = SubSeq(cur.chunk, 1, k) \/ (written = <<>> /\ k = 0)
                                     /\ k = 0 \/ cur.at = "write"
  BY <1>5
<1>7. file = Offsets(0, e.logBytes + k) /\ Len(file) = e.logBytes + k /\ e.logBytes + k \in Nat
  BY <1>1, <1>2, <1>4, <1>6, LogGrows
<1>8. k \in Nat /\ k <= Len(cur.chunk) /\ e.logBytes \in Nat
  BY <1>5, EntryFields
<1>9. bytes' = bytes + k
  BY <1>3, <1>4, <1>5, <1>7, <1>8
<1>10. bytes + k <= MaxTotal
  <2>1. bytes + Needs <= MaxTotal /\ Needs \in Nat
    BY NeedsTyped DEF IInv, Balance
  <2>2. k <= Needs
    <3>1. CASE k = 0
      BY <2>1, <3>1
    <3>2. CASE cur.at = "write"
      <4>1. Needs = Len(cur.chunk) + MaxMeta
        BY <3>2 DEF Needs
      <4> QED BY <1>5, <1>8, <4>1, Limits
    <3> QED BY <1>6, <3>1, <3>2
  <2> QED BY <1>5, <1>8, <2>1, <2>2, Limits
<1>11. PICK f \in {FailedWrite(e, e.logBytes + k)} : TRUE
  OBVIOUS
<1>12. /\ f \in Entry /\ f.state = e.state /\ f.metaBytes = e.metaBytes /\ f.logBytes = e.logBytes + k
       /\ f.reserved = e.reserved /\ f.pending = e.pending /\ f.queued = e.queued
       /\ f.writeFailed /\ ~f.accepting
  BY <1>7, <1>11, FailedFields
<1>13. entries' = [entries EXCEPT ![i] = f] /\ log' = [log EXCEPT ![i] = Offsets(0, e.logBytes + k)]
  BY <1>3, <1>4, <1>7, <1>11
<1>14. Appended(i, e, k, f)
  BY <1>1, <1>3, <1>4, <1>8, <1>9, <1>10, <1>12, <1>13 DEF Appended
<1> QED BY <1>14, AppendEnds

\* Whatever fails, and wherever the job stands.
LEMMA FailIInv ==
  ASSUME IInv, cur.at # "idle", NEW written, Fail(written),
         \/ written = <<>>
         \/ cur.at = "write" /\ \E n \in 0..Len(cur.chunk) : written = SubSeq(cur.chunk, 1, n)
  PROVE  IInv'
<1>1. cur.op \in {"start", "append", "finish", "clear"}
  BY AtWork, CurFields DEF IInv
<1>2. cur' = Idle /\ UNCHANGED <<printed, phase, sequence, queue, crashes>>
  BY DEF Fail, Done
<1>3. CASE cur.op = "start"
  <2>1. Undone(cur.id)
    BY <1>3 DEF Fail
  <2> QED BY <1>2, <1>3, <2>1, FailStartIInv
<1>4. CASE cur.op = "append"
  BY <1>4, FailAppendIInv
<1>5. CASE cur.op = "finish"
  <2>1. /\ entries' = [entries EXCEPT ![cur.id].truncated = @ \/ cur.id \in Captured]
        /\ active' = FreedBy(cur.id) /\ tmp' = [tmp EXCEPT ![cur.id] = Nothing]
        /\ UNCHANGED <<bytes, pendingBytes, json, log, synced, life>>
    BY <1>5 DEF Fail
  <2> QED BY <1>2, <1>5, <2>1, FailFinishIInv DEF commands
<1>6. CASE cur.op = "clear"
  <2>1. UNCHANGED <<entries, active, bytes, pendingBytes, disk, life>>
    BY <1>6 DEF Fail
  <2> QED BY <1>2, <1>6, <2>1, FailClearIInv DEF commands, memory
<1> QED BY <1>1, <1>3, <1>4, <1>5, <1>6

\* A chunk that is written in full.
Grown(e, size) == [e EXCEPT !.logBytes = size]

LEMMA GrownFields ==
  ASSUME NEW e \in Entry, NEW size \in Nat, NEW f \in {Grown(e, size)}
  PROVE  /\ f \in Entry /\ f.state = e.state /\ f.metaBytes = e.metaBytes /\ f.logBytes = size
         /\ f.reserved = e.reserved /\ f.pending = e.pending /\ f.queued = e.queued
         /\ f.writeFailed = e.writeFailed /\ f.accepting = e.accepting
BY DEF Entry, Grown

LEMMA WriteLogIInv == ASSUME IInv, WriteLog PROVE IInv'
<1>1. cur.at = "write"
  BY DEF WriteLog, At
<1>2. CASE \E n \in 0..Len(cur.chunk) : Fail(SubSeq(cur.chunk, 1, n))
  BY <1>1, <1>2, FailIInv
<1>3. CASE ~ \E n \in 0..Len(cur.chunk) : Fail(SubSeq(cur.chunk, 1, n))
  <2>1. PICK i : i = cur.id
    OBVIOUS
  <2>2. cur.op = "append"
    BY <1>1, CurFields DEF IInv, CurOK, Places, Place, Evicting
  <2>3. /\ log' = [log EXCEPT ![i] = log[i] \o cur.chunk]
        /\ entries' = [entries EXCEPT ![i] = [entries[i] EXCEPT !.logBytes = entries[i].logBytes + Len(cur.chunk)]]
        /\ bytes' = bytes + Len(cur.chunk)
        /\ pendingBytes' = pendingBytes - Len(cur.chunk)
        /\ cur' = Idle /\ UNCHANGED <<commands, phase, active, sequence, queue, json, tmp, synced>>
    BY <1>3, <2>1 DEF WriteLog, Done
  <2>4. PICK e \in Entry : e = entries[i] /\ ~e.writeFailed
    BY <1>1, <2>1, <2>2, AppendingEntry
  <2>5. PICK k \in Nat : k = Len(cur.chunk)
    BY CurFields, EmptyOrNot DEF IInv
  <2>6. k \in 0..Len(cur.chunk) /\ e.logBytes \in Nat /\ e.logBytes + k \in Nat
    BY <2>5, EntryFields
  <2>7. cur.chunk = SubSeq(cur.chunk, 1, k)
    <3>1. PICK c \in Seq(Nat) : c = cur.chunk
      BY CurFields DEF IInv
    <3>2. c = SubSeq(c, 1, Len(c))
      BY Shortened
    <3> QED BY <2>5, <3>1, <3>2
  <2>8. log[i] \o cur.chunk = Offsets(0, e.logBytes + k)
    BY <1>1, <2>1, <2>2, <2>4, <2>6, <2>7, LogGrows
  <2>9. bytes + k <= MaxTotal
    <3>1. bytes + (k + MaxMeta) <= MaxTotal /\ bytes \in Int
      BY <1>1, <2>5 DEF IInv, Balance, Needs, Typed
    <3> QED BY <3>1, Limits
  <2>10. PICK f \in {Grown(e, e.logBytes + k)} : TRUE
    OBVIOUS
  <2>11. /\ f \in Entry /\ f.state = e.state /\ f.metaBytes = e.metaBytes /\ f.logBytes = e.logBytes + k
         /\ f.reserved = e.reserved /\ f.pending = e.pending /\ f.queued = e.queued
         /\ f.writeFailed = e.writeFailed /\ f.accepting = e.accepting
    <3>1. e.logBytes + k \in Nat
      BY <2>6
    <3> QED BY <3>1, GrownFields
  <2>12. entries' = [entries EXCEPT ![i] = f] /\ log' = [log EXCEPT ![i] = Offsets(0, e.logBytes + k)]
         /\ bytes' = bytes + k
    BY <2>3, <2>4, <2>5, <2>8, <2>10 DEF Grown
  <2>13. ~f.writeFailed /\ (f.accepting => e.accepting)
    BY <2>4, <2>11
  <2>14. pendingBytes' = pendingBytes - Len(cur.chunk) /\ k <= Len(cur.chunk) /\ cur.at # "idle"
    BY <1>1, <2>3, <2>5
  <2>15. Appended(i, e, k, f)
    BY <2>1, <2>2, <2>3, <2>4, <2>5, <2>9, <2>11, <2>12, <2>13, <2>14 DEF Appended
  <2> QED BY <2>15, AppendEnds
<1> QED BY <1>2, <1>3

-----------------------------------------------------------------------------
(* remove(): the files and the entry of a victim.                             *)

LEMMA VictimEntry ==
  ASSUME IInv, Evicting, NEW v, v = cur.victim
  PROVE  /\ v \in Ids /\ v \in Known /\ v \notin active /\ cur.id # v /\ cur.at # "rename" /\ phase # "down"
         /\ Disk(v) /\ Record(v) /\ entries[v] # Nothing /\ entries[v] \in Entry /\ tmp[v] = Nothing
         /\ Remembered(v, entries[v]) /\ Resting(entries[v]) /\ OpOn(v) = "none" /\ PlaceOn(v) = "idle"
         /\ life[v] \notin {"unused", "unarchived", "starting", "running"}
<1> USE DEF IInv
<1>1. v \in Ids /\ v \in Known /\ v \notin active /\ cur.id # v /\ cur.at \notin {"rename", "idle"}
  BY DEF CurOK, Evicting, Known
<1>2. phase # "down" /\ OpOn(v) = "none" /\ PlaceOn(v) = "idle"
  BY <1>1, AtWork DEF OpOn, PlaceOn
<1>3. Disk(v) /\ Record(v) /\ entries[v] # Nothing
  BY <1>1, <1>2 DEF Sound, Known
<1>4. entries[v] \in Entry /\ Remembered(v, entries[v])
  BY <1>1, <1>3, EntryIn DEF Record
<1>5. Resting(entries[v])
  BY <1>1, <1>4 DEF Remembered
<1>6. tmp[v] = Nothing /\ life[v] \notin {"unused", "unarchived", "starting", "running"}
  BY <1>1, <1>2, <1>3 DEF Record
<1> QED BY <1>1, <1>2, <1>3, <1>4, <1>5, <1>6

LEMMA UnlinkLogIInv == ASSUME IInv, UnlinkLog PROVE IInv'
<1>1. cur.at = "unlink_log"
  BY DEF UnlinkLog, At
<1>2. CASE Fail(<<>>)
  BY <1>1, <1>2, FailIInv
<1>3. CASE ~Fail(<<>>)
  <2>0. PICK v : v = cur.victim
    OBVIOUS
  <2>1. /\ log' = [log EXCEPT ![v] = Nothing] /\ synced' = [synced EXCEPT ![v] = 0] /\ Goto("unlink_json")
        /\ UNCHANGED <<commands, phase, memory, queue, json, tmp, crashes>>
    BY <1>3, <2>0 DEF UnlinkLog
  <2>2. /\ v \in Ids /\ v \in Known /\ v \notin active /\ cur.id # v /\ cur.at # "rename" /\ phase # "down"
        /\ Disk(v) /\ Record(v) /\ entries[v] # Nothing /\ tmp[v] = Nothing
        /\ Remembered(v, entries[v]) /\ Resting(entries[v]) /\ OpOn(v) = "none" /\ PlaceOn(v) = "idle"
        /\ life[v] \notin {"unused", "unarchived", "starting", "running"}
    BY <1>1, <2>0, VictimEntry DEF Evicting
  <2> USE DEF IInv
  <2>3. /\ cur' \in CurType /\ cur'.at = "unlink_json" /\ cur'.op = cur.op /\ cur'.id = cur.id
        /\ cur'.back = cur.back /\ cur'.victim = cur.victim /\ cur'.chunk = cur.chunk /\ cur'.text = cur.text
    BY <2>1, Moves DEF Goto, Ats
  <2>4. Place' = Place /\ Evicting /\ Evicting'
    BY <1>1, <2>3 DEF Place, Evicting
  <2>5. /\ log' \in [Ids -> Seq(Nat) \cup {Nothing}] /\ log'[v] = Nothing
        /\ synced' \in [Ids -> Nat] /\ synced'[v] = 0
        /\ \A j \in Ids \ {v} : log'[j] = log[j] /\ synced'[j] = synced[j]
    BY <2>1, <2>2 DEF Typed
  <2>6. /\ life' = life /\ printed' = printed /\ entries' = entries /\ active' = active /\ sequence' = sequence
        /\ bytes' = bytes /\ pendingBytes' = pendingBytes
    BY <2>1 DEF commands, memory
  <2>7. \A j \in Ids : SameView(j) /\ SameTmp(j) /\ OpOn(j)' = OpOn(j)
    BY <2>2, <2>3, <2>4, TmpElsewhere DEF SameView, OpOn, PlaceOn, ChunkOn
  <2>8. \A j \in Ids \ {v} : Same(j)
    BY <2>1, <2>5, <2>6 DEF Same
  <2>9. Sound'
    <3>1. Disk(v)'
      BY <2>1, <2>2, <2>5, <2>6 DEF Disk, Claims, Bytes
    <3>2. SameView(v) /\ OpOn(v)' = "none" /\ PlaceOn(v)' = "idle"
      BY <2>2, <2>3 DEF OpOn, PlaceOn, SameView, ChunkOn
    <3>6. PICK e : entries[v] = e /\ entries'[v] = e /\ e # Nothing /\ Remembered(v, e) /\ Resting(e)
      BY <2>2, <2>6
    <3>3. Accounts(v, e)'
      BY <2>1, <2>2, <2>5, <2>6, <3>6 DEF Remembered, Accounts, TextBytes
    <3>4. Remembered(v, e)'
      BY <2>2, <2>6, <3>2, <3>3, <3>6 DEF Remembered
    <3>5. Working(v, e)'
      BY <3>2 DEF Working
    <3>7. Record(v)'
      BY <2>1, <2>2, <2>6, <3>2, <3>4, <3>5, <3>6 DEF Record
    <3> QED BY <2>1, <2>2, <2>7, <2>8, <3>1, <3>7, SoundStep
  <2>10. Typed'
    BY <2>1, <2>3, <2>5, <2>6 DEF Typed
  <2>11. QueueOK'
    <3>1. \A op \in {"start", "append", "finish"} : JobOK(op, v) => JobOK(op, v)'
      BY <2>2, <2>6, <2>7 DEF JobOK
    <3>2. active' \subseteq Ids
      BY <2>10 DEF Typed
    <3> QED BY <2>1, <2>2, <2>6, <2>7, <2>8, <3>1, <3>2, QueueKept
  <2>12. CurOK'
    <3>1. cur.op # "none"
      BY <1>1, AtWork
    <3>2. cur'.victim \in Known' \ (active' \cup {cur'.id}) /\ log'[cur'.victim] = Nothing
      BY <2>0, <2>2, <2>3, <2>5, <2>6 DEF Known
    <3>3. Saving' = Saving
      BY <2>4 DEF Saving
    <3>4. Saving => cur'.text # Nothing /\ cur'.text = TextOf(entries'[cur'.id], cur'.text.size)
      BY <2>3, <2>6 DEF CurOK
    <3> QED BY <2>3, <2>4, <3>1, <3>2, <3>3, <3>4 DEF CurOK
  <2>13. Balance' /\ Backlog'
    <3>1. Needs' = 0 /\ Needs = 0 /\ Unwritten' = Unwritten
      BY <1>1, <2>3 DEF Needs, Unwritten
    <3> QED BY <2>6, <3>1, BooksKept DEF Balance
  <2>14. DownOK'
    BY <2>1, <2>2 DEF DownOK
  <2> QED BY <2>9, <2>10, <2>11, <2>12, <2>13, <2>14
<1> QED BY <1>2, <1>3

LEMMA UnlinkJsonIInv == ASSUME IInv, UnlinkJson PROVE IInv'
<1>1. cur.at = "unlink_json"
  BY DEF UnlinkJson, At
<1>2. CASE Fail(<<>>)
  BY <1>1, <1>2, FailIInv
<1>3. CASE ~Fail(<<>>)
  <2>0. PICK v : v = cur.victim
    OBVIOUS
  <2>1. /\ json' = [json EXCEPT ![v] = Nothing] /\ bytes' = bytes - Released(v)
        /\ entries' = [entries EXCEPT ![v] = Nothing]
        /\ cur' = [cur EXCEPT !.at = cur.back, !.back = "idle", !.victim = Nothing]
        /\ UNCHANGED <<commands, phase, active, sequence, pendingBytes, queue, tmp, log, synced, crashes>>
    BY <1>3, <2>0 DEF UnlinkJson
  <2>2. /\ v \in Ids /\ v \in Known /\ v \notin active /\ cur.id # v /\ cur.at # "rename" /\ phase # "down"
        /\ Disk(v) /\ Record(v) /\ entries[v] # Nothing /\ entries[v] \in Entry /\ tmp[v] = Nothing
        /\ Resting(entries[v]) /\ OpOn(v) = "none" /\ PlaceOn(v) = "idle"
        /\ life[v] \notin {"unused", "unarchived", "starting", "running"}
    BY <1>1, <2>0, VictimEntry DEF Evicting
  <2>3. log[v] = Nothing
    BY <1>1, <2>0 DEF IInv, CurOK
  <2> USE DEF IInv
  <2>4. /\ cur' \in CurType /\ cur'.at = cur.back /\ cur'.op = cur.op /\ cur'.id = cur.id
        /\ cur'.victim = Nothing /\ cur'.chunk = cur.chunk /\ cur'.text = cur.text
    <3>1. cur.back \in {"idle", "room", "create", "write", "sync", "save_room", "write_tmp", "rename", "clear",
                        "unlink_log", "unlink_json"}
      BY CurFields
    <3> QED BY <2>1, <3>1 DEF Typed, CurType
  <2>5. Place' = Place /\ Place = cur.back /\ Evicting /\ ~Evicting' /\ cur'.at \notin {"write_tmp", "rename", "write"}
    BY <1>1, <2>4, CurFields DEF Place, Evicting
  <2>6. /\ entries' \in [Ids -> Entry \cup {Nothing}] /\ entries'[v] = Nothing
        /\ json' \in [Ids -> Text \cup {Nothing}] /\ json'[v] = Nothing
        /\ \A j \in Ids \ {v} : entries'[j] = entries[j] /\ json'[j] = json[j]
    BY <2>1, <2>2 DEF Typed
  <2>7. life' = life /\ printed' = printed /\ active' = active
    BY <2>1 DEF commands
  <2>8. \A j \in Ids : SameView(j) /\ SameTmp(j) /\ OpOn(j)' = OpOn(j)
    BY <2>2, <2>4, <2>5, TmpElsewhere DEF SameView, OpOn, PlaceOn, ChunkOn
  <2>9. \A j \in Ids \ {v} : Same(j)
    BY <2>1, <2>6, <2>7 DEF Same
  <2>10. Sound'
    <3>1. Disk(v)'
      BY <2>1, <2>2, <2>3, <2>6, <2>7 DEF Disk, Bytes
    <3>2. OpOn(v)' = "none"
      BY <2>2, <2>8
    <3>3. Record(v)'
      BY <2>1, <2>2, <2>3, <2>6, <2>7, <3>2 DEF Record, Forgotten
    <3> QED BY <2>1, <2>2, <2>8, <2>9, <3>1, <3>3, SoundStep
  <2>11. /\ entries[v].metaBytes \in Nat /\ entries[v].logBytes \in Nat /\ entries[v].pending = <<>>
         /\ Released(v) = entries[v].metaBytes + entries[v].logBytes
    BY <2>2, EntryFields, Limits DEF Resting, Released
  <2>12. Typed'
    BY <2>1, <2>4, <2>6, <2>7, <2>11 DEF Typed
  <2>13. QueueOK'
    <3>1. \A op \in {"start", "append", "finish"} : ~JobOK(op, v)
      BY <2>2 DEF JobOK
    <3>2. active' \subseteq Ids
      BY <2>12 DEF Typed
    <3> QED BY <2>1, <2>2, <2>6, <2>8, <2>9, <3>1, <3>2, QueueKept
  <2>14. CurOK'
    <3>1. cur.op # "none"
      BY <1>1, AtWork
    <3>2. Saving' = Saving
      BY <2>5 DEF Saving
    <3>3. Saving => cur'.text # Nothing /\ cur'.text = TextOf(entries'[cur'.id], cur'.text.size)
      <4> SUFFICES ASSUME Saving PROVE cur'.text # Nothing /\ cur'.text = TextOf(entries'[cur'.id], cur'.text.size)
        OBVIOUS
      <4>1. cur.id \in Ids
        BY SavingOp, CurFields DEF CurOK
      <4>2. entries'[cur'.id] = entries[cur.id]
        BY <2>2, <2>4, <2>6, <4>1
      <4> QED BY <2>4, <4>2 DEF CurOK
    <3>4. cur'.at # "unlink_json" /\ Place' \in Places(cur'.op)
      BY <2>4, <2>5 DEF CurOK, Evicting
    <3> QED BY <2>4, <2>5, <3>1, <3>2, <3>3, <3>4 DEF CurOK
  <2>15. Balance' /\ Backlog'
    <3>1. Needs' = 0 /\ Needs = 0 /\ Unwritten' = Unwritten
      BY <1>1, <2>4, <2>5 DEF Needs, Unwritten
    <3>2. /\ EntrySizes[v] = Released(v) /\ EntrySizes'[v] = 0 /\ PendingSizes[v] = 0 /\ PendingSizes'[v] = 0
      BY <2>2, <2>6, <2>11 DEF EntrySizes, PendingSizes
    <3>3. /\ Total(EntrySizes', Ids) = Total(EntrySizes, Ids) - Released(v)
          /\ Total(PendingSizes', Ids) = Total(PendingSizes, Ids) /\ Released(v) \in Nat
      <4>1. /\ Total(EntrySizes', Ids) = Total(EntrySizes, Ids) - EntrySizes[v] + EntrySizes'[v]
            /\ Total(PendingSizes', Ids) = Total(PendingSizes, Ids) - PendingSizes[v] + PendingSizes'[v]
            /\ Total(EntrySizes, Ids) \in Nat /\ Total(PendingSizes, Ids) \in Nat
            /\ EntrySizes[v] \in Nat
        BY <2>2, <2>6, <2>12, BooksStep
      <4> QED BY <3>2, <4>1
    <3>4. Cardinality(Known') <= MaxRecords
      <4>1. Known' \subseteq Known
        BY <2>2, <2>6 DEF Known
      <4>2. Cardinality(Known') <= Cardinality(Known) /\ Cardinality(Known') \in Nat
        BY <4>1, KnownIsFinite, FS_Subset, FS_CardinalityType
      <4> QED BY <4>2, KnownIsFinite, Limits DEF Balance
    <3>5. bytes' = Total(EntrySizes', Ids) /\ bytes' + Needs' <= MaxTotal
      <4>1. bytes \in Int /\ bytes = Total(EntrySizes, Ids) /\ bytes + 0 <= MaxTotal
        BY <3>1 DEF Typed, Balance
      <4> QED BY <2>1, <3>1, <3>3, <4>1, Limits
    <3>6. Backlog'
      BY <2>1, <3>1, <3>3 DEF Backlog
    <3> QED BY <3>4, <3>5, <3>6 DEF Balance
  <2>16. DownOK'
    BY <2>1, <2>2 DEF DownOK
  <2> QED BY <2>10, <2>12, <2>13, <2>14, <2>15, <2>16
<1> QED BY <1>2, <1>3

-----------------------------------------------------------------------------
(* The steps of a start and of a finish.                                      *)

LEMMA OthersElsewhere ==
  ASSUME IInv, phase # "down", cur'.id \in {cur.id, Nothing}
  PROVE  \A j \in Ids \ {cur.id} : SameView(j) /\ SameTmp(j) /\ OpOn(j)' = OpOn(j)
<1>1. \A j \in Ids \ {cur.id} : cur.id # j /\ cur'.id # j
  BY Limits
<1> QED BY <1>1, ViewElsewhere, TmpElsewhere DEF IInv, SameView

\* The job of a command, at a place that is not one of an eviction.
LEMMA CommandAtWork ==
  ASSUME IInv, cur.at \notin {"idle", "unlink_log", "unlink_json"}, cur.op \in {"start", "append", "finish"},
         NEW i, i = cur.id
  PROVE  /\ i \in Ids /\ phase # "down" /\ Disk(i) /\ Record(i) /\ OpOn(i) = cur.op /\ PlaceOn(i) = cur.at
         /\ Place = cur.at /\ ~Evicting /\ cur.victim = Nothing
         /\ cur.at # "room" \/ cur.op # "start" => entries[i] # Nothing
         /\ entries[i] # Nothing => entries[i] \in Entry /\ Remembered(i, entries[i]) /\ Working(i, entries[i])
<1>1. i \in Ids /\ phase # "down" /\ Place = cur.at /\ ~Evicting /\ cur.victim = Nothing
  BY AtWork DEF Place, Evicting, IInv, CurOK
<1>2. OpOn(i) = cur.op /\ PlaceOn(i) = cur.at
  BY <1>1 DEF OpOn, PlaceOn
<1>3. Disk(i) /\ Record(i)
  BY <1>1 DEF IInv, Sound
<1>4. cur.at # "room" \/ cur.op # "start" => entries[i] # Nothing
  BY <1>2, <1>3 DEF Record, Forgotten
<1>5. entries[i] # Nothing => entries[i] \in Entry /\ Remembered(i, entries[i]) /\ Working(i, entries[i])
  BY <1>1, <1>3, EntryIn DEF Record, IInv
<1> QED BY <1>1, <1>2, <1>3, <1>4, <1>5

\* save(e): the text of the record is fixed before there is room for it.
LEMMA SaveStep ==
  ASSUME Typed, NEW e, e \in Entry, e.state \in {"running", "ended"}, Save(e)
  PROVE  /\ cur' \in CurType /\ cur'.at = "save_room" /\ cur'.op = cur.op /\ cur'.id = cur.id
         /\ cur'.back = cur.back /\ cur'.victim = cur.victim /\ cur'.chunk = cur.chunk
         /\ cur'.text # Nothing /\ cur'.text = TextOf(e, cur'.text.size)
<1>1. PICK size \in 1..MaxMeta : cur' = [cur EXCEPT !.at = "save_room", !.text = TextOf(e, size)]
  BY DEF Save
<1>2. PICK text : text = TextOf(e, size)
  OBVIOUS
<1>3. text \in Text /\ text # Nothing /\ text.size = size
  BY <1>2, TextOfTyped
<1>4. cur' = [cur EXCEPT !.at = "save_room", !.text = text]
  BY <1>1, <1>2
<1>5. /\ cur' \in CurType /\ cur'.at = "save_room" /\ cur'.op = cur.op /\ cur'.id = cur.id
      /\ cur'.back = cur.back /\ cur'.victim = cur.victim /\ cur'.chunk = cur.chunk /\ cur'.text = text
  BY <1>3, <1>4 DEF Typed, CurType
<1> QED BY <1>2, <1>3, <1>5

LEMMA CreateLogIInv == ASSUME IInv, CreateLog PROVE IInv'
<1>1. cur.at = "create"
  BY DEF CreateLog, At
<1>2. CASE Fail(<<>>)
  BY <1>1, <1>2, FailIInv
<1>3. CASE ~Fail(<<>>)
  <2>0. PICK i : i = cur.id
    OBVIOUS
  <2>1. /\ log' = [log EXCEPT ![i] = <<>>] /\ Save(entries[i])
        /\ UNCHANGED <<commands, phase, memory, queue, json, tmp, synced, crashes>>
    BY <1>3, <2>0 DEF CreateLog
  <2>2. cur.op = "start"
    BY <1>1, CurFields DEF IInv, CurOK, Places, Place, Evicting
  <2>3. /\ i \in Ids /\ phase # "down" /\ Disk(i) /\ Record(i) /\ OpOn(i) = "start" /\ PlaceOn(i) = "create"
        /\ Place = "create" /\ ~Evicting /\ cur.victim = Nothing
    BY <1>1, <2>0, <2>2, CommandAtWork
  <2>4. PICK e \in Entry : /\ e = entries[i] /\ e # Nothing /\ Remembered(i, e) /\ Working(i, e)
                           /\ e.state = "running"
    <3>1. entries[i] \in Entry /\ entries[i] # Nothing /\ Remembered(i, entries[i]) /\ Working(i, entries[i])
      BY <1>1, <2>0, <2>2, CommandAtWork
    <3> QED BY <2>3, <3>1 DEF Working
  <2> USE DEF IInv
  <2>5. /\ cur' \in CurType /\ cur'.at = "save_room" /\ cur'.op = "start" /\ cur'.id = i
        /\ cur'.back = cur.back /\ cur'.victim = Nothing /\ cur'.chunk = cur.chunk
        /\ cur'.text # Nothing /\ cur'.text = TextOf(e, cur'.text.size)
    BY <2>0, <2>1, <2>2, <2>3, <2>4, SaveStep
  <2>6. /\ OpOn(i)' = "start" /\ PlaceOn(i)' = "save_room" /\ ChunkOn(i)' = <<>> /\ ChunkOn(i) = <<>>
        /\ Place' = "save_room" /\ ~Evicting'
    BY <2>2, <2>5 DEF OpOn, PlaceOn, ChunkOn, Place, Evicting
  <2>7. <<>> \in Seq(Nat) /\ <<>> # Nothing /\ <<>> = Offsets(0, 0) /\ Len(<<>>) = 0
    <3>1. <<>> \in Seq(Nat) /\ Len(<<>>) = 0
      OBVIOUS
    <3>2. <<>> # Nothing
      BY <3>1, NothingAssumption
    <3>3. Offsets(0, 0) = <<>>
      BY NoOffsets
    <3> QED BY <3>1, <3>2, <3>3
  <2>8. log' \in [Ids -> Seq(Nat) \cup {Nothing}] /\ log'[i] = <<>> /\ \A j \in Ids \ {i} : log'[j] = log[j]
    BY <2>1, <2>3, <2>7 DEF Typed
  <2>9. /\ life' = life /\ printed' = printed /\ entries' = entries /\ active' = active /\ sequence' = sequence
        /\ bytes' = bytes /\ pendingBytes' = pendingBytes /\ phase' = phase /\ queue' = queue
        /\ json' = json /\ tmp' = tmp /\ synced' = synced
    BY <2>1 DEF commands, memory
  <2>10. \A j \in Ids \ {i} : Same(j) /\ SameView(j) /\ SameTmp(j) /\ OpOn(j)' = OpOn(j)
    BY <2>0, <2>3, <2>5, <2>8, <2>9, OthersElsewhere DEF Same
  <2>11. life[i] = "starting" /\ printed[i] = 0 /\ tmp[i] = Nothing
    BY <1>1, <2>3 DEF Record, Disk
  <2>12. i \in active /\ i \in Captured /\ e.logBytes = 0
    BY <2>3, <2>4 DEF Remembered, Working
  <2>13. Sound'
    <3>1. synced[i] = 0
      <4>1. synced[i] \in Nat /\ Bytes(log[i]) = 0
        BY <2>3, <2>4, <2>12 DEF Typed, Remembered, Accounts, Bytes
      <4> QED BY <2>3, <4>1 DEF Disk
    <3>2. Disk(i)'
      BY <2>3, <2>7, <2>8, <2>9, <2>11, <2>12, <3>1, Limits DEF Disk, Claims, Bytes
    <3>3. Accounts(i, e)'
      BY <2>4, <2>7, <2>8, <2>9, <2>12 DEF Remembered, Accounts, TextBytes
    <3>4. Stream(i, e) => Stream(i, e)'
      BY <2>6, <2>9 DEF Stream
    <3>5. Capturing(i, e)'
      BY <2>4, <2>7, <2>8, <2>9, <2>12, <3>4 DEF Remembered, Capturing
    <3>6. Remembered(i, e)'
      BY <2>3, <2>4, <2>6, <2>9, <2>12, <3>3, <3>5 DEF Remembered
    <3>7. Working(i, e)'
      BY <2>3, <2>4, <2>6, <2>9 DEF Working
    <3>8. Record(i)'
      BY <2>3, <2>4, <2>6, <2>9, <2>11, <3>6, <3>7 DEF Record
    <3> QED BY <2>3, <2>9, <2>10, <3>2, <3>8, SoundStep
  <2>14. Typed'
    BY <2>5, <2>8, <2>9 DEF Typed
  <2>15. QueueOK'
    <3>1. \A op \in {"start", "append", "finish"} : JobOK(op, i) => JobOK(op, i)'
      BY <2>3, <2>6, <2>9 DEF JobOK
    <3>2. active' \subseteq Ids
      BY <2>9 DEF Typed
    <3> QED BY <2>3, <2>9, <2>10, <3>1, <3>2, QueueKept
  <2>16. CurOK'
    <3>1. cur'.text = TextOf(entries'[cur'.id], cur'.text.size)
      BY <2>4, <2>5, <2>9
    <3>2. i # Nothing
      BY <2>3, Limits
    <3> QED BY <2>5, <2>6, <3>1, <3>2 DEF CurOK, Places
  <2>17. Balance' /\ Backlog'
    <3>1. Needs' = 0 /\ Needs = 0 /\ Unwritten' = Unwritten
      BY <1>1, <2>2, <2>5 DEF Needs, Unwritten
    <3> QED BY <2>9, <3>1, BooksKept DEF Balance
  <2>18. DownOK'
    BY <2>3, <2>9 DEF DownOK
  <2> QED BY <2>13, <2>14, <2>15, <2>16, <2>17, <2>18
<1> QED BY <1>2, <1>3

LEMMA WriteTmpIInv == ASSUME IInv, WriteTmp PROVE IInv'
<1>1. cur.at = "write_tmp"
  BY DEF WriteTmp, At
<1>2. CASE Fail(<<>>)
  BY <1>1, <1>2, FailIInv
<1>3. CASE ~Fail(<<>>)
  <2>0. PICK i : i = cur.id
    OBVIOUS
  <2>1. /\ tmp' = [tmp EXCEPT ![i] = cur.text] /\ Goto("rename")
        /\ UNCHANGED <<commands, phase, memory, queue, json, log, synced, crashes>>
    BY <1>3, <2>0 DEF WriteTmp
  <2>2. cur.op \in {"start", "finish"}
    BY <1>1, SavingOp DEF IInv, Saving, Place, Evicting
  <2>3. /\ i \in Ids /\ phase # "down" /\ Disk(i) /\ Record(i) /\ OpOn(i) = cur.op /\ PlaceOn(i) = "write_tmp"
        /\ Place = "write_tmp" /\ ~Evicting /\ cur.victim = Nothing
    BY <1>1, <2>0, <2>2, CommandAtWork
  <2>4. PICK e \in Entry : e = entries[i] /\ e # Nothing /\ Remembered(i, e) /\ Working(i, e)
    <3>1. entries[i] \in Entry /\ entries[i] # Nothing /\ Remembered(i, entries[i]) /\ Working(i, entries[i])
      BY <1>1, <2>0, <2>2, CommandAtWork
    <3> QED BY <3>1
  <2> USE DEF IInv
  <2>5. /\ cur' \in CurType /\ cur'.at = "rename" /\ cur'.op = cur.op /\ cur'.id = i
        /\ cur'.back = cur.back /\ cur'.victim = Nothing /\ cur'.chunk = cur.chunk /\ cur'.text = cur.text
    BY <2>0, <2>1, <2>3, Moves DEF Goto, Ats
  <2>6. /\ OpOn(i)' = OpOn(i) /\ PlaceOn(i)' = "rename" /\ ChunkOn(i)' = ChunkOn(i)
        /\ Place' = "rename" /\ ~Evicting' /\ SameView(i)
    BY <2>0, <2>2, <2>3, <2>5 DEF OpOn, PlaceOn, ChunkOn, Place, Evicting, SameView
  <2>7. cur.text \in Text /\ cur.text # Nothing /\ cur.text = TextOf(entries[i], cur.text.size)
    BY <2>0, <2>3, CurFields DEF CurOK, Saving
  <2>8. tmp' \in [Ids -> Text \cup {Nothing}] /\ tmp'[i] = cur.text /\ \A j \in Ids \ {i} : tmp'[j] = tmp[j]
    BY <2>1, <2>3, <2>7 DEF Typed
  <2>9. /\ life' = life /\ printed' = printed /\ entries' = entries /\ active' = active /\ sequence' = sequence
        /\ bytes' = bytes /\ pendingBytes' = pendingBytes /\ phase' = phase /\ queue' = queue
        /\ json' = json /\ log' = log /\ synced' = synced
    BY <2>1 DEF commands, memory
  <2>10. \A j \in Ids \ {i} : Same(j) /\ SameView(j) /\ SameTmp(j) /\ OpOn(j)' = OpOn(j)
    BY <2>0, <2>3, <2>5, <2>8, <2>9, OthersElsewhere DEF Same
  <2>11. life[i] \notin {"unused", "unarchived"}
    BY <2>3, <2>4 DEF Record
  <2>12. Sound'
    <3>1. Disk(i)'
      BY <2>3, <2>9, <2>11 DEF Disk, Claims, Bytes
    <3>2. Accounts(i, e)' = Accounts(i, e) /\ (Stream(i, e) => Stream(i, e)')
      BY <2>6, <2>9 DEF Accounts, TextBytes, Stream
    <3>3. Capturing(i, e) => Capturing(i, e)'
      BY <2>3, <2>6, <2>9, <3>2 DEF Capturing
    <3>4. Remembered(i, e)'
      BY <2>3, <2>4, <2>6, <2>9, <3>2, <3>3 DEF Remembered
    <3>5. Working(i, e)'
      BY <2>3, <2>4, <2>6, <2>9 DEF Working
    <3>6. Record(i)'
      BY <2>3, <2>4, <2>5, <2>6, <2>8, <2>9, <2>11, <3>4, <3>5 DEF Record
    <3> QED BY <2>3, <2>9, <2>10, <3>1, <3>6, SoundStep
  <2>13. Typed'
    BY <2>5, <2>8, <2>9 DEF Typed
  <2>14. QueueOK'
    <3>1. \A op \in {"start", "append", "finish"} : JobOK(op, i) => JobOK(op, i)'
      BY <2>6, <2>9 DEF JobOK
    <3>2. active' \subseteq Ids
      BY <2>9 DEF Typed
    <3> QED BY <2>3, <2>9, <2>10, <3>1, <3>2, QueueKept
  <2>15. CurOK'
    <3>1. cur'.text = TextOf(entries'[cur'.id], cur'.text.size)
      BY <2>5, <2>7, <2>9
    <3>2. i # Nothing /\ Place' \in Places(cur'.op)
      BY <2>2, <2>3, <2>5, <2>6, Limits DEF Places
    <3> QED BY <2>2, <2>5, <2>6, <2>7, <3>1, <3>2 DEF CurOK
  <2>16. Balance' /\ Backlog'
    <3>1. Needs' = Needs /\ Unwritten' = Unwritten
      BY <1>1, <2>5 DEF Needs, Unwritten
    <3> QED BY <2>9, <3>1, BooksKept DEF Balance
  <2>17. DownOK'
    BY <2>3, <2>9 DEF DownOK
  <2> QED BY <2>12, <2>13, <2>14, <2>15, <2>16, <2>17
<1> QED BY <1>2, <1>3

LEMMA SyncLogIInv == ASSUME IInv, SyncLog PROVE IInv'
<1>1. cur.at = "sync"
  BY DEF SyncLog, At
<1>2. CASE Fail(<<>>)
  BY <1>1, <1>2, FailIInv
<1>3. CASE ~Fail(<<>>)
  <2>0. PICK i : i = cur.id
    OBVIOUS
  <2>1. PICK g : g = [entries[i] EXCEPT !.truncated = Cut(i)]
    OBVIOUS
  <2>2. /\ synced' = [synced EXCEPT ![i] = SyncedLength(i)] /\ entries' = [entries EXCEPT ![i] = g] /\ Save(g)
        /\ UNCHANGED <<commands, phase, active, sequence, bytes, pendingBytes, queue, json, tmp, log, crashes>>
    BY <1>3, <2>0, <2>1 DEF SyncLog
  <2>3. cur.op = "finish"
    BY <1>1, CurFields DEF IInv, CurOK, Places, Place, Evicting
  <2>4. /\ i \in Ids /\ phase # "down" /\ Disk(i) /\ Record(i) /\ OpOn(i) = "finish" /\ PlaceOn(i) = "sync"
        /\ Place = "sync" /\ ~Evicting /\ cur.victim = Nothing
    BY <1>1, <2>0, <2>3, CommandAtWork
  <2>5. PICK e \in Entry : /\ e = entries[i] /\ e # Nothing /\ Remembered(i, e) /\ Working(i, e)
                           /\ e.state = "ended" /\ Resting(e) /\ i \in active /\ i \in Captured
    <3>1. entries[i] \in Entry /\ entries[i] # Nothing /\ Remembered(i, entries[i]) /\ Working(i, entries[i])
      BY <1>1, <2>0, <2>3, CommandAtWork
    <3> QED BY <2>4, <3>1 DEF Working
  <2>6. PICK t \in BOOLEAN : t = Cut(i)
    BY DEF Cut
  <2>7. PICK f \in {Marked(e, t)} : TRUE
    OBVIOUS
  <2>8. f = g
    BY <2>1, <2>5, <2>6, <2>7 DEF Marked
  <2>9. /\ f \in Entry /\ f # Nothing /\ f.seq = e.seq /\ f.state = e.state /\ f.truncated = t
        /\ f.metaBytes = e.metaBytes /\ f.logBytes = e.logBytes /\ f.reserved = e.reserved
        /\ f.accepting = e.accepting /\ f.writeFailed = e.writeFailed
        /\ f.pending = e.pending /\ f.queued = e.queued
    BY MarkedFields
  <2>10. ~t => e.logBytes >= printed[i]
    <3>1. ~t => ~(e.logBytes < printed[i])
      BY <2>5, <2>6 DEF Cut
    <3>2. e.logBytes \in Nat /\ printed[i] \in Nat
      BY <2>4, EntryFields, Limits DEF IInv, Typed
    <3> QED BY <3>1, <3>2
  <2> USE DEF IInv
  <2>11. /\ cur' \in CurType /\ cur'.at = "save_room" /\ cur'.op = "finish" /\ cur'.id = i
         /\ cur'.back = cur.back /\ cur'.victim = Nothing /\ cur'.chunk = cur.chunk
         /\ cur'.text # Nothing /\ cur'.text = TextOf(f, cur'.text.size)
    <3>1. Save(f) /\ f \in Entry /\ f.state \in {"running", "ended"}
      BY <2>2, <2>5, <2>8, <2>9
    <3> HIDE DEF IInv
    <3> QED BY <2>0, <2>3, <2>4, <3>1, SaveStep DEF IInv
  <2>12. /\ OpOn(i)' = "finish" /\ PlaceOn(i)' = "save_room" /\ ChunkOn(i)' = <<>> /\ ChunkOn(i) = <<>>
         /\ Place' = "save_room" /\ ~Evicting'
    BY <2>3, <2>11 DEF OpOn, PlaceOn, ChunkOn, Place, Evicting
  <2>13. log[i] # Nothing /\ Len(log[i]) \in Nat
    BY <2>4, <2>5, LogIn DEF Remembered, Capturing
  <2>14. /\ synced' \in [Ids -> Nat] /\ synced'[i] = Len(log[i])
         /\ entries' \in [Ids -> Entry \cup {Nothing}] /\ entries'[i] = f
         /\ \A j \in Ids \ {i} : synced'[j] = synced[j] /\ entries'[j] = entries[j]
    BY <2>2, <2>4, <2>8, <2>9, <2>13 DEF Typed, SyncedLength
  <2>15. /\ life' = life /\ printed' = printed /\ active' = active /\ sequence' = sequence
         /\ bytes' = bytes /\ pendingBytes' = pendingBytes /\ phase' = phase /\ queue' = queue
         /\ json' = json /\ tmp' = tmp /\ log' = log
    BY <2>2 DEF commands
  <2>16. \A j \in Ids \ {i} : Same(j) /\ SameView(j) /\ SameTmp(j) /\ OpOn(j)' = OpOn(j)
    BY <2>0, <2>4, <2>11, <2>14, <2>15, OthersElsewhere DEF Same
  <2>17. tmp[i] = Nothing
    BY <1>1, <2>4 DEF Record
  <2>18. Sound'
    <3>1. Disk(i)'
      BY <2>4, <2>13, <2>14, <2>15 DEF Disk, Claims, Bytes
    <3>2. Accounts(i, f)' /\ Resting(f)
      BY <2>5, <2>9, <2>15 DEF Remembered, Accounts, TextBytes, Resting
    <3>3. Stream(i, e) => Stream(i, f)'
      BY <2>9, <2>12, <2>15 DEF Stream
    <3>4. Capturing(i, f)'
      BY <2>5, <2>9, <2>13, <2>15, <3>3 DEF Remembered, Capturing
    <3>5. ~f.truncated => f.logBytes = printed[i]
      <4>1. e.logBytes \in Nat /\ e.logBytes <= printed[i] /\ printed[i] \in Nat
        BY <2>4, <2>5, EntryFields, Limits DEF Remembered, Accounts, Typed
      <4> QED BY <2>9, <2>10, <4>1
    <3>6. Remembered(i, f)'
      BY <2>4, <2>5, <2>9, <2>12, <2>15, <3>2, <3>4, <3>5 DEF Remembered, Resting
    <3>7. Working(i, f)'
      BY <2>5, <2>9, <2>12, <2>15, <3>2 DEF Working, Resting
    <3>8. Record(i)'
      BY <2>4, <2>5, <2>9, <2>12, <2>14, <2>15, <2>17, <3>6, <3>7 DEF Record
    <3> QED BY <2>4, <2>15, <2>16, <3>1, <3>8, SoundStep
  <2>19. Typed'
    BY <2>11, <2>14, <2>15 DEF Typed
  <2>20. QueueOK'
    <3>1. \A op \in {"start", "append", "finish"} : ~JobOK(op, i)
      BY <2>4, <2>5 DEF JobOK
    <3>2. active' \subseteq Ids /\ ~f.queued
      BY <2>5, <2>9, <2>15 DEF Typed, Resting
    <3> QED BY <2>4, <2>14, <2>15, <2>16, <3>1, <3>2, QueueKept
  <2>21. CurOK'
    <3>1. cur'.text = TextOf(entries'[cur'.id], cur'.text.size)
      BY <2>11, <2>14
    <3>2. i # Nothing
      BY <2>4, Limits
    <3> QED BY <2>11, <2>12, <3>1, <3>2 DEF CurOK, Places
  <2>22. Balance' /\ Backlog'
    <3>1. Needs' = 0 /\ Needs = 0 /\ Unwritten' = Unwritten
      BY <1>1, <2>3, <2>11 DEF Needs, Unwritten
    <3>2. EntrySizes' = EntrySizes /\ PendingSizes' = PendingSizes
      BY <2>4, <2>5, <2>9, <2>14 DEF EntrySizes, PendingSizes
    <3>3. Known' = Known
      BY <2>5, <2>9, <2>14 DEF Known
    <3> QED BY <2>15, <3>1, <3>2, <3>3 DEF Balance, Backlog
  <2>23. DownOK'
    BY <2>4, <2>15 DEF DownOK
  <2> QED BY <2>18, <2>19, <2>20, <2>21, <2>22, <2>23
<1> QED BY <1>2, <1>3

\* The record is on disk: a command that starts runs, one that has ended is done with.
SavedEntry(e, size) == [e EXCEPT !.metaBytes = size]

LEMMA SavedFields ==
  ASSUME NEW e \in Entry, NEW size \in 0..MaxMeta, NEW f \in {SavedEntry(e, size)}
  PROVE  /\ f \in Entry /\ f.state = e.state /\ f.truncated = e.truncated
         /\ f.metaBytes = size /\ f.logBytes = e.logBytes /\ f.reserved = e.reserved
         /\ f.accepting = e.accepting /\ f.writeFailed = e.writeFailed
         /\ f.pending = e.pending /\ f.queued = e.queued
BY DEF Entry, SavedEntry

LEMMA RenameIInv == ASSUME IInv, Rename PROVE IInv'
<1>1. cur.at = "rename"
  BY DEF Rename, At
<1>2. CASE Fail(<<>>)
  BY <1>1, <1>2, FailIInv
<1>3. CASE ~Fail(<<>>)
  <2>0. PICK i : i = cur.id
    OBVIOUS
  <2>1. PICK text, size : text = cur.text /\ size = cur.text.size
    OBVIOUS
  <2>2. /\ json' = [json EXCEPT ![i] = text] /\ tmp' = [tmp EXCEPT ![i] = Nothing]
        /\ bytes' = bytes + size - entries[i].metaBytes
        /\ entries' = [entries EXCEPT ![i] = SavedEntry(entries[i], size)]
        /\ cur' = Idle /\ UNCHANGED <<printed, phase, sequence, pendingBytes, queue, log, synced, crashes>>
    BY <1>3, <2>0, <2>1 DEF Rename, Done, SavedEntry
  <2>3. \/ cur.op = "start" /\ life' = [life EXCEPT ![i] = "running"] /\ active' = active
        \/ cur.op # "start" /\ life' = life /\ active' = active \ {i}
    BY <1>3, <2>0 DEF Rename
  <2>4. cur.op \in {"start", "finish"}
    BY <1>1, SavingOp DEF IInv, Saving, Place, Evicting
  <2>5. /\ i \in Ids /\ phase # "down" /\ Disk(i) /\ Record(i) /\ OpOn(i) = cur.op /\ PlaceOn(i) = "rename"
        /\ Place = "rename" /\ ~Evicting /\ cur.victim = Nothing
    BY <1>1, <2>0, <2>4, CommandAtWork
  <2>6. PICK e \in Entry : e = entries[i] /\ e # Nothing /\ Remembered(i, e) /\ Working(i, e)
    <3>1. entries[i] \in Entry /\ entries[i] # Nothing /\ Remembered(i, entries[i]) /\ Working(i, entries[i])
      BY <1>1, <2>0, <2>4, CommandAtWork
    <3> QED BY <3>1
  <2>7. text \in Text /\ text # Nothing /\ size = text.size /\ size \in 1..MaxMeta /\ text = TextOf(e, size)
    <3>1. text \in Text /\ text # Nothing /\ text = TextOf(e, size) /\ size = text.size
      BY <2>0, <2>1, <2>5, <2>6, CurFields DEF IInv, CurOK, Saving
    <3> QED BY <3>1, TextFields
  <2>8. text.state = e.state /\ text.truncated = e.truncated /\ text.captured = e.logBytes
    BY <2>7 DEF TextOf
  <2>9. PICK f \in {SavedEntry(e, size)} : TRUE
    OBVIOUS
  <2>10. /\ f \in Entry /\ f.state = e.state /\ f.truncated = e.truncated
         /\ f.metaBytes = size /\ f.logBytes = e.logBytes /\ f.reserved = e.reserved
         /\ f.accepting = e.accepting /\ f.writeFailed = e.writeFailed
         /\ f.pending = e.pending /\ f.queued = e.queued
    <3>1. size \in 0..MaxMeta
      BY <2>7
    <3> QED BY <3>1, SavedFields
  <2>11. f # Nothing
    BY <2>10, EntryFields
  <2> USE DEF IInv
  <2>12. /\ CurOK' /\ cur' \in CurType /\ Needs' = 0 /\ Unwritten' = 0
         /\ OpOn(i)' = "none" /\ PlaceOn(i)' = "idle" /\ ChunkOn(i)' = <<>>
         /\ \A j \in Ids \ {i} : SameView(j) /\ SameTmp(j) /\ OpOn(j)' = OpOn(j)
    BY <1>1, <2>0, <2>2, <2>5, JobOver
  <2>13. /\ entries' \in [Ids -> Entry \cup {Nothing}] /\ entries'[i] = f
         /\ json' \in [Ids -> Text \cup {Nothing}] /\ json'[i] = text
         /\ tmp' \in [Ids -> Text \cup {Nothing}] /\ tmp'[i] = Nothing
         /\ \A j \in Ids \ {i} : entries'[j] = entries[j] /\ json'[j] = json[j] /\ tmp'[j] = tmp[j]
    BY <2>2, <2>5, <2>6, <2>7, <2>9, <2>10 DEF Typed
  <2>14. /\ life' \in [Ids -> Lives] /\ active' \subseteq Ids
         /\ \A j \in Ids \ {i} : life'[j] = life[j] /\ (j \in active') = (j \in active)
         /\ cur.op = "start" => life'[i] = "running" /\ (i \in active') = (i \in active)
         /\ cur.op = "finish" => life'[i] = life[i] /\ i \notin active'
    <3>1. life \in [Ids -> Lives] /\ "running" \in Lives /\ active \subseteq Ids
      BY DEF Typed, Lives
    <3>2. CASE cur.op = "start"
      <4>1. life' = [life EXCEPT ![i] = "running"] /\ active' = active
        BY <2>3, <3>2
      <4> HIDE DEF IInv
      <4> QED BY <2>5, <3>1, <3>2, <4>1
    <3>3. CASE cur.op # "start"
      <4>1. life' = life /\ active' = active \ {i}
        BY <2>3, <3>3
      <4> HIDE DEF IInv
      <4> QED BY <2>5, <3>1, <3>3, <4>1
    <3> QED BY <3>2, <3>3
  <2>15. \A j \in Ids \ {i} : Same(j)
    BY <2>2, <2>13, <2>14 DEF Same
  <2>16. /\ cur.op = "start" => /\ life[i] = "starting" /\ printed[i] = 0 /\ i \in active /\ e.state = "running"
                                /\ ~e.queued
         /\ cur.op = "finish" => /\ life[i] = "finished" /\ i \in active /\ e.state = "ended" /\ Resting(e)
    BY <2>5, <2>6 DEF Record, Disk, Remembered, Working
  <2>17. Sound'
    <3>1. Claims(i, text)'
      BY <2>2, <2>4, <2>5, <2>6, <2>8, <2>14, <2>16 DEF Claims, Remembered
    <3>2. Disk(i)'
      BY <2>2, <2>4, <2>5, <2>13, <2>14, <2>16, <3>1 DEF Disk, Bytes
    <3>3. Accounts(i, f)' /\ (Resting(e) => Resting(f))
      BY <2>2, <2>6, <2>7, <2>10, <2>13 DEF Remembered, Accounts, TextBytes, Resting
    <3>4. cur.op = "start" /\ Stream(i, e) => Stream(i, f)'
      <4>1. cur.op = "start" => ChunkOn(i) = <<>>
        BY DEF ChunkOn
      <4> QED BY <2>2, <2>10, <2>12, <4>1 DEF Stream
    <3>5. cur.op = "start" /\ i \in Captured => Capturing(i, f)'
      BY <2>2, <2>5, <2>6, <2>10, <2>12, <2>16, <3>4 DEF Remembered, Capturing
    <3>6. Remembered(i, f)'
      BY <2>2, <2>4, <2>5, <2>6, <2>10, <2>12, <2>14, <2>16, <3>3, <3>5 DEF Remembered
    <3>7. Working(i, f)'
      BY <2>12 DEF Working
    <3>8. Record(i)'
      BY <2>4, <2>11, <2>12, <2>13, <2>14, <2>16, <3>6, <3>7 DEF Record
    <3> QED BY <2>2, <2>5, <2>12, <2>15, <3>2, <3>8, SoundStep
  <2>18. e.metaBytes \in Nat /\ e.logBytes \in Nat /\ size \in Nat
    BY <2>7, EntryFields, Limits
  <2>19. Typed'
    <3>1. bytes' \in Int
      BY <2>2, <2>6, <2>18 DEF Typed
    <3> QED BY <2>2, <2>12, <2>13, <2>14, <3>1 DEF Typed
  <2>20. QueueOK'
    <3>1. \A op \in {"start", "append", "finish"} : ~JobOK(op, i)
      BY <2>4, <2>5, <2>6, <2>16 DEF JobOK
    <3>2. ~f.queued
      BY <2>4, <2>10, <2>16 DEF Resting
    <3> QED BY <2>2, <2>5, <2>12, <2>13, <2>14, <2>15, <3>1, <3>2, QueueKept
  <2>21. Balance' /\ Backlog'
    <3>1. Needs = size /\ Unwritten = 0
      BY <1>1, <2>1, <2>4 DEF Needs, Unwritten
    <3>2. /\ EntrySizes[i] = e.metaBytes + e.logBytes /\ EntrySizes'[i] = size + e.logBytes
          /\ PendingSizes'[i] = PendingSizes[i]
      BY <2>5, <2>6, <2>10, <2>11, <2>13 DEF EntrySizes, PendingSizes
    <3>3. /\ Total(EntrySizes', Ids) = Total(EntrySizes, Ids) - EntrySizes[i] + EntrySizes'[i]
          /\ Total(PendingSizes', Ids) = Total(PendingSizes, Ids) - PendingSizes[i] + PendingSizes'[i]
          /\ Total(EntrySizes, Ids) \in Nat /\ Total(PendingSizes, Ids) \in Nat /\ PendingSizes[i] \in Nat
      BY <2>5, <2>13, <2>19, BooksStep
    <3>4. bytes = Total(EntrySizes, Ids) /\ bytes + size <= MaxTotal /\ bytes \in Int
      BY <3>1 DEF Balance, Typed
    <3>5. bytes' = Total(EntrySizes', Ids) /\ bytes' + 0 <= MaxTotal
      <4> HIDE DEF IInv
      <4>1. bytes' = bytes + size - e.metaBytes
        BY <2>2, <2>6
      <4> QED BY <2>18, <3>2, <3>3, <3>4, <4>1, Limits
    <3>6. Total(PendingSizes', Ids) = Total(PendingSizes, Ids)
      <4> HIDE DEF IInv
      <4> QED BY <3>2, <3>3
    <3>7. Known' = Known
      BY <2>6, <2>11, <2>13 DEF Known
    <3>8. Balance'
      BY <2>12, <3>5, <3>7 DEF Balance
    <3>9. Backlog'
      BY <2>2, <2>12, <3>1, <3>6 DEF Backlog
    <3> QED BY <3>8, <3>9
  <2>22. DownOK'
    BY <2>2, <2>5 DEF DownOK
  <2> QED BY <2>12, <2>17, <2>19, <2>20, <2>21, <2>22
<1> QED BY <1>2, <1>3

\* A new entry, for a command of which nothing is on disk yet.
Opened(i) == [seq |-> sequence + 1, state |-> "running", truncated |-> FALSE, metaBytes |-> 0,
              logBytes |-> 0, reserved |-> 0, pending |-> <<>>, queued |-> FALSE,
              accepting |-> i \in Captured, writeFailed |-> FALSE]

LEMMA OpenedFields ==
  ASSUME Typed, NEW i, NEW e \in {Opened(i)}
  PROVE  /\ e \in Entry /\ e # Nothing /\ e.seq = sequence + 1 /\ e.state = "running" /\ e.metaBytes = 0
         /\ e.logBytes = 0 /\ e.reserved = 0 /\ e.pending = <<>> /\ e.queued = FALSE
         /\ (e.accepting <=> i \in Captured) /\ e.writeFailed = FALSE
<1>1. sequence + 1 \in Nat /\ 0 \in 0..MaxMeta /\ 0 \in 0..MaxLog /\ <<>> \in Seq(Nat)
  BY Limits DEF Typed
<1>2. CASE i \in Captured
  <2>1. (i \in Captured) = TRUE
    BY <1>2, Zenon
  <2>2. e = [seq |-> sequence + 1, state |-> "running", truncated |-> FALSE, metaBytes |-> 0,
             logBytes |-> 0, reserved |-> 0, pending |-> <<>>, queued |-> FALSE,
             accepting |-> TRUE, writeFailed |-> FALSE]
    BY <2>1, Zenon DEF Opened
  <2>3. e \in Entry
    BY <1>1, <2>2 DEF Entry
  <2>4. e # Nothing
    BY <2>3, EntryFields
  <2>5. e.accepting = TRUE
    BY <2>2
  <2> QED BY <1>2, <2>2, <2>3, <2>4, <2>5
<1>3. CASE i \notin Captured
  <2>1. (i \in Captured) = FALSE
    BY <1>3
  <2>2. e = [seq |-> sequence + 1, state |-> "running", truncated |-> FALSE, metaBytes |-> 0,
             logBytes |-> 0, reserved |-> 0, pending |-> <<>>, queued |-> FALSE,
             accepting |-> FALSE, writeFailed |-> FALSE]
    BY <2>1, Zenon DEF Opened
  <2>3. e \in Entry
    BY <1>1, <2>2 DEF Entry
  <2>4. e # Nothing
    BY <2>3, EntryFields
  <2>5. e.accepting = FALSE
    BY <2>2
  <2> QED BY <1>3, <2>2, <2>3, <2>4, <2>5
<1> QED BY <1>2, <1>3

LEMMA OpensIInv ==
  ASSUME IInv, Fits, At("room"), cur.op = "start", NEW i, i = cur.id, NEW e \in {Opened(i)},
         sequence' = sequence + 1, entries' = [entries EXCEPT ![i] = e], active' = active \cup {i},
         IF i \in Captured THEN Goto("create") ELSE Save(e),
         UNCHANGED <<commands, phase, bytes, pendingBytes, queue, disk, crashes>>
  PROVE  IInv'
<1>0. cur.at = "room" /\ Typed
  BY DEF At, IInv
<1>1. /\ i \in Ids /\ phase # "down" /\ Disk(i) /\ Record(i) /\ OpOn(i) = "start" /\ PlaceOn(i) = "room"
      /\ Place = "room" /\ ~Evicting /\ cur.victim = Nothing
  BY <1>0, CommandAtWork
<1>2. life[i] = "starting" /\ entries[i] = Nothing /\ printed[i] = 0 /\ i # Nothing
  BY <1>1, Limits DEF Record, Disk
<1>3. json[i] = Nothing /\ tmp[i] = Nothing /\ log[i] = Nothing /\ i \notin active
  BY <1>1, <1>2 DEF Record, Forgotten
<1>4. /\ e \in Entry /\ e # Nothing /\ e.state = "running" /\ e.metaBytes = 0
      /\ e.logBytes = 0 /\ e.reserved = 0 /\ e.pending = <<>> /\ ~e.queued
      /\ (e.accepting <=> i \in Captured) /\ ~e.writeFailed
  BY <1>0, OpenedFields
<1>5. /\ cur' \in CurType /\ cur'.op = "start" /\ cur'.id = i /\ cur'.victim = Nothing
      /\ \/ cur'.at = "create" /\ i \in Captured
         \/ cur'.at = "save_room" /\ i \notin Captured /\ cur'.text # Nothing
            /\ cur'.text = TextOf(e, cur'.text.size)
  <2>1. CASE i \in Captured
    <3>1. cur' = [cur EXCEPT !.at = "create"]
      BY <2>1 DEF Goto
    <3> QED BY <1>0, <1>1, <2>1, <3>1, Moves DEF Ats
  <2>2. CASE i \notin Captured
    <3>1. Save(e) /\ e.state \in {"running", "ended"}
      BY <1>4, <2>2
    <3> QED BY <1>0, <1>1, <1>4, <2>2, <3>1, SaveStep
  <2> QED BY <2>1, <2>2
<1>6. /\ OpOn(i)' = "start" /\ PlaceOn(i)' = cur'.at /\ ChunkOn(i)' = <<>> /\ Place' = cur'.at /\ ~Evicting'
  BY <1>5 DEF OpOn, PlaceOn, ChunkOn, Place, Evicting
<1> USE DEF IInv
<1>7. entries' \in [Ids -> Entry \cup {Nothing}] /\ entries'[i] = e /\ \A j \in Ids \ {i} : entries'[j] = entries[j]
  BY <1>1, <1>4, OthersEntries
<1>8. /\ life' = life /\ printed' = printed /\ phase' = phase /\ bytes' = bytes /\ pendingBytes' = pendingBytes
      /\ queue' = queue /\ json' = json /\ tmp' = tmp /\ log' = log /\ synced' = synced
  BY DEF commands, disk
<1>9. \A j \in Ids \ {i} : Same(j) /\ SameView(j) /\ SameTmp(j) /\ OpOn(j)' = OpOn(j)
  <2>1. \A j \in Ids \ {i} : Same(j)
    BY <1>7, <1>8 DEF Same
  <2> QED BY <1>1, <1>5, <2>1, OthersElsewhere
<1>10. Sound'
  <2>1. Disk(i)'
    BY <1>1, <1>8 DEF Disk, Claims, Bytes
  <2>2. <<>> = Offsets(0, 0) /\ Len(<<>>) = 0
    BY NoOffsets
  <2>3. Stream(i, e)'
    BY <1>2, <1>4, <1>6, <1>8, <2>2 DEF Stream
  <2>4. i \in Captured => Capturing(i, e)'
    BY <1>4, <1>5, <1>6, <2>3 DEF Capturing
  <2>5. Accounts(i, e)'
    BY <1>2, <1>3, <1>4, <1>8 DEF Accounts, TextBytes
  <2>6. Remembered(i, e)'
    BY <1>2, <1>4, <1>6, <1>8, <2>4, <2>5 DEF Remembered, Resting
  <2>7. Working(i, e)'
    BY <1>3, <1>4, <1>5, <1>6, <1>8 DEF Working
  <2>8. Record(i)'
    BY <1>2, <1>3, <1>4, <1>5, <1>6, <1>7, <1>8, <2>6, <2>7 DEF Record
  <2> QED BY <1>1, <1>8, <1>9, <2>1, <2>8, SoundStep
<1>11. Typed'
  BY <1>1, <1>5, <1>7, <1>8 DEF Typed
<1>12. QueueOK'
  <2>1. \A op \in {"start", "append", "finish"} : ~JobOK(op, i)
    BY <1>1, <1>2, <1>3 DEF JobOK
  <2>2. active' \subseteq Ids
    BY <1>11 DEF Typed
  <2> QED BY <1>1, <1>4, <1>7, <1>8, <1>9, <2>1, <2>2, QueueKept
<1>13. CurOK'
  <2>1. Place' \in Places(cur'.op)
    BY <1>5, <1>6 DEF Places
  <2>2. Saving' => cur'.at = "save_room" /\ cur'.text = TextOf(entries'[cur'.id], cur'.text.size)
    BY <1>5, <1>6, <1>7 DEF Saving
  <2> QED BY <1>2, <1>5, <1>6, <2>1, <2>2 DEF CurOK
<1>14. Balance' /\ Backlog'
  <2>1. Needs' = 0 /\ Needs = 0 /\ Unwritten' = 0 /\ Unwritten = 0
    BY <1>0, <1>5 DEF Needs, Unwritten
  <2>2. EntrySizes[i] = 0 /\ EntrySizes'[i] = 0 /\ PendingSizes[i] = 0 /\ PendingSizes'[i] = 0
    BY <1>1, <1>2, <1>4, <1>7 DEF EntrySizes, PendingSizes
  <2>3. Total(EntrySizes', Ids) = Total(EntrySizes, Ids) /\ Total(PendingSizes', Ids) = Total(PendingSizes, Ids)
    <3>1. /\ Total(EntrySizes', Ids) = Total(EntrySizes, Ids) - EntrySizes[i] + EntrySizes'[i]
          /\ Total(PendingSizes', Ids) = Total(PendingSizes, Ids) - PendingSizes[i] + PendingSizes'[i]
          /\ Total(EntrySizes, Ids) \in Nat /\ Total(PendingSizes, Ids) \in Nat
      BY <1>1, <1>7, <1>11, BooksStep
    <3> QED BY <2>2, <3>1
  <2>4. Cardinality(Known') <= MaxRecords
    <3>1. Known' = Known \cup {i} /\ i \notin Known
      BY <1>1, <1>2, <1>4, <1>7 DEF Known
    <3>2. Cardinality(Known') = Cardinality(Known) + 1
      BY <3>1, KnownIsFinite, FS_AddElement
    <3>3. Cardinality(Known) + 1 <= MaxRecords
      BY <1>0 DEF Fits, At
    <3> QED BY <3>2, <3>3
  <2>5. Balance'
    BY <1>8, <2>1, <2>3, <2>4 DEF Balance
  <2>6. Backlog'
    BY <1>8, <2>1, <2>3 DEF Backlog
  <2> QED BY <2>5, <2>6
<1>15. DownOK'
  BY <1>1, <1>8 DEF DownOK
<1> QED BY <1>10, <1>11, <1>12, <1>13, <1>14, <1>15

LEMMA MakeRoomIInv == ASSUME IInv, MakeRoom PROVE IInv'
<1>1. cur.at \in {"room", "save_room"}
  BY DEF MakeRoom, At
<1>2. CASE /\ Fits
           /\ \/ At("save_room") /\ Goto("write_tmp")
              \/ At("room") /\ cur.op = "append" /\ Goto("write")
           /\ UNCHANGED <<commands, phase, memory, queue, disk, crashes>>
  BY <1>2, FitsIInv
<1>3. CASE /\ Fits /\ At("room") /\ cur.op = "start"
           /\ sequence' = sequence + 1
           /\ entries' = [entries EXCEPT ![cur.id] = Opened(cur.id)]
           /\ active' = active \cup {cur.id}
           /\ IF cur.id \in Captured THEN Goto("create") ELSE Save(Opened(cur.id))
           /\ UNCHANGED <<commands, phase, bytes, pendingBytes, queue, disk, crashes>>
  <2>1. PICK i : i = cur.id
    OBVIOUS
  <2>2. PICK e \in {Opened(i)} : TRUE
    OBVIOUS
  <2> QED BY <1>3, <2>1, <2>2, OpensIInv
<1>4. CASE /\ ~Fits /\ Victims # {} /\ Evict(OldestOf(Victims))
           /\ UNCHANGED <<commands, phase, memory, queue, disk, crashes>>
  <2>1. \A j \in Victims : entries[j].seq \in Nat
    BY EntryFields DEF Victims, Known, IInv, Typed
  <2>2. OldestOf(Victims) \in Victims
    BY <1>4, <2>1, OldestIsIn
  <2>3. PICK v : v = OldestOf(Victims)
    OBVIOUS
  <2>4. v \in Known \ (active \cup {cur.id}) /\ Evict(v)
    BY <1>4, <2>2, <2>3 DEF Victims
  <2> QED BY <1>1, <1>4, <2>4, EvictIInv
<1>5. CASE Fail(<<>>)
  BY <1>1, <1>5, FailIInv
<1> QED BY <1>2, <1>3, <1>4, <1>5 DEF MakeRoom, Opened

LEMMA ClearNextIInv == ASSUME IInv, ClearNext PROVE IInv'
<1>1. At("clear") /\ UNCHANGED <<commands, phase, memory, queue, disk, crashes>>
  BY DEF ClearNext
<1>2. CASE Done
  BY <1>1, <1>2, ClearNextEnds
<1>3. CASE \E v \in Known \ active : Evict(v)
  BY <1>1, <1>3, ClearNextGoesOn
<1> QED BY <1>2, <1>3 DEF ClearNext

-----------------------------------------------------------------------------
(* Crashes and restarts.                                                      *)

LEMMA WholeSequence == ASSUME NEW S, NEW s \in Seq(S) PROVE s = SubSeq(s, 1, Len(s))
BY Shortened

\* The log of a command with the write on its way, as a power failure finds it.
LEMMA WrittenOK ==
  ASSUME IInv, phase # "down", NEW i \in Ids, log[i] # Nothing
  PROVE  \E w \in Nat : /\ Written(i) = Offsets(0, w) /\ Len(Written(i)) = w /\ w <= printed[i] /\ w <= MaxLog
                        /\ IF cur.at = "write" /\ cur.id = i THEN w = entries[i].logBytes + Len(cur.chunk)
                                                             ELSE w = Len(log[i])
<1>1. printed[i] \in Nat
  BY Limits DEF IInv, Typed
<1>2. CASE cur.at = "write" /\ cur.id = i
  <2>1. cur.op = "append" /\ cur.at # "idle"
    BY <1>2, CurFields DEF IInv, CurOK, Places, Place, Evicting
  <2>2. PICK k \in Nat : k = Len(cur.chunk)
    BY CurFields, EmptyOrNot DEF IInv
  <2>3. cur.chunk = SubSeq(cur.chunk, 1, k) /\ k \in 0..Len(cur.chunk)
    BY <2>2, CurFields, WholeSequence DEF IInv
  <2>4. PICK e \in Entry : e = entries[i] /\ Stream(i, e) /\ ChunkOn(i) = cur.chunk
    BY <1>2, <2>1, AppendingEntry
  <2>5. log[i] \o cur.chunk = Offsets(0, e.logBytes + k) /\ Len(log[i] \o cur.chunk) = e.logBytes + k
    BY <1>2, <2>1, <2>3, <2>4, LogGrows
  <2>6. Written(i) = log[i] \o cur.chunk
    BY <1>2 DEF Written, At
  <2>7. e.logBytes \in Nat /\ Len(e.pending) \in Nat /\ e.reserved \in 0..MaxLog
    BY EntryFields, EmptyOrNot
  <2>8. e.reserved = e.logBytes + k + Len(e.pending) /\ e.reserved <= printed[i]
    BY <2>2, <2>4 DEF Stream
  <2>9. e.logBytes + k \in Nat /\ e.logBytes + k <= printed[i] /\ e.logBytes + k <= MaxLog
    BY <1>1, <2>7, <2>8, Limits
  <2> QED BY <1>2, <2>2, <2>4, <2>5, <2>6, <2>9
<1>3. CASE ~(cur.at = "write" /\ cur.id = i)
  <2>1. Written(i) = log[i] /\ Len(log[i]) \in Nat
    BY <1>3, LogIn DEF Written, At, IInv
  <2>2. Disk(i)
    BY DEF IInv, Sound
  <2> QED BY <1>3, <2>1, <2>2 DEF Disk
<1> QED BY <1>2, <1>3

LEMMA NothingWritten == ASSUME NEW i, log[i] = Nothing PROVE Written(i) = <<>> /\ Len(Written(i)) = 0
BY DEF Written

\* The files that a write is about to change were given room before, old next to new.
LEMMA DiskBound ==
  ASSUME IInv, phase # "down", NEW use \in Sizes,
         \A i \in Ids : use[i] <= TextBytes(json[i]) + TextBytes(tmp[i]) + Len(Written(i))
  PROVE  Total(use, Ids) <= MaxTotal
<1> DEFINE Bound == [i \in Ids |-> EntrySizes[i] + (IF i = cur.id THEN Needs ELSE 0)]
<1>1. Typed /\ CurOK /\ Balance /\ Sound
  BY DEF IInv
<1>2. PICK needs \in Nat : needs = Needs
  BY <1>1, NeedsTyped
<1>3. EntrySizes \in Sizes
  BY <1>1, SizesTyped DEF Typed, EntrySizes
<1>4. Bound \in Sizes
  BY <1>2, <1>3 DEF Sizes
<1>5. ASSUME NEW i \in Ids PROVE use[i] <= Bound[i]
  <2>1. Record(i)
    BY <1>1 DEF Sound
  <2>2. use[i] \in Nat /\ Bound[i] \in Nat
    BY <1>4 DEF Sizes
  <2>3. CASE entries[i] = Nothing
    <3>1. TextBytes(json[i]) = 0 /\ TextBytes(tmp[i]) = 0 /\ Len(Written(i)) = 0
      BY <2>1, <2>3, NothingWritten DEF Record, Forgotten, TextBytes
    <3>2. use[i] <= 0 + 0 + 0
      BY <3>1
    <3> HIDE DEF Bound
    <3> QED BY <2>2, <3>2
  <2>4. CASE entries[i] # Nothing
    <3>1. PICK e \in Entry : e = entries[i] /\ Remembered(i, e)
      BY <1>1, <2>1, <2>4, EntryIn DEF Record
    <3>2. PICK m \in Nat, b \in Nat : m = e.metaBytes /\ b = e.logBytes
      BY EntryFields, Limits
    <3>3. TextBytes(json[i]) = m /\ (log[i] # Nothing => Len(log[i]) = b)
      BY <3>1, <3>2 DEF Remembered, Accounts
    <3>4. Bound[i] = m + b + (IF i = cur.id THEN needs ELSE 0)
      BY <1>2, <2>4, <3>1, <3>2 DEF EntrySizes
    <3> HIDE DEF Bound
    <3>5. PICK w \in Nat : /\ w = Len(Written(i))
                           /\ IF cur.at = "write" /\ cur.id = i THEN w <= b + needs ELSE w <= b
      <4>1. CASE log[i] = Nothing
        BY <4>1, NothingWritten
      <4>2. CASE log[i] # Nothing
        <5>1. PICK w \in Nat : /\ w = Len(Written(i))
                               /\ IF cur.at = "write" /\ cur.id = i THEN w = b + Len(cur.chunk)
                                                                    ELSE w = Len(log[i])
          BY <3>1, <3>2, <4>2, WrittenOK
        <5>2. PICK c \in Nat : c = Len(cur.chunk)
          BY <1>1, CurFields, EmptyOrNot
        <5>3. cur.at = "write" => needs = c + MaxMeta
          BY <1>2, <5>2 DEF Needs
        <5>4. cur.at = "write" => c <= needs
          BY <5>3, Limits
        <5>5. IF cur.at = "write" /\ cur.id = i THEN w <= b + needs ELSE w <= b
          <6>1. CASE cur.at = "write" /\ cur.id = i
            <7>1. w = b + c
              BY <5>1, <5>2, <6>1
            <7> QED BY <5>4, <6>1, <7>1
          <6>2. CASE ~(cur.at = "write" /\ cur.id = i)
            <7>1. w = b
              BY <3>3, <4>2, <5>1, <6>2
            <7> QED BY <6>2, <7>1
          <6> QED BY <6>1, <6>2
        <5> QED BY <5>1, <5>5
      <4> QED BY <4>1, <4>2
    <3>6. PICK t \in Nat : /\ t = TextBytes(tmp[i])
                           /\ IF tmp[i] # Nothing THEN t = needs /\ cur.id = i /\ cur.at = "rename" ELSE t = 0
      <4>1. CASE tmp[i] = Nothing
        BY <4>1 DEF TextBytes
      <4>2. CASE tmp[i] # Nothing
        <5>1. cur.id = i /\ cur.at = "rename" /\ tmp[i] = cur.text
          BY <2>1, <4>2 DEF Record
        <5>2. TextBytes(tmp[i]) = needs
          BY <1>2, <4>2, <5>1 DEF Needs, TextBytes
        <5> QED BY <4>2, <5>1, <5>2
      <4> QED BY <4>1, <4>2
    <3>7. use[i] <= m + t + w
      BY <3>3, <3>5, <3>6
    <3>8. m + t + w <= m + b + (IF i = cur.id THEN needs ELSE 0)
      <4>1. CASE tmp[i] # Nothing
        BY <3>5, <3>6, <4>1
      <4>2. CASE tmp[i] = Nothing
        BY <3>5, <3>6, <4>2
      <4> QED BY <4>1, <4>2
    <3> QED BY <2>2, <3>4, <3>7, <3>8
  <2> QED BY <2>3, <2>4
<1>6. PICK total \in Nat : total = Total(EntrySizes, Ids)
  BY <1>3, TotalSteps
<1>7. Total(Bound, Ids) <= total + needs
  <2>1. CASE cur.id \in Ids
    <3>1. \A j \in Ids \ {cur.id} : Bound[j] = EntrySizes[j]
      BY <1>3 DEF Sizes
    <3>2. Bound[cur.id] = EntrySizes[cur.id] + needs /\ EntrySizes[cur.id] \in Nat
      BY <1>2, <1>3, <2>1 DEF Sizes
    <3> HIDE DEF Bound
    <3>3. Total(Bound, Ids) = total - EntrySizes[cur.id] + Bound[cur.id]
      BY <1>3, <1>4, <1>6, <2>1, <3>1, TotalChanges
    <3> QED BY <3>2, <3>3
  <2>2. CASE cur.id \notin Ids
    <3>1. \A j \in Ids : Bound[j] = EntrySizes[j]
      BY <1>3, <2>2 DEF Sizes
    <3> HIDE DEF Bound
    <3>2. Total(Bound, Ids) = total
      BY <1>3, <1>4, <1>6, <3>1, TotalsAgree
    <3> QED BY <3>2
  <2> QED BY <2>1, <2>2
<1> HIDE DEF Bound
<1>8. Total(use, Ids) <= Total(Bound, Ids)
  BY <1>4, <1>5, TotalIsMonotone
<1>9. total + needs <= MaxTotal
  BY <1>1, <1>2, <1>6 DEF Balance
<1>10. Total(use, Ids) \in Nat /\ Total(Bound, Ids) \in Nat
  BY <1>4, TotalSteps
<1> QED BY <1>7, <1>8, <1>9, <1>10, Limits

LEMMA ZeroTotal ==
  ASSUME NEW f \in Sizes, \A i \in Ids : f[i] = 0
  PROVE  Total(f, Ids) = 0
<1>1. {} \in SUBSET Ids /\ \A i \in Ids \ {} : f[i] = 0
  OBVIOUS
<1> QED BY <1>1, TotalOfPart, TotalSteps

\* A store without entries and without a job at work, at the start and after a crash.
Unused == Known = {} /\ bytes = 0 /\ pendingBytes = 0 /\ cur = Idle
AtRest == /\ cur \in CurType /\ Needs = 0 /\ Unwritten = 0
          /\ \A j \in Ids : OpOn(j) = "none" /\ PlaceOn(j) = "idle" /\ ChunkOn(j) = <<>>

LEMMA NothingAtWork == cur = Idle => CurOK /\ AtRest
<1> SUFFICES ASSUME cur = Idle PROVE CurOK /\ AtRest
  OBVIOUS
<1>1. Idle.op = "none" /\ Idle.id = Nothing /\ Idle.at = "idle" /\ Idle.chunk = <<>> /\ Idle \in CurType
  BY DEF Idle, CurType
<1>2. CurOK
  BY DEF CurOK, Place, Evicting, Places, Saving, Idle
<1>3. Needs = 0 /\ Unwritten = 0
  BY <1>1 DEF Unwritten, Needs
<1>4. \A j \in Ids : OpOn(j) = "none" /\ PlaceOn(j) = "idle" /\ ChunkOn(j) = <<>>
  BY <1>1, Limits DEF OpOn, PlaceOn, ChunkOn
<1> QED BY <1>1, <1>2, <1>3, <1>4 DEF AtRest

LEMMA EmptyBooks == Unused => Balance /\ Backlog
<1> SUFFICES ASSUME Unused PROVE Balance /\ Backlog
  OBVIOUS
<1>1. \A i \in Ids : entries[i] = Nothing
  BY DEF Known, Unused
<1>2. EntrySizes \in Sizes /\ PendingSizes \in Sizes
      /\ \A i \in Ids : EntrySizes[i] = 0 /\ PendingSizes[i] = 0
  BY <1>1 DEF EntrySizes, PendingSizes, Sizes
<1>3. Total(EntrySizes, Ids) = 0 /\ Total(PendingSizes, Ids) = 0
  BY <1>2, ZeroTotal
<1>4. Cardinality(Known) = 0
  BY FS_EmptySet DEF Unused
<1> QED BY <1>3, <1>4, NothingAtWork, Limits DEF Balance, Backlog, Unused, AtRest

LEMMA AfterCrash ==
  /\ (cur = Idle)' => (CurOK /\ AtRest)'
  /\ Unused' => (Balance /\ Backlog)'
BY NothingAtWork, EmptyBooks, PTL

LEMMA CrashIInv == ASSUME IInv, Crash PROVE IInv'
<1>1. /\ Typed /\ Sound /\ phase # "down" /\ phase' = "down" /\ printed' = printed /\ json' = json /\ tmp' = tmp
      /\ life' = [i \in Ids |-> IF life[i] \in {"starting", "running"} THEN "killed" ELSE life[i]]
      /\ entries' = [i \in Ids |-> Nothing] /\ active' = {} /\ sequence' = 0 /\ bytes' = 0 /\ pendingBytes' = 0
      /\ queue' = <<>> /\ cur' = Idle
  BY DEF Crash, IInv
<1>2. PICK left \in [Ids -> 0..MaxPrinted] :
        /\ \A i \in Ids : left[i] \in synced[i]..Len(Written(i))
        /\ log' = [i \in Ids |-> IF log[i] = Nothing THEN Nothing ELSE SubSeq(Written(i), 1, left[i])]
        /\ synced' = left
  BY DEF Crash
<1>3. \A i \in Ids : left[i] \in Nat
  BY <1>2, Limits
<1>4. ASSUME NEW i \in Ids
      PROVE  /\ log[i] = Nothing => log'[i] = Nothing /\ left[i] = 0 /\ Len(Written(i)) = 0
             /\ log[i] # Nothing => /\ log'[i] = Offsets(0, left[i]) /\ log'[i] \in Seq(Nat) /\ log'[i] # Nothing
                                    /\ Len(log'[i]) = left[i] /\ left[i] <= printed[i] /\ left[i] <= MaxLog
                                    /\ Len(Written(i)) \in Nat /\ left[i] <= Len(Written(i))
  <2>1. synced[i] \in Nat /\ left[i] \in Nat /\ left[i] \in synced[i]..Len(Written(i)) /\ printed[i] \in Nat
    BY <1>1, <1>2, <1>3, Limits DEF Typed
  <2>2. CASE log[i] = Nothing
    <3>1. Len(Written(i)) = 0 /\ log'[i] = Nothing
      BY <1>2, <2>2, NothingWritten
    <3> QED BY <2>1, <2>2, <3>1
  <2>3. CASE log[i] # Nothing
    <3>1. PICK w \in Nat : Written(i) = Offsets(0, w) /\ Len(Written(i)) = w /\ w <= printed[i] /\ w <= MaxLog
      BY <1>1, <2>3, WrittenOK
    <3>2. left[i] \in 0..w /\ left[i] <= printed[i] /\ left[i] <= MaxLog
      BY <2>1, <3>1, Limits
    <3>3. log'[i] = SubSeq(Offsets(0, w), 1, left[i])
      BY <1>2, <2>3, <3>1
    <3>4. log'[i] = Offsets(0, left[i])
      BY <3>2, <3>3, OffsetsPart
    <3>5. log'[i] \in Seq(Nat) /\ Len(log'[i]) = left[i]
      BY <2>1, <3>4, OffsetsTyped
    <3>6. log'[i] # Nothing
      BY <3>5, NothingAssumption
    <3> QED BY <2>1, <2>3, <3>1, <3>2, <3>4, <3>5, <3>6
  <2> QED BY <2>2, <2>3
<1>5. CurOK' /\ AtRest'
  BY <1>1, AfterCrash
<1>6. Known' = {}
  BY <1>1 DEF Known
<1>7. Balance' /\ Backlog'
  BY <1>1, <1>6, AfterCrash DEF Unused
<1>8. Typed'
  <2>1. life' \in [Ids -> Lives] /\ entries' \in [Ids -> Entry \cup {Nothing}] /\ active' \subseteq Ids
    BY <1>1 DEF Typed, Lives
  <2>2. log' \in [Ids -> Seq(Nat) \cup {Nothing}]
    <3>1. \A i \in Ids : log'[i] \in Seq(Nat) \cup {Nothing}
      BY <1>4
    <3> QED BY <1>2, <3>1
  <2>3. synced' \in [Ids -> Nat] /\ phase' \in Phases /\ queue' \in Seq(Job)
    BY <1>1, <1>2, <1>3 DEF Phases
  <2>4. sequence' \in Nat /\ bytes' \in Int /\ pendingBytes' \in Int /\ cur' \in CurType
    BY <1>1, <1>5 DEF AtRest
  <2> QED BY <1>1, <2>1, <2>2, <2>3, <2>4 DEF Typed
<1>9. ASSUME NEW i \in Ids PROVE Disk(i)'
  <2>1. Disk(i) /\ printed[i] \in Nat /\ synced'[i] = left[i]
    BY <1>1, <1>2, Limits DEF Sound, Typed
  <2>2. life'[i] = life[i] \/ (life[i] \in {"starting", "running"} /\ life'[i] = "killed")
    BY <1>1 DEF Typed
  <2>3. log'[i] # Nothing => /\ log'[i] = Offsets(0, Len(log'[i]))
                             /\ Len(log'[i]) <= printed'[i] /\ Len(log'[i]) <= MaxLog
    BY <1>1, <1>4
  <2>4. json'[i] # Nothing => Claims(i, json[i])'
    BY <1>1, <2>1, <2>2 DEF Disk, Claims
  <2>5. synced'[i] <= Bytes(log'[i])
    BY <1>3, <1>4, <2>1 DEF Bytes
  <2>6. /\ life'[i] \in {"unused", "unarchived"} => json'[i] = Nothing /\ tmp'[i] = Nothing /\ log'[i] = Nothing
        /\ life'[i] \in {"unused", "starting"} => printed'[i] = 0
        /\ i \notin Captured => log'[i] = Nothing
    BY <1>1, <1>4, <2>1, <2>2 DEF Disk
  <2> QED BY <2>3, <2>4, <2>5, <2>6 DEF Disk
<1>10. Sound'
  BY <1>1, <1>9 DEF Sound
<1>11. QueueOK'
  BY <1>1, <1>6 DEF QueueOK, Ordered
<1>12. DiskUse' <= MaxTotal
  <2> DEFINE use == [i \in Ids |-> TextBytes(json[i]) + TextBytes(tmp[i]) + Bytes(log'[i])]
  <2>1. ASSUME NEW i \in Ids
        PROVE  use[i] \in Nat /\ use[i] <= TextBytes(json[i]) + TextBytes(tmp[i]) + Len(Written(i))
    <3>1. \A t \in Text \cup {Nothing} : TextBytes(t) \in Nat
      BY TextFields DEF TextBytes
    <3>2. TextBytes(json[i]) \in Nat /\ TextBytes(tmp[i]) \in Nat
      BY <1>1, <3>1 DEF Typed
    <3>3. Bytes(log'[i]) \in Nat /\ Len(Written(i)) \in Nat /\ Bytes(log'[i]) <= Len(Written(i))
      BY <1>3, <1>4 DEF Bytes
    <3> QED BY <3>1, <3>2, <3>3
  <2>2. use \in Sizes
    BY <2>1 DEF Sizes
  <2> HIDE DEF use
  <2>3. Total(use, Ids) <= MaxTotal
    BY <1>1, <2>1, <2>2, DiskBound
  <2>4. DiskUse' = Total(use, Ids)
    BY <1>1 DEF DiskUse, use, TextBytes, Bytes
  <2> QED BY <2>3, <2>4
<1>13. Cardinality(Recorded') <= MaxRecords
  <2>1. Recorded' = Recorded /\ Recorded \subseteq Known
    BY <1>1 DEF Recorded, Known, Sound, Record, Forgotten
  <2>2. Cardinality(Recorded) <= Cardinality(Known) /\ Cardinality(Known) <= MaxRecords
    BY <2>1, KnownIsFinite, FS_Subset DEF IInv, Balance
  <2>3. Cardinality(Recorded) \in Nat /\ Cardinality(Known) \in Nat
    BY <2>1, KnownIsFinite, IdsAreFinite
  <2> QED BY <2>1, <2>2, <2>3, Limits
<1>14. DownOK'
  <2>1. \A i \in Ids : life'[i] \notin {"starting", "running"}
    BY <1>1
  <2> QED BY <1>1, <1>6, <1>12, <1>13, <2>1 DEF DownOK
<1> QED BY <1>5, <1>7, <1>8, <1>10, <1>11, <1>14 DEF IInv

LEMMA RecoveredFields ==
  ASSUME NEW i \in Ids, NEW t \in Text, t = json[i], Bytes(log[i]) \in 0..MaxLog, NEW e \in {Recovered(i)}
  PROVE  /\ e \in Entry /\ e # Nothing /\ e.state = Outcome(t) /\ e.metaBytes = t.size
         /\ e.logBytes = Bytes(log[i]) /\ e.pending = <<>> /\ e.queued = FALSE /\ e.accepting = FALSE
         /\ (~e.truncated => ~t.truncated /\ ~Doubtful(i))
<1>1. PICK b \in 0..MaxLog : b = Bytes(log[i])
  OBVIOUS
<1>2. /\ b \in Nat /\ b \in 0..MaxLog /\ t.size \in 0..MaxMeta /\ t.seq \in Nat /\ <<>> \in Seq(Nat)
      /\ Outcome(t) \in {"running", "ended", "unknown"}
  BY TextFields, Limits DEF Outcome
<1>3. PICK cut \in BOOLEAN : cut = (t.truncated \/ Doubtful(i))
  BY Zenon
<1>4. e = [seq |-> t.seq, state |-> Outcome(t), truncated |-> cut, metaBytes |-> t.size, logBytes |-> b,
           reserved |-> b, pending |-> <<>>, queued |-> FALSE, accepting |-> FALSE, writeFailed |-> FALSE]
  BY <1>1, <1>3, Zenon DEF Recovered
<1>5. e \in Entry
  BY <1>2, <1>4 DEF Entry
<1>6. e # Nothing
  BY <1>5, EntryFields
<1>7. e.truncated = cut
  BY <1>4
<1>8. ~e.truncated => ~t.truncated /\ ~Doubtful(i)
  BY <1>3, <1>7, Zenon
<1>9. e.state = Outcome(t) /\ e.metaBytes = t.size /\ e.logBytes = b /\ e.pending = <<>>
  BY <1>4
<1>10. e.queued = FALSE /\ e.accepting = FALSE
  BY <1>4
<1> QED BY <1>1, <1>5, <1>6, <1>8, <1>9, <1>10

LEMMA RestartIInv == ASSUME IInv, Restart PROVE IInv'
<1>1. /\ Typed /\ Sound /\ phase = "down" /\ phase' = "ready" /\ life' = life /\ printed' = printed
      /\ active' = active /\ pendingBytes' = pendingBytes /\ queue' = queue /\ cur' = cur /\ json' = json
      /\ entries' = [i \in Ids |-> IF i \in Recorded THEN Recovered(i) ELSE Nothing]
      /\ log' = [i \in Ids |-> IF i \in Recorded THEN log[i] ELSE Nothing]
      /\ synced' = [i \in Ids |-> IF i \in Recorded THEN synced[i] ELSE 0]
      /\ tmp' = [i \in Ids |-> Nothing]
  BY DEF Restart, commands, IInv
<1>2. /\ sequence' = Max({0} \cup {json[i].seq : i \in Recorded})
      /\ bytes' = Total([i \in Ids |-> TextBytes(json[i]) + Bytes(log[i])], Recorded)
  BY DEF Restart
<1>3. /\ cur = Idle /\ queue = <<>> /\ active = {} /\ Known = {} /\ DiskUse <= MaxTotal
      /\ Cardinality(Recorded) <= MaxRecords /\ \A i \in Ids : life[i] \notin {"starting", "running"}
  BY <1>1 DEF IInv, DownOK
<1>4. CurOK' /\ AtRest'
  BY <1>1, <1>3, AfterCrash
<1>5. ASSUME NEW i \in Ids
      PROVE  /\ Disk(i) /\ Bytes(log[i]) \in 0..MaxLog /\ Bytes(log[i]) <= printed[i] /\ printed[i] \in Nat
             /\ TextBytes(json[i]) \in Nat /\ TextBytes(tmp[i]) \in Nat
  <2>1. Disk(i) /\ printed[i] \in Nat
    BY <1>1, Limits DEF Sound, Typed
  <2>2. Bytes(log[i]) \in 0..MaxLog /\ Bytes(log[i]) <= printed[i]
    BY <1>1, <2>1, LogIn, Limits DEF Disk, Bytes
  <2>3. \A t \in Text \cup {Nothing} : TextBytes(t) \in Nat
    BY TextFields DEF TextBytes
  <2>4. TextBytes(json[i]) \in Nat /\ TextBytes(tmp[i]) \in Nat
    BY <1>1, <2>3 DEF Typed
  <2> QED BY <2>1, <2>2, <2>4
<1>6. ASSUME NEW i \in Recorded
      PROVE  \E t \in Text, e \in Entry :
               /\ t = json[i] /\ e = entries'[i] /\ e # Nothing /\ e.state = Outcome(t) /\ e.metaBytes = t.size
               /\ e.logBytes = Bytes(log[i]) /\ e.pending = <<>> /\ ~e.queued /\ ~e.accepting
               /\ (~e.truncated => ~t.truncated /\ ~Doubtful(i))
  <2>1. i \in Ids /\ json[i] # Nothing
    BY DEF Recorded
  <2>2. PICK t \in Text : t = json[i]
    BY <1>1, <2>1 DEF Typed
  <2>3. PICK e \in {Recovered(i)} : e = entries'[i]
    BY <1>1, <2>1
  <2>4. Bytes(log[i]) \in 0..MaxLog
    BY <1>5, <2>1
  <2> QED BY <2>1, <2>2, <2>3, <2>4, RecoveredFields
<1>7. ASSUME NEW i \in Ids, i \notin Recorded
      PROVE  entries'[i] = Nothing /\ json[i] = Nothing /\ log'[i] = Nothing /\ synced'[i] = 0
  BY <1>1, <1>7 DEF Recorded
<1>8. Known' = Recorded
  BY <1>1, <1>6 DEF Known, Recorded
<1>9. ASSUME NEW i \in Ids PROVE Disk(i)'
  <2>1. Disk(i)
    BY <1>5
  <2>2. CASE i \in Recorded
    <3>1. log'[i] = log[i] /\ synced'[i] = synced[i] /\ tmp'[i] = Nothing
      BY <1>1, <2>2
    <3> QED BY <1>1, <2>1, <3>1 DEF Disk, Claims, Bytes
  <2>3. CASE i \notin Recorded
    <3>1. log'[i] = Nothing /\ synced'[i] = 0 /\ tmp'[i] = Nothing /\ json'[i] = Nothing
      BY <1>1, <1>7, <2>3
    <3> QED BY <1>1, <2>1, <3>1 DEF Disk, Bytes
  <2> QED BY <2>2, <2>3
<1>10. ASSUME NEW i \in Ids PROVE Record(i)'
  <2>1. OpOn(i)' = "none" /\ PlaceOn(i)' = "idle" /\ i \notin active' /\ tmp'[i] = Nothing
    BY <1>1, <1>3, <1>4 DEF AtRest
  <2>2. Disk(i) /\ life'[i] \notin {"starting", "running"}
    BY <1>1, <1>3, <1>5
  <2>3. CASE i \in Recorded
    <3>1. PICK t \in Text, e \in Entry :
               /\ t = json[i] /\ e = entries'[i] /\ e # Nothing /\ e.state = Outcome(t) /\ e.metaBytes = t.size
               /\ e.logBytes = Bytes(log[i]) /\ e.pending = <<>> /\ ~e.queued /\ ~e.accepting
               /\ (~e.truncated => ~t.truncated /\ ~Doubtful(i))
      BY <1>6, <2>3
    <3>2. log'[i] = log[i] /\ t # Nothing
      BY <1>1, <2>3, TextFields
    <3>3. Accounts(i, e)'
      BY <1>1, <1>5, <3>1, <3>2 DEF Accounts, TextBytes, Bytes
    <3>4. e.state \in {"ended", "unknown"} /\ (e.state = "ended" => t.state = "ended")
      BY <3>1 DEF Outcome
    <3>5. e.state = "ended" => life'[i] = "finished"
      BY <1>1, <2>2, <3>1, <3>2, <3>4 DEF Disk, Claims
    <3>6. i \in Captured /\ e.state = "ended" /\ ~e.truncated => e.logBytes = printed'[i]
      <4> SUFFICES ASSUME i \in Captured, e.state = "ended", ~e.truncated PROVE e.logBytes = printed[i]
        BY <1>1
      <4>1. t.state = "ended" /\ ~t.truncated /\ ~Doubtful(i)
        BY <3>1, <3>4
      <4>2. t.captured = printed[i]
        BY <2>2, <3>1, <3>2, <4>1 DEF Disk, Claims
      <4>3. ~(Bytes(log[i]) < t.captured)
        BY <3>1, <4>1 DEF Doubtful
      <4>4. Bytes(log[i]) \in Nat /\ Bytes(log[i]) <= printed[i] /\ printed[i] \in Nat
        BY <1>5, Limits
      <4> QED BY <3>1, <4>2, <4>3, <4>4
    <3>7. Resting(e)
      BY <3>1 DEF Resting
    <3>8. Remembered(i, e)'
      BY <2>1, <3>1, <3>3, <3>4, <3>5, <3>6, <3>7 DEF Remembered, Resting
    <3>9. Working(i, e)'
      BY <2>1 DEF Working
    <3>10. life'[i] \notin {"unused", "unarchived"}
      BY <1>1, <2>2, <2>3 DEF Disk, Recorded
    <3> QED BY <2>1, <2>2, <3>1, <3>8, <3>9, <3>10 DEF Record
  <2>4. CASE i \notin Recorded
    <3>1. entries'[i] = Nothing /\ json'[i] = Nothing /\ log'[i] = Nothing
      BY <1>1, <1>7, <2>4
    <3>2. Forgotten(i)'
      BY <2>1, <3>1 DEF Forgotten
    <3> QED BY <2>1, <2>2, <3>1, <3>2 DEF Record
  <2> QED BY <2>3, <2>4
<1>11. Sound'
  BY <1>9, <1>10 DEF Sound
<1>12. sequence' \in Nat
  <2> DEFINE f == [i \in Ids |-> json[i].seq]
  <2>1. Recorded \in SUBSET Ids
    BY DEF Recorded
  <2>2. \A i \in Recorded : f[i] = json[i].seq /\ f[i] \in Nat
    BY <1>6, <2>1, TextFields
  <2>3. {json[i].seq : i \in Recorded} = {f[i] : i \in Recorded}
    BY <2>2
  <2> HIDE DEF f
  <2>4. Max({0} \cup {f[i] : i \in Recorded}) \in Nat
    BY <2>1, <2>2, GreatestNumber
  <2> QED BY <1>2, <2>3, <2>4
<1>13. entries' \in [Ids -> Entry \cup {Nothing}]
  <2>1. \A i \in Ids : entries'[i] \in Entry \cup {Nothing}
    BY <1>6, <1>7
  <2> QED BY <1>1, <2>1
<1>14. \A i \in Ids : /\ EntrySizes'[i] = IF i \in Recorded THEN TextBytes(json[i]) + Bytes(log[i]) ELSE 0
                      /\ PendingSizes'[i] = 0
  <2> SUFFICES ASSUME NEW i \in Ids
               PROVE  /\ EntrySizes'[i] = IF i \in Recorded THEN TextBytes(json[i]) + Bytes(log[i]) ELSE 0
                      /\ PendingSizes'[i] = 0
    OBVIOUS
  <2>1. CASE i \in Recorded
    <3>1. PICK t \in Text, e \in Entry :
               /\ t = json[i] /\ e = entries'[i] /\ e # Nothing /\ e.metaBytes = t.size
               /\ e.logBytes = Bytes(log[i]) /\ e.pending = <<>>
      BY <1>6, <2>1
    <3>2. TextBytes(json[i]) = t.size
      BY <3>1, TextFields DEF TextBytes
    <3> QED BY <2>1, <3>1, <3>2 DEF EntrySizes, PendingSizes
  <2>2. CASE i \notin Recorded
    BY <1>7, <2>2 DEF EntrySizes, PendingSizes
  <2> QED BY <2>1, <2>2
<1>15. EntrySizes' \in Sizes /\ PendingSizes' \in Sizes
  BY <1>13, SizesTyped DEF EntrySizes, PendingSizes
<1>16. bytes' = Total(EntrySizes', Ids) /\ bytes' \in Nat
  <2> DEFINE f == [i \in Ids |-> TextBytes(json[i]) + Bytes(log[i])]
  <2>1. Recorded \in SUBSET Ids
    BY DEF Recorded
  <2>2. ASSUME NEW i \in Ids PROVE f[i] \in Nat
    <3>1. TextBytes(json[i]) \in Nat /\ Bytes(log[i]) \in Nat
      BY <1>5, Limits
    <3> QED BY <3>1
  <2>3. f \in Sizes
    BY <2>2 DEF Sizes
  <2>4. \A i \in Recorded : EntrySizes'[i] = f[i]
    BY <1>14, <2>1
  <2>5. \A i \in Ids \ Recorded : EntrySizes'[i] = 0
    BY <1>14
  <2>6. bytes' = Total(f, Recorded)
    BY <1>2
  <2> HIDE DEF f
  <2>7. Total(EntrySizes', Ids) = Total(EntrySizes', Recorded)
    BY <1>15, <2>1, <2>5, TotalOfPart
  <2>8. Total(EntrySizes', Recorded) = Total(f, Recorded)
    BY <1>15, <2>1, <2>3, <2>4, TotalsAgree
  <2>9. Total(EntrySizes', Ids) \in Nat
    BY <1>15, TotalSteps
  <2> QED BY <2>6, <2>7, <2>8, <2>9
<1>17. bytes' <= MaxTotal
  <2> DEFINE use == [i \in Ids |-> TextBytes(json[i]) + TextBytes(tmp[i]) + Bytes(log[i])]
  <2>1. ASSUME NEW i \in Ids PROVE use[i] \in Nat /\ EntrySizes'[i] <= use[i]
    <3>1. TextBytes(json[i]) \in Nat /\ TextBytes(tmp[i]) \in Nat /\ Bytes(log[i]) \in Nat
      BY <1>5, Limits
    <3>2. EntrySizes'[i] = IF i \in Recorded THEN TextBytes(json[i]) + Bytes(log[i]) ELSE 0
      BY <1>14
    <3> QED BY <3>1, <3>2
  <2>2. use \in Sizes
    BY <2>1 DEF Sizes
  <2>3. DiskUse = Total(use, Ids)
    BY DEF DiskUse
  <2> HIDE DEF use
  <2>4. Total(EntrySizes', Ids) <= Total(use, Ids) /\ Total(use, Ids) \in Nat
    BY <1>15, <2>1, <2>2, TotalIsMonotone, TotalSteps
  <2> QED BY <1>3, <1>16, <2>3, <2>4, Limits
<1>18. Balance'
  BY <1>3, <1>4, <1>8, <1>16, <1>17 DEF Balance, AtRest
<1>19. Backlog'
  <2>1. Total(PendingSizes', Ids) = 0
    BY <1>14, <1>15, ZeroTotal
  <2>2. pendingBytes = 0
    <3>1. PendingSizes \in Sizes /\ \A i \in Ids : PendingSizes[i] = 0
      BY <1>1, <1>3, SizesTyped DEF PendingSizes, Known, Typed
    <3>2. Total(PendingSizes, Ids) = 0
      BY <3>1, ZeroTotal
    <3>3. Unwritten = 0
      BY <1>3, NothingAtWork DEF AtRest
    <3> QED BY <3>2, <3>3 DEF IInv, Backlog
  <2> QED BY <1>1, <1>4, <2>1, <2>2, Limits DEF Backlog, AtRest
<1>20. Typed'
  <2>1. log' \in [Ids -> Seq(Nat) \cup {Nothing}] /\ synced' \in [Ids -> Nat]
    BY <1>1 DEF Typed
  <2>2. tmp' \in [Ids -> Text \cup {Nothing}] /\ phase' \in Phases
    BY <1>1 DEF Phases
  <2> QED BY <1>1, <1>12, <1>13, <1>16, <2>1, <2>2 DEF Typed
<1>21. QueueOK'
  <2>1. \A i \in Known' : ~entries'[i].queued
    BY <1>6, <1>8
  <2> QED BY <1>1, <1>3, <2>1 DEF QueueOK, Ordered
<1>22. DownOK'
  BY <1>1 DEF DownOK
<1> QED BY <1>4, <1>11, <1>18, <1>19, <1>20, <1>21, <1>22 DEF IInv

LEMMA InitIInv == Init => IInv
<1> SUFFICES ASSUME Init PROVE IInv
  OBVIOUS
<1>1. /\ life = [i \in Ids |-> "unused"] /\ printed = [i \in Ids |-> 0] /\ phase = "ready"
      /\ entries = [i \in Ids |-> Nothing] /\ active = {} /\ sequence = 0 /\ bytes = 0 /\ pendingBytes = 0
      /\ queue = <<>> /\ cur = Idle /\ json = [i \in Ids |-> Nothing] /\ tmp = [i \in Ids |-> Nothing]
      /\ log = [i \in Ids |-> Nothing] /\ synced = [i \in Ids |-> 0]
  BY DEF Init
<1>2. CurOK /\ AtRest
  BY <1>1, NothingAtWork
<1>3. Known = {}
  BY <1>1 DEF Known
<1>4. Balance /\ Backlog
  BY <1>1, <1>3, EmptyBooks DEF Unused
<1>5. Typed
  BY <1>1, <1>2, Limits DEF Typed, Lives, Phases, AtRest
<1>6. QueueOK
  BY <1>1, <1>3 DEF QueueOK, Ordered
<1>7. Sound
  <2> SUFFICES ASSUME NEW i \in Ids PROVE Disk(i) /\ Record(i)
    BY DEF Sound
  <2>1. Disk(i)
    BY <1>1 DEF Disk, Bytes
  <2>2. Forgotten(i)
    BY <1>1, <1>2 DEF Forgotten, AtRest
  <2> QED BY <1>1, <1>2, <2>1, <2>2 DEF Record, AtRest
<1>8. DownOK
  BY <1>1 DEF DownOK
<1> QED BY <1>2, <1>4, <1>5, <1>6, <1>7, <1>8 DEF IInv

LEMMA StutterIInv == ASSUME IInv, UNCHANGED vars PROVE IInv'
<1> USE DEF IInv
<1>1. UNCHANGED <<life, printed, phase, entries, active, sequence, bytes, pendingBytes, queue, cur, json, tmp,
                  log, synced>>
  BY DEF vars, commands, memory, disk
<1>2. Typed'
  BY <1>1 DEF Typed
<1>3. Sound'
  <2>1. CASE phase = "down"
    BY <1>1, <2>1 DEF Sound, Disk, Claims, Bytes
  <2>2. CASE phase # "down"
    <3>1. \A j \in Ids : Same(j)
      BY <1>1 DEF Same
    <3> QED BY <1>1, <2>2, <3>1, ViewKept, TmpKept, Untouched DEF Sound
  <2> QED BY <2>1, <2>2
<1>4. CurOK'
  BY <1>1, CurKept
<1>5. QueueOK'
  BY <1>1 DEF QueueOK, Ordered, JobOK, InQueue, OpOn, Known
<1>6. Needs' = Needs /\ Unwritten' = Unwritten
  BY <1>1 DEF Needs, Unwritten
<1>7. Balance' /\ Backlog'
  BY <1>1, <1>6, BooksKept DEF Balance
<1>8. DownOK'
  BY <1>1 DEF DownOK, Known, DiskUse, Recorded, TextBytes, Bytes
<1> QED BY <1>2, <1>3, <1>4, <1>5, <1>7, <1>8

LEMMA NextIInv == IInv /\ [Next]_vars => IInv'
<1> SUFFICES ASSUME IInv, [Next]_vars PROVE IInv'
  OBVIOUS
<1>1. CASE Call
  BY <1>1, StartIInv, FinishIInv, OutputIInv, ClearIInv, CloseIInv DEF Call
<1>2. CASE JobStep
  BY <1>2, BeginStartIInv, BeginAppendIInv, BeginFinishIInv, BeginClearIInv, FlushedIInv, MakeRoomIInv,
     ClearNextIInv, UnlinkLogIInv, UnlinkJsonIInv, CreateLogIInv, WriteLogIInv, SyncLogIInv, WriteTmpIInv,
     RenameIInv DEF JobStep
<1>3. CASE Unlock \/ Crash \/ Restart
  BY <1>3, UnlockIInv, CrashIInv, RestartIInv
<1>4. CASE UNCHANGED vars
  BY <1>4, StutterIInv
<1> QED BY <1>1, <1>2, <1>3, <1>4 DEF Next

(* Every step of the archive, also a failed one, a crash or a restart, keeps   *)
(* what the records, the disk, the job at work, the queue and the two byte     *)
(* accounts have to do with each other.                                        *)
THEOREM IInvInvariant == Spec => []IInv
BY InitIInv, NextIInv, PTL DEF Spec

(* Types of the store's tables, of its job and of the files.                  *)
THEOREM TypeCorrect == Spec => []TypeOK
<1>1. IInv => TypeOK
  <2> SUFFICES ASSUME IInv PROVE TypeOK
    OBVIOUS
  <2>1. Typed /\ Sound
    BY DEF IInv
  <2>2. ASSUME NEW i \in Known
        PROVE  entries[i].pending \in Seq(1..MaxPrinted) /\ [entries[i] EXCEPT !.pending = <<>>] \in Entry
    <3>1. i \in Ids /\ entries[i] # Nothing /\ phase # "down"
      BY DEF Known, IInv, DownOK
    <3>2. PICK e \in Entry : e = entries[i] /\ Remembered(i, e)
      BY <2>1, <3>1, EntryIn DEF Sound, Record
    <3>3. e.pending \in Seq(1..MaxPrinted)
      <4>1. CASE i \in active /\ i \in Captured /\ ~e.writeFailed
        <5>1. Stream(i, e)
          BY <3>2, <4>1 DEF Remembered, Capturing
        <5> QED BY <2>1, <3>1, <5>1, PendingWithin
      <4>2. CASE i \in active /\ i \in Captured /\ e.writeFailed
        BY <3>2, <4>2 DEF Remembered, Capturing
      <4>3. CASE i \notin active \/ i \notin Captured
        <5>1. e.pending = <<>>
          BY <3>2, <4>3 DEF Remembered, Resting
        <5> QED BY <5>1
      <4> QED BY <4>1, <4>2, <4>3
    <3>4. [e EXCEPT !.pending = <<>>] \in Entry
      <4>1. <<>> \in Seq(Nat)
        OBVIOUS
      <4>2. PICK p \in Seq(Nat) : p = <<>>
        BY <4>1
      <4>3. [e EXCEPT !.pending = p] \in Entry
        BY DEF Entry
      <4> QED BY <4>2, <4>3
    <3> QED BY <3>2, <3>3, <3>4
  <2>3. active \subseteq Known
    BY <2>1 DEF Typed, Known, Sound, Record, Forgotten, IInv, DownOK
  <2>4. bytes \in Nat /\ pendingBytes \in Nat
    <3>1. EntrySizes \in Sizes /\ PendingSizes \in Sizes
      BY <2>1, SizesTyped DEF Typed, EntrySizes, PendingSizes
    <3>2. Total(EntrySizes, Ids) \in Nat /\ Total(PendingSizes, Ids) \in Nat
      BY <3>1, TotalSteps
    <3>3. Unwritten \in Nat
      BY <2>1, CurFields, EmptyOrNot DEF Unwritten
    <3> QED BY <3>2, <3>3 DEF IInv, Balance, Backlog
  <2>5. \A k \in DOMAIN queue : queue[k] \in Job
    BY <2>1 DEF Typed
  <2>6. \A i \in Ids : {json[i], tmp[i]} \ {Nothing} \subseteq Text
    BY <2>1 DEF Typed
  <2>7. \A i \in Ids : synced[i] <= Bytes(log[i])
    BY <2>1 DEF Sound, Disk
  <2>8. life \in [Ids -> Lives] /\ printed \in [Ids -> 0..MaxPrinted] /\ phase \in Phases /\ sequence \in Nat
    BY <2>1 DEF Typed
  <2> QED BY <2>2, <2>3, <2>4, <2>5, <2>6, <2>7, <2>8 DEF TypeOK
<1> QED BY <1>1, IInvInvariant, PTL

(* Metadata, temporary files and logs never exceed history.max_total_bytes    *)
(* together, nor the records history.max_records: not in the middle of a      *)
(* replacement, not after a failed operation, and not after a crash.          *)
THEOREM DiskWithinLimitHolds == Spec => []DiskWithinLimit
<1>1. IInv => DiskWithinLimit
  <2> SUFFICES ASSUME IInv PROVE DiskWithinLimit
    OBVIOUS
  <2>1. Typed /\ Sound /\ Balance
    BY DEF IInv
  <2>2. CASE phase = "down"
    <3>1. Known = {} /\ DiskUse <= MaxTotal /\ Cardinality(Recorded) <= MaxRecords
      BY <2>2 DEF IInv, DownOK
    <3>2. Cardinality(Known) <= MaxRecords
      BY <2>1 DEF Balance
    <3> QED BY <3>1, <3>2 DEF DiskWithinLimit
  <2>3. CASE phase # "down"
    <3> DEFINE use == [i \in Ids |-> TextBytes(json[i]) + TextBytes(tmp[i]) + Bytes(log[i])]
    <3>1. ASSUME NEW i \in Ids
          PROVE  use[i] \in Nat /\ use[i] <= TextBytes(json[i]) + TextBytes(tmp[i]) + Len(Written(i))
      <4>1. \A t \in Text \cup {Nothing} : TextBytes(t) \in Nat
        BY TextFields DEF TextBytes
      <4>2. TextBytes(json[i]) \in Nat /\ TextBytes(tmp[i]) \in Nat
        BY <2>1, <4>1 DEF Typed
      <4>3. Bytes(log[i]) \in Nat /\ Len(Written(i)) \in Nat /\ Bytes(log[i]) <= Len(Written(i))
        <5>1. CASE log[i] = Nothing
          BY <5>1, NothingWritten DEF Bytes
        <5>2. CASE log[i] # Nothing
          <6>1. PICK b \in Nat : Bytes(log[i]) = b /\ Len(log[i]) = b
            BY <2>1, <5>2, LogIn DEF Bytes
          <6>2. CASE At("write") /\ cur.id = i
            <7>1. Written(i) = log[i] \o cur.chunk
              BY <5>2, <6>2 DEF Written
            <7>2. log[i] \in Seq(Nat) /\ cur.chunk \in Seq(Nat)
              BY <2>1, <5>2, LogIn, CurFields
            <7>3. PICK c \in Nat : c = Len(cur.chunk)
              BY <7>2, EmptyOrNot
            <7>4. Len(Written(i)) = b + c
              <8>1. PICK p \in Seq(Nat), q \in Seq(Nat) : p = log[i] /\ q = cur.chunk
                BY <7>2
              <8>2. Len(p \o q) = Len(p) + Len(q)
                BY Joined
              <8> QED BY <6>1, <7>1, <7>3, <8>1, <8>2
            <7> QED BY <6>1, <7>4
          <6>3. CASE ~(At("write") /\ cur.id = i)
            <7>1. Len(Written(i)) = b
              BY <5>2, <6>1, <6>3 DEF Written
            <7> QED BY <6>1, <7>1
          <6> QED BY <6>2, <6>3
        <5> QED BY <5>1, <5>2
      <4> QED BY <4>2, <4>3
    <3>2. use \in Sizes
      BY <3>1 DEF Sizes
    <3>3. DiskUse = Total(use, Ids)
      BY DEF DiskUse
    <3> HIDE DEF use
    <3>4. DiskUse <= MaxTotal
      BY <2>3, <3>1, <3>2, <3>3, DiskBound
    <3>5. Recorded \subseteq Known
      BY <2>1, <2>3 DEF Recorded, Known, Sound, Record, Forgotten
    <3>6. Cardinality(Recorded) <= Cardinality(Known) /\ Cardinality(Known) <= MaxRecords
      BY <2>1, <3>5, KnownIsFinite, FS_Subset DEF Balance
    <3>7. Cardinality(Recorded) \in Nat /\ Cardinality(Known) \in Nat
      BY <3>5, KnownIsFinite, IdsAreFinite
    <3>8. Cardinality(Recorded) <= MaxRecords
      BY <3>6, <3>7, Limits
    <3> QED BY <3>4, <3>6, <3>8 DEF DiskWithinLimit
  <2> QED BY <2>2, <2>3
<1> QED BY <1>1, IInvInvariant, PTL

(* A record tells what happened and was kept: no end before the end, no       *)
(* "running" without a server that will record the end, a log that is a       *)
(* prefix of the output, and all of it unless the record says it was cut.     *)
THEOREM RecordsAreHonestHolds == Spec => []RecordsAreHonest
<1>1. IInv => RecordsAreHonest
  <2> SUFFICES ASSUME IInv, NEW i \in Known
               PROVE  /\ entries[i].state = "ended" => life[i] = "finished"
                      /\ entries[i].state = "running" => i \in active
                      /\ i \in active => entries[i].state # "unknown"
                      /\ IsPrefix(Content(i), Offsets(0, printed[i]))
                      /\ i \in Captured /\ entries[i].state = "ended" /\ ~entries[i].truncated
                           /\ ~InFlight(i) /\ ~HalfRemoved(i) => Content(i) = Offsets(0, printed[i])
    BY DEF RecordsAreHonest
  <2>1. i \in Ids /\ entries[i] # Nothing /\ phase # "down"
    BY DEF Known, IInv, DownOK
  <2>2. PICK e : e = entries[i] /\ Disk(i) /\ Remembered(i, e) /\ Working(i, e)
    BY <2>1 DEF IInv, Sound, Record
  <2>3. e.state = "ended" => life[i] = "finished"
    BY <2>2 DEF Remembered
  <2>4. e.state = "running" => i \in active
    BY <2>2 DEF Remembered
  <2>5. i \in active => e.state # "unknown"
    BY <2>2 DEF Remembered, Working
  <2>6. PICK p \in Nat : p = printed[i]
    BY <2>1, Limits DEF IInv, Typed
  <2>7. PICK n \in 0..p : Content(i) = Offsets(0, n) /\ (log[i] # Nothing => n = Len(log[i]))
    <3>1. CASE log[i] = Nothing
      BY <2>6, <3>1, NoOffsets DEF Content
    <3>2. CASE log[i] # Nothing
      BY <2>1, <2>2, <2>6, <3>2, LogIn DEF Content, Disk, IInv
    <3> QED BY <3>1, <3>2
  <2>8. IsPrefix(Content(i), Offsets(0, printed[i]))
    <3>1. Len(Offsets(0, n)) = n /\ Len(Offsets(0, p)) = p /\ n \in 0..n /\ n \in Nat
      BY OffsetsTyped
    <3>2. SubSeq(Offsets(0, n), 1, n) = Offsets(0, n) /\ SubSeq(Offsets(0, p), 1, n) = Offsets(0, n)
      BY <3>1, OffsetsPart
    <3> QED BY <2>6, <2>7, <3>1, <3>2 DEF IsPrefix
  <2>9. i \in Captured /\ e.state = "ended" /\ ~e.truncated /\ ~InFlight(i) /\ ~HalfRemoved(i)
          => Content(i) = Offsets(0, printed[i])
    <3> SUFFICES ASSUME i \in Captured, e.state = "ended", ~e.truncated, cur.id # i, log[i] # Nothing
                 PROVE  Content(i) = Offsets(0, p)
      BY <2>6 DEF InFlight, HalfRemoved
    <3>1. PlaceOn(i) # "sync"
      BY DEF PlaceOn
    <3>2. e.logBytes = p /\ Len(log[i]) = e.logBytes
      BY <2>2, <2>6, <3>1 DEF Remembered, Accounts
    <3> QED BY <2>7, <3>2
  <2> QED BY <2>2, <2>3, <2>4, <2>5, <2>8, <2>9
<1> QED BY <1>1, IInvInvariant, PTL

-----------------------------------------------------------------------------
(* The files of commands at work.                                             *)

FilesStay(i) == /\ json[i] # Nothing => json'[i] # Nothing
                /\ log[i] # Nothing => log'[i] # Nothing

LEMMA SequenceIsSomething == ASSUME NEW s \in Seq(Nat) PROVE s # Nothing
BY NothingAssumption

LEMMA EmptyIsSomething == <<>> \in Seq(Nat) /\ <<>> # Nothing
<1>1. <<>> \in Seq(Nat)
  OBVIOUS
<1>2. <<>> # Nothing
  BY <1>1, SequenceIsSomething, Zenon
<1> QED BY <1>1, <1>2

LEMMA FailKeepsFiles ==
  ASSUME IInv, cur.at # "idle", NEW written \in Seq(Nat), Fail(written), NEW i \in active \cap active'
  PROVE  FilesStay(i)
<1>1. Typed /\ i \in Ids /\ cur.op \in {"start", "append", "finish", "clear"}
  BY AtWork, CurFields DEF IInv, Typed
<1>2. CASE cur.op = "start"
  <2>1. Undone(cur.id)
    BY <1>2 DEF Fail
  <2>2. i # cur.id /\ json' = [json EXCEPT ![cur.id] = Nothing] /\ log' = [log EXCEPT ![cur.id] = Nothing]
    BY <2>1 DEF Undone
  <2> QED BY <1>1, <2>2 DEF FilesStay, Typed
<1>3. CASE cur.op = "append"
  <2>1. log' = [log EXCEPT ![cur.id] = log[cur.id] \o written] /\ json' = json
    BY <1>3 DEF Fail
  <2>2. log[i] # Nothing => log'[i] # Nothing
    <3>1. CASE i = cur.id /\ log[i] # Nothing
      <4>1. PICK p \in Seq(Nat) : p = log[i]
        BY <1>1, <3>1, LogIn
      <4>2. p \o written # Nothing
        BY Joined, SequenceIsSomething
      <4> QED BY <1>1, <2>1, <3>1, <4>1, <4>2 DEF Typed
    <3>2. CASE i # cur.id
      BY <1>1, <2>1, <3>2 DEF Typed
    <3> QED BY <3>1, <3>2
  <2> QED BY <2>1, <2>2 DEF FilesStay
<1>4. CASE cur.op = "finish"
  <2>1. json' = json /\ log' = log
    BY <1>4 DEF Fail
  <2> QED BY <2>1 DEF FilesStay
<1>5. CASE cur.op = "clear"
  <2>1. json' = json /\ log' = log
    BY <1>5 DEF Fail, disk
  <2> QED BY <2>1 DEF FilesStay
<1> QED BY <1>1, <1>2, <1>3, <1>4, <1>5

\* A victim is never active, so an unlink meets nobody at work.
LEMMA UnlinkKeepsFiles ==
  ASSUME IInv, NEW i \in active \cap active', UnlinkLog \/ UnlinkJson
  PROVE  FilesStay(i)
<1>1. Typed /\ cur.at \in {"unlink_log", "unlink_json"} /\ i \in Ids
  BY DEF IInv, Typed, UnlinkLog, UnlinkJson, At
<1>2. i # cur.victim
  BY <1>1 DEF IInv, CurOK, Evicting
<1>3. CASE Fail(<<>>)
  BY <1>1, <1>3, FailKeepsFiles, EmptyIsSomething
<1>4. CASE ~Fail(<<>>)
  <2>1. \/ json' = json /\ log' = [log EXCEPT ![cur.victim] = Nothing]
        \/ log' = log /\ json' = [json EXCEPT ![cur.victim] = Nothing]
    BY <1>4 DEF UnlinkLog, UnlinkJson
  <2> QED BY <1>1, <1>2, <2>1 DEF FilesStay, Typed
<1> QED BY <1>3, <1>4

LEMMA WriteKeepsFiles ==
  ASSUME IInv, NEW i \in active \cap active', CreateLog \/ WriteLog
  PROVE  FilesStay(i)
<1>1. Typed /\ cur.at \in {"create", "write"} /\ i \in Ids
  BY DEF IInv, Typed, CreateLog, WriteLog, At
<1>2. CASE \E n \in 0..Len(cur.chunk) : Fail(SubSeq(cur.chunk, 1, n))
  <2>1. PICK n \in 0..Len(cur.chunk) : Fail(SubSeq(cur.chunk, 1, n))
    BY <1>2
  <2>2. SubSeq(cur.chunk, 1, n) \in Seq(Nat)
    BY <1>1, CurFields, Shortened
  <2> QED BY <1>1, <2>1, <2>2, FailKeepsFiles
<1>3. CASE Fail(<<>>)
  BY <1>1, <1>3, FailKeepsFiles, EmptyIsSomething
<1>4. CASE \E s \in Seq(Nat) \cup {Nothing} : /\ log[cur.id] # Nothing => s # Nothing
                                             /\ log' = [log EXCEPT ![cur.id] = s] /\ json' = json
  BY <1>1, <1>4 DEF FilesStay, Typed
<1>5. CASE CreateLog /\ ~Fail(<<>>)
  <2>1. log' = [log EXCEPT ![cur.id] = <<>>] /\ json' = json
    BY <1>5 DEF CreateLog
  <2> QED BY <1>4, <2>1, EmptyIsSomething
<1>6. CASE WriteLog /\ ~ \E n \in 0..Len(cur.chunk) : Fail(SubSeq(cur.chunk, 1, n))
  <2>1. log' = [log EXCEPT ![cur.id] = log[cur.id] \o cur.chunk] /\ json' = json
    BY <1>6 DEF WriteLog
  <2>2. CASE i = cur.id
    <3>1. log[i] # Nothing => log[i] \o cur.chunk # Nothing
      <4> SUFFICES ASSUME log[i] # Nothing PROVE log[i] \o cur.chunk # Nothing
        OBVIOUS
      <4>1. PICK p \in Seq(Nat), q \in Seq(Nat) : p = log[i] /\ q = cur.chunk
        BY <1>1, LogIn, CurFields
      <4>2. p \o q # Nothing
        BY Joined, SequenceIsSomething
      <4> QED BY <4>1, <4>2
    <3> QED BY <1>1, <2>1, <2>2, <3>1 DEF FilesStay, Typed
  <2>3. CASE i # cur.id
    BY <1>1, <2>1, <2>3 DEF FilesStay, Typed
  <2> QED BY <2>2, <2>3
<1> QED BY <1>2, <1>3, <1>5, <1>6

LEMMA SaveKeepsFiles ==
  ASSUME IInv, NEW i \in active \cap active', MakeRoom \/ SyncLog \/ WriteTmp \/ Rename
  PROVE  FilesStay(i)
<1>1. Typed /\ cur.at # "idle" /\ i \in Ids
  BY DEF IInv, Typed, MakeRoom, SyncLog, WriteTmp, Rename, At
<1>2. CASE Fail(<<>>)
  BY <1>1, <1>2, FailKeepsFiles, EmptyIsSomething
<1>3. CASE json' = json /\ log' = log
  BY <1>3 DEF FilesStay
<1>4. CASE Rename /\ ~Fail(<<>>)
  <2>1. json' = [json EXCEPT ![cur.id] = cur.text] /\ log' = log /\ cur.at = "rename"
    BY <1>4 DEF Rename, At
  <2>2. cur.text # Nothing
    BY <2>1 DEF IInv, CurOK, Saving, Place, Evicting
  <2> QED BY <1>1, <2>1, <2>2 DEF FilesStay, Typed
<1>5. CASE MakeRoom /\ ~Fail(<<>>)
  BY <1>3, <1>5 DEF MakeRoom, disk
<1>6. CASE SyncLog /\ ~Fail(<<>>)
  BY <1>3, <1>6 DEF SyncLog
<1>7. CASE WriteTmp /\ ~Fail(<<>>)
  BY <1>3, <1>7 DEF WriteTmp
<1> QED BY <1>2, <1>4, <1>5, <1>6, <1>7

(* Neither rotation nor clear(), nor what a failed job or a restart removes,  *)
(* takes a file from a command that is active before and after the step.      *)
THEOREM ActiveFilesStayHolds == Spec => ActiveFilesStay
<1>1. IInv /\ [Next]_vars
        => [\A i \in active \cap active' : /\ json[i] # Nothing => json'[i] # Nothing
                                           /\ log[i] # Nothing => log'[i] # Nothing]_vars
  <2> SUFFICES ASSUME IInv, Next, NEW i \in active \cap active' PROVE FilesStay(i)
    BY DEF FilesStay
  <2>1. CASE json' = json /\ log' = log
    BY <2>1 DEF FilesStay
  <2>2. CASE Call \/ Unlock
    BY <2>1, <2>2 DEF Call, Start, Output, Finish, Clear, Close, Unlock, disk
  <2>3. CASE BeginStart \/ BeginAppend \/ BeginFinish \/ BeginClear \/ Flushed \/ ClearNext
    BY <2>1, <2>3 DEF BeginStart, BeginAppend, BeginFinish, BeginClear, Flushed, ClearNext, disk
  <2>4. CASE MakeRoom \/ SyncLog \/ WriteTmp \/ Rename
    BY <2>4, SaveKeepsFiles
  <2>5. CASE UnlinkLog \/ UnlinkJson
    BY <2>5, UnlinkKeepsFiles
  <2>6. CASE CreateLog \/ WriteLog
    BY <2>6, WriteKeepsFiles
  <2>7. CASE Crash
    BY <2>7 DEF Crash
  <2>8. CASE Restart
    BY <2>8 DEF Restart, IInv, DownOK
  <2> QED BY <2>2, <2>3, <2>4, <2>5, <2>6, <2>7, <2>8 DEF Next, JobStep
<1> QED BY <1>1, IInvInvariant, PTL DEF Spec, ActiveFilesStay

-----------------------------------------------------------------------------
(* The writer lock.  As long as no two processes remove a lock at once:       *)
(* The stretch in which a process takes the lock on disk for its own, or has *)
(* made sure that it is nobody's.                                            *)
Holding(p) == p \notin died /\ pc[p] \in {"own", "sign", "open", "read", "release", "drop",
                                          "unlink", "rmdir"}

(* What the disk looks like to a live process at each step.                  *)
DiskAsExpected(p) ==
  /\ Holding(p) => dir
  /\ Doing(p, "own") \/ Doing(p, "drop") \/ Doing(p, "rmdir") => owner = Nobody
  /\ Doing(p, "sign") => owner = p
  /\ Doing(p, "open") \/ Doing(p, "read") \/ Doing(p, "release") => owner = p /\ signed
  /\ Doing(p, "probe") => owner = seen[p] /\ signed
  /\ Doing(p, "unlink") => owner = seen[p] /\ signed /\ ~Alive(owner)

(* Only a process that made the directory, and so signed it, is locked.      *)
LockedOwns(p) ==
  p \notin died /\ locked[p] => pc[p] \in {"own", "sign", "open", "read", "release", "drop", "closed"}

OneHolder == \A p, q \in Procs : Holding(p) /\ Holding(q) => p = q

OwnerStarted == owner # Nobody => pc[owner] # "off"

OverlapSeen == Overlapping => overlap

Orderly == \A p \in Procs : DiskAsExpected(p) /\ LockedOwns(p)

LockIInv == /\ LockTypeOK
            /\ OwnerStarted
            /\ OverlapSeen
            /\ ~overlap => Orderly /\ OneHolder
-----------------------------------------------------------------------------
(* The initial state, in which nothing has been started.                     *)
LEMMA LockStarts == LockInit => LockIInv
BY LockAssumption DEF LockInit, LockIInv, LockTypeOK, Steps, OwnerStarted, OverlapSeen, Overlapping, Removing,
     Orderly, DiskAsExpected, LockedOwns, OneHolder, Holding, Doing

(* A step of any process keeps the types and the disk's own consistency.     *)
LEMMA LockStepType ==
      ASSUME LockTypeOK, overlap' \in BOOLEAN, NEW p \in Procs, Step(p)
      PROVE  LockTypeOK'
<1> USE LockAssumption DEF LockTypeOK, Steps
<1>1. CASE StartServer(p)
  BY <1>1 DEF StartServer, Doing, GoTo, DiskUnchanged
<1>2. CASE MakeDirectory(p)
  BY <1>2 DEF MakeDirectory, Doing, GoTo, DiskUnchanged
<1>3. CASE Inspect(p)
  BY <1>3 DEF Inspect, Doing, GoTo, DiskUnchanged
<1>4. CASE Probe(p)
  BY <1>4 DEF Probe, Doing, GoTo, DiskUnchanged
<1>5. CASE UnlinkOwner(p)
  BY <1>5 DEF UnlinkOwner, Doing, GoTo, DiskUnchanged
<1>6. CASE RemoveDirectory(p)
  BY <1>6 DEF RemoveDirectory, Doing, GoTo, DiskUnchanged
<1>7. CASE CreateOwner(p)
  BY <1>7 DEF CreateOwner, Doing, GoTo, DiskUnchanged
<1>8. CASE SignOwner(p)
  BY <1>8 DEF SignOwner, SignedAfter, Doing, GoTo, DiskUnchanged
<1>9. CASE CloseStore(p)
  BY <1>9 DEF CloseStore, Doing, GoTo, DiskUnchanged
<1>10. CASE ReadOwner(p)
  BY <1>10 DEF ReadOwner, Doing, GoTo, DiskUnchanged
<1>11. CASE Die(p)
  BY <1>11 DEF Die, Doing, GoTo, DiskUnchanged
<1> QED BY <1>1, <1>2, <1>3, <1>4, <1>5, <1>6, <1>7, <1>8, <1>9, <1>10, <1>11 DEF Step

(* An owner file is only ever created by a process that has started.         *)
LEMMA LockStepStarted ==
      ASSUME LockTypeOK, OwnerStarted, NEW p \in Procs, Step(p)
      PROVE  OwnerStarted'
<1> USE LockAssumption DEF LockTypeOK, OwnerStarted
<1>1. CASE StartServer(p)
  BY <1>1 DEF StartServer, Doing, GoTo, DiskUnchanged
<1>2. CASE MakeDirectory(p)
  BY <1>2 DEF MakeDirectory, Doing, GoTo, DiskUnchanged
<1>3. CASE Inspect(p)
  BY <1>3 DEF Inspect, Doing, GoTo, DiskUnchanged
<1>4. CASE Probe(p)
  BY <1>4 DEF Probe, Doing, GoTo, DiskUnchanged
<1>5. CASE UnlinkOwner(p)
  BY <1>5 DEF UnlinkOwner, Doing, GoTo, DiskUnchanged
<1>6. CASE RemoveDirectory(p)
  BY <1>6 DEF RemoveDirectory, Doing, GoTo, DiskUnchanged
<1>7. CASE CreateOwner(p)
  BY <1>7 DEF CreateOwner, Doing, GoTo, DiskUnchanged
<1>8. CASE SignOwner(p)
  BY <1>8 DEF SignOwner, SignedAfter, Doing, GoTo, DiskUnchanged
<1>9. CASE CloseStore(p)
  BY <1>9 DEF CloseStore, Doing, GoTo, DiskUnchanged
<1>10. CASE ReadOwner(p)
  BY <1>10 DEF ReadOwner, Doing, GoTo, DiskUnchanged
<1>11. CASE Die(p)
  BY <1>11 DEF Die, Doing, GoTo, DiskUnchanged
<1> QED BY <1>1, <1>2, <1>3, <1>4, <1>5, <1>6, <1>7, <1>8, <1>9, <1>10, <1>11 DEF Step

(* What a live process expects of the disk survives a step of any process,   *)
(* as long as no two of them are removing a lock: a process that removes the *)
(* lock is the only holder, and one about to probe is the only remover.      *)
LEMMA LockStepOrderly ==
      ASSUME LockIInv, ~overlap, ~Overlapping', NEW p \in Procs, Step(p), LockTypeOK'
      PROVE  Orderly' /\ OneHolder'
<1> SUFFICES ASSUME NEW q \in Procs, NEW r \in Procs
             PROVE  /\ DiskAsExpected(q)' /\ LockedOwns(q)'
                    /\ Holding(q)' /\ Holding(r)' => q = r
  BY DEF Orderly, OneHolder
<1>a. /\ DiskAsExpected(p) /\ LockedOwns(p) /\ DiskAsExpected(q) /\ LockedOwns(q)
      /\ DiskAsExpected(r)
      /\ Holding(p) /\ Holding(q) => p = q
      /\ Holding(p) /\ Holding(r) => p = r
      /\ Holding(q) /\ Holding(r) => q = r
  BY DEF LockIInv, Orderly, OneHolder
<1>b. /\ \A s \in Procs : p \in Removing /\ s \in Removing => p = s
      /\ (p \in Removing /\ q \in Removing)' => p = q
  BY DEF LockIInv, OverlapSeen, Overlapping
<1>c. LockTypeOK /\ OwnerStarted
  BY DEF LockIInv
<1>1. CASE StartServer(p)
  BY <1>1, <1>a, <1>b, <1>c, LockAssumption
  DEF StartServer, Doing, GoTo, DiskUnchanged, DiskAsExpected, LockedOwns, Holding, Removing, LockTypeOK, OwnerStarted,
      Alive
<1>2. CASE MakeDirectory(p)
  BY <1>2, <1>a, <1>b, <1>c, LockAssumption
  DEF MakeDirectory, Doing, GoTo, DiskUnchanged, DiskAsExpected, LockedOwns, Holding, Removing, LockTypeOK, OwnerStarted,
      Alive
<1>3. CASE Inspect(p)
  BY <1>3, <1>a, <1>b, <1>c, LockAssumption
  DEF Inspect, Doing, GoTo, DiskUnchanged, DiskAsExpected, LockedOwns, Holding, Removing, LockTypeOK, OwnerStarted,
      Alive
<1>4. CASE Probe(p)
  <2>1. p \notin died /\ pc[p] = "probe" /\ owner = seen[p] /\ signed /\ p \in Removing
    BY <1>4, <1>a DEF Probe, Doing, DiskAsExpected, Removing
  <2>2. \A s \in Procs : pc'[s] = IF s # p THEN pc[s] ELSE IF Alive(owner) THEN "failed" ELSE "unlink"
    BY <1>4, <1>c, <2>1 DEF Probe, HeldByLiving, GoTo, LockTypeOK
  <2>3. owner \in Procs /\ pc[owner] # "off"
    BY <1>c, <2>1 DEF LockTypeOK, OwnerStarted
  <2>4. UNCHANGED <<dir, owner, signed, seen, locked, died>>
    BY <1>4 DEF Probe, DiskUnchanged
  <2>5. \A s \in Procs : Holding(s)' => Holding(s) \/ (s = p /\ ~Alive(owner))
    BY <2>2, <2>4 DEF Holding
  <2>6. \A s \in Procs : Holding(s) /\ DiskAsExpected(s) => Alive(owner)
    BY <1>b, <1>c, <2>1, <2>3, LockAssumption DEF Holding, DiskAsExpected, Doing, Alive, Removing
  <2>7. DiskAsExpected(q)' /\ LockedOwns(q)'
    BY <1>a, <1>b, <1>c, <2>1, <2>2, <2>3, <2>4
    DEF DiskAsExpected, LockedOwns, Holding, Doing, Alive, LockTypeOK, Removing
  <2> QED BY <1>a, <2>5, <2>6, <2>7
<1>5. CASE UnlinkOwner(p)
  BY <1>5, <1>a, <1>b, <1>c, LockAssumption
  DEF UnlinkOwner, Doing, GoTo, DiskUnchanged, DiskAsExpected, LockedOwns, Holding, Removing, LockTypeOK, OwnerStarted,
      Alive
<1>6. CASE RemoveDirectory(p)
  BY <1>6, <1>a, <1>b, <1>c, LockAssumption
  DEF RemoveDirectory, Doing, GoTo, DiskUnchanged, DiskAsExpected, LockedOwns, Holding, Removing, LockTypeOK, OwnerStarted,
      Alive
<1>7. CASE CreateOwner(p)
  BY <1>7, <1>a, <1>b, <1>c, LockAssumption
  DEF CreateOwner, Doing, GoTo, DiskUnchanged, DiskAsExpected, LockedOwns, Holding, Removing, LockTypeOK, OwnerStarted,
      Alive
<1>8. CASE SignOwner(p)
  BY <1>8, <1>a, <1>b, <1>c, LockAssumption
  DEF SignOwner, SignedAfter, Doing, GoTo, DiskUnchanged, DiskAsExpected, LockedOwns, Holding, Removing, LockTypeOK, OwnerStarted,
      Alive
<1>9. CASE CloseStore(p)
  BY <1>9, <1>a, <1>b, <1>c, LockAssumption
  DEF CloseStore, Doing, GoTo, DiskUnchanged, DiskAsExpected, LockedOwns, Holding, Removing, LockTypeOK, OwnerStarted,
      Alive
<1>10. CASE ReadOwner(p)
  BY <1>10, <1>a, <1>b, <1>c, LockAssumption
  DEF ReadOwner, Doing, GoTo, DiskUnchanged, DiskAsExpected, LockedOwns, Holding, Removing, LockTypeOK, OwnerStarted,
      Alive, OwnToken
<1>11. CASE Die(p)
  BY <1>11, <1>a, <1>b, <1>c, LockAssumption
  DEF Die, Doing, GoTo, DiskUnchanged, DiskAsExpected, LockedOwns, Holding, Removing, LockTypeOK, OwnerStarted,
      Alive
<1> QED BY <1>1, <1>2, <1>3, <1>4, <1>5, <1>6, <1>7, <1>8, <1>9, <1>10, <1>11 DEF Step

(* Together: LockIInv is inductive.                                              *)
LEMMA LockSteps == LockIInv /\ [LockNext]_lockVars => LockIInv'
<1> SUFFICES ASSUME LockIInv, [LockNext]_lockVars PROVE LockIInv'
  OBVIOUS
<1>1. CASE UNCHANGED lockVars
  BY <1>1 DEF lockVars, LockIInv, LockTypeOK, OwnerStarted, OverlapSeen, Overlapping, Removing, Orderly,
     DiskAsExpected, LockedOwns, OneHolder, Holding, Doing, Alive
<1>2. CASE LockNext
  <2>1. PICK p \in Procs : Step(p)
    BY <1>2 DEF LockNext
  <2>2. overlap' = (overlap \/ Overlapping')
    BY <1>2 DEF LockNext
  <2>3. LockTypeOK'
    BY <2>1, <2>2, LockStepType DEF LockIInv, LockTypeOK, Overlapping
  <2>4. OwnerStarted'
    BY <2>1, LockStepStarted DEF LockIInv
  <2>5. OverlapSeen'
    BY <2>2 DEF OverlapSeen
  <2>6. ASSUME ~overlap' PROVE Orderly' /\ OneHolder'
    BY <2>1, <2>2, <2>3, <2>6, LockStepOrderly DEF LockIInv, LockTypeOK
  <2> QED BY <2>3, <2>4, <2>5, <2>6 DEF LockIInv
<1> QED BY <1>1, <1>2

(* The inductive invariant holds in every reachable state.                   *)
THEOREM LockInvariant == LockSpec => []LockIInv
BY LockStarts, LockSteps, PTL DEF LockSpec

(* The types, the owner file's presence only in a directory included.        *)
THEOREM LockTypeCorrect == LockSpec => []LockTypeOK
<1>1. LockIInv => LockTypeOK
  BY DEF LockIInv
<1> QED BY <1>1, LockInvariant, PTL

(* However many servers start, close and crash in whatever order, there is   *)
(* one writer, and its lock is the one on disk, unless two of them have been *)
(* removing a lock at the same time.                                         *)
THEOREM LockProtects == LockSpec => []OneWriterUnlessOverlap
<1>1. LockIInv => OneWriterUnlessOverlap
  BY DEF LockIInv, OneWriterUnlessOverlap, Orderly, DiskAsExpected, Open
<1> QED BY <1>1, LockInvariant, PTL

-----------------------------------------------------------------------------
(* The queries over a log, live or archived.                                 *)

(* Every set of offsets has a first one, and a bounded one has a last one.     *)
LEMMA FirstOf ==
  ASSUME NEW S \in SUBSET Nat, S # {}
  PROVE  Min(S) \in S /\ \A y \in S : Min(S) <= y
<1>1. PICK x \in S : \A y \in S : <<y, x>> \notin OpToRel(<, Nat)
  <2>1. IsWellFoundedOn(OpToRel(<, Nat), Nat)
    BY NatLessThanWellFounded
  <2> QED BY <2>1, WFMin
<1>2. \A y \in S : x <= y
  <2>1. \A y \in S : ~(y < x)
    BY <1>1 DEF OpToRel
  <2> QED BY <2>1
<1>3. \E z \in S : \A y \in S : z <= y
  BY <1>2
<1> QED BY <1>3, Zenon DEF Min

LEMMA LastOf ==
  ASSUME NEW S \in SUBSET Nat, S # {}, NEW top \in Nat, \A x \in S : x <= top
  PROVE  Max(S) \in S /\ \A y \in S : y <= Max(S)
<1> DEFINE D == {d \in Nat : top - d \in S}
<1>1. D \in SUBSET Nat /\ D # {}
  <2>1. PICK x \in S : TRUE
    OBVIOUS
  <2>2. x \in Nat /\ top - x \in Nat /\ top - (top - x) = x
    OBVIOUS
  <2>3. top - x \in D
    BY <2>2
  <2> QED BY <2>3
<1>2. PICK d \in D : \A e \in D : d <= e
  BY <1>1, FirstOf
<1>3. d \in Nat /\ top - d \in S
  BY <1>2
<1>4. ASSUME NEW y \in S PROVE y <= top - d
  <2>1. y \in Nat /\ top - y \in Nat /\ top - (top - y) = y
    OBVIOUS
  <2>2. top - y \in D
    BY <2>1
  <2> QED BY <1>2, <1>3, <2>1, <2>2
<1>5. \E z \in S : \A y \in S : z >= y
  <2>1. \A y \in S : top - d >= y
    BY <1>3, <1>4
  <2> QED BY <1>3, <2>1
<1>6. Max(S) \in S /\ \A y \in S : Max(S) >= y
  BY <1>5, Zenon DEF Max
<1>7. Max(S) \in Nat
  BY <1>6
<1> QED BY <1>6, <1>7

LEMMA LogConstants ==
  /\ Capacity \in Nat \ {0} /\ Budget \in Nat \ {0} /\ Scan \in Nat \ {0} /\ MaxMatches \in Nat \ {0}
  /\ MaxLines \in Nat \ {0} /\ MaxBytes \in Nat
  /\ Needle \in Seq(STRING) /\ Len(Needle) \in Nat \ {0} /\ Needle[1] # "more"
  /\ \A t \in Texts : /\ t \in Seq(STRING) /\ Len(t) \in Nat \ {0} /\ Len(t) <= Budget
                      /\ 2 * Len(t) + Len(Needle) < Scan + 3
                      /\ t[1] # "more" /\ \A k \in 2..Len(t) : t[k] = "more"
BY LogAssumption

-----------------------------------------------------------------------------
(* Boundaries.                                                                *)

LEMMA NextIsBoundary ==
  ASSUME NEW t \in Seq(STRING), NEW i \in 0..Len(t)
  PROVE  LET n == NextBoundary(t, i)
         IN  n \in i..Len(t) /\ Boundary(t, n) /\ \A j \in i..Len(t) : Boundary(t, j) => n <= j
<1> DEFINE S == {j \in i..Len(t) : Boundary(t, j)}
<1>1. Len(t) \in S /\ S \in SUBSET Nat
  BY DEF Boundary
<1>2. Min(S) \in S /\ \A j \in S : Min(S) <= j
  BY <1>1, FirstOf
<1> QED BY <1>2 DEF NextBoundary

LEMMA LastIsBoundary ==
  ASSUME NEW t \in Seq(STRING), NEW from \in Nat, NEW i \in Int
  PROVE  LET n == LastBoundary(t, from, i)
         IN  /\ n \in Nat /\ from <= n /\ (n = from \/ (n <= i /\ Boundary(t, n)))
             /\ \A j \in from..i : Boundary(t, j) => j <= n
<1> DEFINE S == {from} \cup {j \in from..i : Boundary(t, j)}
<1>1. S \in SUBSET Nat /\ from \in S /\ \A j \in S : j <= Greater(from, i)
  BY DEF Greater
<1>2. Greater(from, i) \in Nat
  BY DEF Greater
<1>3. Max(S) \in S /\ \A j \in S : j <= Max(S)
  BY <1>1, <1>2, LastOf
<1> QED BY <1>3 DEF LastBoundary

(* The text consists of whole characters: where one begins it is all there,    *)
(* and another one may begin behind it.                                       *)
CharacterAt(i, t) == /\ t \in Texts /\ i + Len(t) <= End /\ output[i + 1] = t[1]
                     /\ \A k \in 2..Len(t) : output[i + k] = "more"
                     /\ Boundary(output, i + Len(t))
Whole == \A i \in 0..(End - 1) : Boundary(output, i) => \E t \in Texts : CharacterAt(i, t)

LogOK == /\ output \in Seq(STRING) /\ Whole
         /\ retainedFrom \in 0..End /\ Boundary(output, retainedFrom)
         /\ cursor \in 0..End /\ Boundary(output, cursor)
         /\ search \in [at : 0..End, more : BOOLEAN] /\ Boundary(output, search.at)
         /\ matches \in SUBSET Nat

LEMMA AppendKeeps ==
  ASSUME output \in Seq(STRING), NEW t \in Texts, output' = output \o t
  PROVE  /\ output' \in Seq(STRING) /\ End' = End + Len(t) /\ End \in Nat
         /\ \A i \in 1..End : output'[i] = output[i]
         /\ \A i \in 1..Len(t) : output'[End + i] = t[i]
         /\ \A i \in 0..End : Boundary(output, i) <=> Boundary(output', i)
<1>1. t \in Seq(STRING) /\ Len(t) \in Nat \ {0} /\ t[1] # "more"
  BY LogConstants
<1>2. /\ output' \in Seq(STRING) /\ End' = End + Len(t) /\ End \in Nat
      /\ \A i \in 1..End : output'[i] = output[i]
      /\ \A i \in 1..Len(t) : output'[End + i] = t[i]
  BY <1>1 DEF End
<1>3. \A i \in 0..End : Boundary(output, i) <=> Boundary(output', i)
  <2> SUFFICES ASSUME NEW i \in 0..End PROVE Boundary(output, i) <=> Boundary(output', i)
    OBVIOUS
  <2>1. CASE i < End
    BY <1>1, <1>2, <2>1 DEF Boundary, End
  <2>2. CASE i = End
    <3>1. 1 \in 1..Len(t)
      BY <1>1
    <3>2. output'[End + 1] = t[1]
      BY <1>2, <3>1
    <3> QED BY <1>1, <1>2, <2>2, <3>2 DEF Boundary, End
  <2> QED BY <1>2, <2>1, <2>2
<1> QED BY <1>2, <1>3

LEMMA AppendWhole ==
  ASSUME output \in Seq(STRING), Whole, NEW t \in Texts, output' = output \o t
  PROVE  Whole'
<1>1. t \in Seq(STRING) /\ Len(t) \in Nat \ {0} /\ t[1] # "more" /\ \A k \in 2..Len(t) : t[k] = "more"
  BY LogConstants
<1>2. /\ End' = End + Len(t) /\ End \in Nat
      /\ \A i \in 1..End : output'[i] = output[i]
      /\ \A i \in 1..Len(t) : output'[End + i] = t[i]
      /\ \A i \in 0..End : Boundary(output, i) <=> Boundary(output', i)
  BY AppendKeeps
<1>3. Boundary(output', End')
  BY DEF Boundary, End
<1>4. ASSUME NEW i \in 0..(End' - 1), Boundary(output', i)
      PROVE  \E u \in Texts : CharacterAt(i, u)'
  <2>1. CASE i < End
    <3>1. PICK u \in Texts : CharacterAt(i, u)
      BY <1>2, <1>4, <2>1 DEF Whole
    <3>2. Len(u) \in Nat \ {0}
      BY LogConstants
    <3>3. CharacterAt(i, u)'
      <4>0. i \in Nat /\ i + 1 \in 1..End /\ i + Len(u) \in 0..End /\ \A k \in 2..Len(u) : i + k \in 1..End
        BY <1>2, <2>1, <3>1, <3>2 DEF CharacterAt
      <4>1. i + Len(u) <= End' /\ output'[i + 1] = u[1]
        <5>1. i + Len(u) <= End'
          BY <1>1, <1>2, <4>0
        <5>2. output[i + 1] = u[1]
          BY <3>1 DEF CharacterAt
        <5>3. output'[i + 1] = output[i + 1]
          BY <1>2, <4>0
        <5> QED BY <5>1, <5>2, <5>3
      <4>2. \A k \in 2..Len(u) : output'[i + k] = "more"
        BY <1>2, <3>1, <4>0 DEF CharacterAt
      <4>3. Boundary(output', i + Len(u))
        BY <1>2, <3>1, <4>0 DEF CharacterAt
      <4> QED BY <4>1, <4>2, <4>3 DEF CharacterAt
    <3> QED BY <3>3
  <2>2. CASE i = End
    <3>0. 1 \in 1..Len(t) /\ \A k \in 2..Len(t) : k \in 1..Len(t)
      BY <1>1
    <3>1. CharacterAt(i, t)'
      <4>1. output'[i + 1] = t[1]
        BY <1>2, <2>2, <3>0
      <4>2. \A k \in 2..Len(t) : output'[i + k] = "more"
        BY <1>1, <1>2, <2>2, <3>0
      <4>3. i + Len(t) = End'
        BY <1>2, <2>2
      <4>4. i + Len(t) <= End'
        BY <1>1, <1>2, <4>3
      <4> QED BY <1>3, <4>1, <4>2, <4>3, <4>4 DEF CharacterAt
    <3> QED BY <3>1
  <2>3. CASE i > End
    <3>0. /\ i - End + 1 \in 2..Len(t) /\ i - End + 1 \in 1..Len(t)
          /\ End + (i - End + 1) = i + 1
      BY <1>1, <1>2, <1>4, <2>3
    <3>1. output'[i + 1] = "more"
      BY <1>1, <1>2, <3>0
    <3>2. i < Len(output')
      BY <1>2, <1>4 DEF End
    <3> QED BY <1>4, <3>1, <3>2 DEF Boundary
  <2> QED BY <1>2, <2>1, <2>2, <2>3
<1> QED BY <1>4 DEF Whole

-----------------------------------------------------------------------------
(* Occurrences.                                                               *)
MatchAt(o) == \A k \in 1..Len(Needle) : output[o + k] = Needle[k]

LEMMA MatchIsPointwise ==
  ASSUME NEW s \in Seq(STRING), NEW o \in Nat, o + Len(Needle) <= Len(s)
  PROVE  SubSeq(s, o + 1, o + Len(Needle)) = Needle <=> \A k \in 1..Len(Needle) : s[o + k] = Needle[k]
<1> DEFINE part == SubSeq(s, o + 1, o + Len(Needle))
<1>1. Len(Needle) \in Nat \ {0} /\ Needle \in Seq(STRING) /\ Len(s) \in Nat
  BY LogConstants
<1>2. o + 1 \in Int /\ o + Len(Needle) \in Int /\ \A i \in (o + 1)..(o + Len(Needle)) : s[i] \in STRING
  BY <1>1
<1>3. /\ part \in Seq(STRING)
      /\ Len(part) = IF o + 1 <= o + Len(Needle) THEN o + Len(Needle) - (o + 1) + 1 ELSE 0
      /\ \A k \in 1..(o + Len(Needle) - (o + 1) + 1) : part[k] = s[o + 1 + k - 1]
  BY <1>2, SubSeqProperties
<1> HIDE DEF part
<1>4. o + 1 <= o + Len(Needle) /\ o + Len(Needle) - (o + 1) + 1 = Len(Needle)
  BY <1>1
<1>5. \A k \in 1..Len(Needle) : o + 1 + k - 1 = o + k
  BY <1>1
<1>6. Len(part) = Len(Needle) /\ \A k \in 1..Len(Needle) : part[k] = s[o + k]
  BY <1>3, <1>4, <1>5
<1>7. part = Needle <=> \A k \in 1..Len(Needle) : part[k] = Needle[k]
  BY <1>1, <1>3, <1>6, SeqEqual
<1>8. part = Needle <=> \A k \in 1..Len(Needle) : s[o + k] = Needle[k]
  BY <1>6, <1>7
<1> QED BY <1>8 DEF part

LEMMA OccurrencesAre ==
  ASSUME output \in Seq(STRING), NEW from \in Nat, NEW to \in 0..End, NEW o
  PROVE  o \in Occurrences(from, to) <=> o \in from..(to - Len(Needle)) /\ MatchAt(o)
<1>1. ASSUME o \in from..(to - Len(Needle)) PROVE o \in Nat /\ o + Len(Needle) <= Len(output)
  BY <1>1, LogConstants DEF End
<1>2. PICK s \in Seq(STRING) : s = output
  OBVIOUS
<1> QED BY <1>1, <1>2, MatchIsPointwise DEF Occurrences, MatchAt

(* An occurrence is one of whole characters.                                   *)
LEMMA OccurrenceIsWhole ==
  ASSUME output \in Seq(STRING), Whole, NEW o \in Nat, o + Len(Needle) <= End, MatchAt(o)
  PROVE  Boundary(output, o) /\ Boundary(output, o + Len(Needle))
<1> DEFINE L == Len(Needle)
           S == {k \in 1..L : Needle[k] # "more"}
           last == Max(S)
<1>1. L \in Nat \ {0} /\ Needle[1] # "more" /\ End \in Nat /\ End = Len(output)
  BY LogConstants DEF End
<1>2. last \in S /\ \A k \in S : k <= last
  <2>1. S \in SUBSET Nat /\ 1 \in S /\ \A k \in S : k <= L
    BY <1>1
  <2> QED BY <1>1, <2>1, LastOf
<1> HIDE DEF last
<1>3. \A j \in (last + 1)..L : Needle[j] = "more"
  BY <1>1, <1>2
<1>4. o + last - 1 \in 0..(End - 1) /\ output[o + last] = Needle[last] /\ last \in 1..L
  BY <1>1, <1>2 DEF MatchAt
<1>5. Boundary(output, o + last - 1)
  BY <1>1, <1>2, <1>4 DEF Boundary
<1>6. PICK t \in Texts : CharacterAt(o + last - 1, t)
  BY <1>4, <1>5 DEF Whole
<1>7. Needle[last] = t[1]
  BY <1>1, <1>4, <1>6 DEF CharacterAt
<1>8. Len(t) = L - last + 1
  BY <1>3, <1>4, <1>7, LogAssumption
<1>9. o + last - 1 + Len(t) = o + L
  BY <1>1, <1>4, <1>8
<1>10. Boundary(output, o + L)
  BY <1>6, <1>9 DEF CharacterAt
<1>11. Boundary(output, o)
  <2>1. output[o + 1] = Needle[1]
    BY <1>1 DEF MatchAt
  <2> QED BY <1>1, <2>1 DEF Boundary
<1> QED BY <1>10, <1>11

LEMMA MatchesStay ==
  ASSUME output \in Seq(STRING), NEW t \in Texts, output' = output \o t, NEW o \in Nat, o + Len(Needle) <= End
  PROVE  MatchAt(o) <=> MatchAt(o)'
<1>1. \A k \in 1..Len(Needle) : output'[o + k] = output[o + k]
  <2>0. End \in Nat /\ Len(Needle) \in Nat
    BY LogConstants, AppendKeeps
  <2>1. \A k \in 1..Len(Needle) : o + k \in 1..End
    BY <2>0
  <2> QED BY <2>1, AppendKeeps
<1> QED BY <1>1 DEF MatchAt

-----------------------------------------------------------------------------
(* Pages.                                                                     *)
LEMMA PageOK ==
  ASSUME LogOK, NEW c \in 0..End, Boundary(output, c), NEW budget \in Nat
  PROVE  LET page == Page(c, budget)
         IN  /\ page.first \in c..End /\ Boundary(output, page.first) /\ page.first = Greater(c, retainedFrom)
             /\ page.next \in page.first..End /\ Boundary(output, page.next)
             /\ \A j \in page.first..End : Boundary(output, j) /\ j <= page.first + budget => j <= page.next
             /\ Usable(c)
<1> DEFINE first == Greater(c, retainedFrom)
           upTo == Lesser(End, first + budget)
           next == LastBoundary(output, first, upTo)
<1>1. output \in Seq(STRING) /\ End \in Nat /\ retainedFrom \in 0..End /\ Boundary(output, retainedFrom)
  BY DEF LogOK, End
<1>2. first \in c..End /\ Boundary(output, first) /\ first \in Nat
  BY <1>1 DEF Greater
<1>3. upTo \in Int /\ upTo <= End /\ (upTo = End \/ upTo = first + budget) /\ upTo >= first
  BY <1>1, <1>2 DEF Lesser
<1>4. Page(c, budget).first = first /\ Page(c, budget).next = next
  BY DEF Page
<1>5. Usable(c)
  BY <1>1, <1>2 DEF Usable
<1> HIDE DEF first, upTo
<1>6. /\ next \in Nat /\ first <= next /\ (next = first \/ (next <= upTo /\ Boundary(output, next)))
      /\ \A j \in first..upTo : Boundary(output, j) => j <= next
  BY <1>1, <1>2, <1>3, LastIsBoundary
<1> HIDE DEF next
<1>7. next \in first..End /\ Boundary(output, next)
  BY <1>1, <1>2, <1>3, <1>6
<1>8. \A j \in first..End : Boundary(output, j) /\ j <= first + budget => j <= next
  BY <1>1, <1>2, <1>3, <1>6
<1>9. first = Greater(c, retainedFrom)
  BY DEF first
<1> QED BY <1>2, <1>4, <1>5, <1>7, <1>8, <1>9

(* A page of a budget that holds a character leads on.                         *)
LEMMA PageLeadsOn ==
  ASSUME LogOK, NEW c \in 0..End, Boundary(output, c), NEW budget \in Nat, \A t \in Texts : Len(t) <= budget
  PROVE  LeadsOn(c, budget)
<1> DEFINE page == Page(c, budget)
<1>1. /\ page.first \in c..End /\ Boundary(output, page.first)
      /\ page.next \in page.first..End
      /\ \A j \in page.first..End : Boundary(output, j) /\ j <= page.first + budget => j <= page.next
      /\ Usable(c) /\ End \in Nat
  BY PageOK DEF LogOK, End
<1> HIDE DEF page
<1>2. ASSUME c < End PROVE page.next > c
  <2>1. CASE page.first > c
    BY <1>1, <2>1
  <2>2. CASE page.first = c
    <3>1. PICK t \in Texts : CharacterAt(c, t)
      BY <1>1, <1>2, <2>2 DEF LogOK, Whole
    <3>2. Len(t) \in Nat \ {0} /\ Len(t) <= budget
      BY LogConstants
    <3>3. Boundary(output, c + Len(t)) /\ c + Len(t) <= End
      BY <3>1 DEF CharacterAt
    <3> QED BY <1>1, <2>2, <3>2, <3>3
  <2> QED BY <1>1, <2>1, <2>2
<1> QED BY <1>1, <1>2 DEF LeadsOn, page

-----------------------------------------------------------------------------
(* A scan takes one match after another: the recursion that Greedy unfolds to. *)
NextFound(f, to) ==
  LET here == Occurrences(f.at, to)
  IN IF here = {} THEN f ELSE [taken |-> f.taken \cup {Min(here)}, at |-> Min(here) + Len(Needle)]
NothingFound(from) == [taken |-> {}, at |-> from]
IsScan(g, from, to, n) ==
  g = [k \in 0..n |-> IF k = 0 THEN NothingFound(from) ELSE NextFound(g[k - 1], to)]

LEMMA GreedyUnfolds ==
  ASSUME NEW from, NEW to, NEW n
  PROVE  Greedy(from, to, n) = (CHOOSE g : IsScan(g, from, to, n))[n]
BY DEF Greedy, IsScan, NextFound, NothingFound

LEMMA ScanExists ==
  ASSUME NEW from, NEW to, NEW n \in Nat
  PROVE  \E g : IsScan(g, from, to, n)
<1> DEFINE T == {m \in Nat : \E g : IsScan(g, from, to, m)}
<1>1. 0 \in T
  <2> DEFINE g == [k \in 0..0 |-> NothingFound(from)]
  <2>1. IsScan(g, from, to, 0)
    <3>1. \A k \in 0..0 : k = 0
      OBVIOUS
    <3>2. g = [k \in 0..0 |-> IF k = 0 THEN NothingFound(from) ELSE NextFound(g[k - 1], to)]
      BY <3>1
    <3> QED BY <3>2 DEF IsScan
  <2> QED BY <2>1
<1>2. ASSUME NEW m \in Nat, m \in T PROVE m + 1 \in T
  <2>1. PICK g : IsScan(g, from, to, m)
    BY <1>2
  <2> DEFINE h == [k \in 0..(m + 1) |-> IF k = m + 1 THEN NextFound(g[m], to) ELSE g[k]]
  <2>2. ASSUME NEW k \in 0..(m + 1)
        PROVE  h[k] = IF k = 0 THEN NothingFound(from) ELSE NextFound(h[k - 1], to)
    <3>1. CASE k = m + 1
      <4>1. k # 0 /\ k - 1 = m /\ m \in 0..(m + 1) /\ m # m + 1
        BY <3>1
      <4>2. h[m] = g[m] /\ h[k] = NextFound(g[m], to)
        BY <3>1, <4>1
      <4> QED BY <4>1, <4>2
    <3>2. CASE k # m + 1
      <4>1. k \in 0..m /\ h[k] = g[k]
        BY <3>2
      <4>2. g[k] = IF k = 0 THEN NothingFound(from) ELSE NextFound(g[k - 1], to)
        BY <2>1, <4>1 DEF IsScan
      <4>3. k # 0 => k - 1 \in 0..(m + 1) /\ k - 1 # m + 1 /\ h[k - 1] = g[k - 1]
        BY <4>1
      <4> QED BY <4>1, <4>2, <4>3
    <3> QED BY <3>1, <3>2
  <2>3. DOMAIN h = 0..(m + 1)
    OBVIOUS
  <2>4. h = [k \in 0..(m + 1) |-> h[k]]
    OBVIOUS
  <2> HIDE DEF h
  <2>5. IsScan(h, from, to, m + 1)
    BY <2>2, <2>4 DEF IsScan
  <2> QED BY <2>5
<1> HIDE DEF T
<1>3. Nat \subseteq T
  BY <1>1, <1>2, NatInductionOnSets
<1> QED BY <1>3 DEF T

(* What a scan has found once it stands at f.at: occurrences apart from one     *)
(* another, and none is left out that does not overlap one of them.             *)
TakesAll(from, at, to, taken) ==
  \A o \in from..(at - 1) : \/ o + Len(Needle) <= to /\ ~MatchAt(o)
                            \/ \E p \in taken : Touches(o, p)
Apart(taken) == \A o, p \in taken : o # p => ~Touches(o, p)
ScanOK(f, from, to) ==
  /\ f.at \in from..to /\ Boundary(output, f.at)
  /\ f.taken \subseteq Occurrences(from, to)
  /\ \A p \in f.taken : p + Len(Needle) <= f.at
  /\ f.at # from => f.at - Len(Needle) \in f.taken
  /\ Apart(f.taken)
  /\ TakesAll(from, f.at, to, f.taken)

LEMMA FirstOccurrence ==
  ASSUME output \in Seq(STRING), Whole, NEW at \in Nat, NEW to \in 0..End, Occurrences(at, to) # {}
  PROVE  LET p == Min(Occurrences(at, to))
         IN  /\ p \in Occurrences(at, to) /\ p \in at..(to - Len(Needle)) /\ p \in Nat /\ MatchAt(p)
             /\ Boundary(output, p) /\ Boundary(output, p + Len(Needle)) /\ p + Len(Needle) <= to
             /\ \A o \in at..(p - 1) : o + Len(Needle) <= to /\ ~MatchAt(o)
<1> DEFINE here == Occurrences(at, to)
           p == Min(here)
<1>1. here \in SUBSET Nat /\ End \in Nat /\ Len(Needle) \in Nat
  BY LogConstants DEF Occurrences, End
<1>2. p \in here /\ \A o \in here : p <= o
  BY <1>1, FirstOf
<1> HIDE DEF p
<1>3. p \in at..(to - Len(Needle)) /\ MatchAt(p)
  BY <1>2, OccurrencesAre
<1>4. p \in Nat /\ p + Len(Needle) <= to /\ p + Len(Needle) <= End
  BY <1>1, <1>3
<1>5. Boundary(output, p) /\ Boundary(output, p + Len(Needle))
  BY <1>3, <1>4, OccurrenceIsWhole
<1>6. ASSUME NEW o \in at..(p - 1) PROVE o + Len(Needle) <= to /\ ~MatchAt(o)
  <2>1. o \in at..(to - Len(Needle)) /\ o < p /\ o + Len(Needle) <= to
    BY <1>1, <1>4
  <2> QED BY <1>1, <1>2, <2>1, OccurrencesAre
<1> QED BY <1>2, <1>3, <1>4, <1>5, <1>6 DEF p

LEMMA NextFoundOK ==
  ASSUME output \in Seq(STRING), Whole, NEW from \in Nat, NEW to \in 0..End, NEW f, ScanOK(f, from, to)
  PROVE  ScanOK(NextFound(f, to), from, to)
<1> DEFINE here == Occurrences(f.at, to)
           L == Len(Needle)
<1>1. L \in Nat \ {0} /\ End \in Nat /\ f.at \in from..to /\ f.at \in Nat
  BY LogConstants DEF ScanOK, End
<1>2. CASE here = {}
  BY <1>2 DEF NextFound
<1>3. CASE here # {}
  <2>1. PICK p \in Nat : p = Min(here)
    BY <1>1, <1>3, FirstOccurrence
  <2>2. /\ p \in here /\ p \in f.at..(to - L) /\ MatchAt(p)
        /\ Boundary(output, p + L) /\ p + L <= to
        /\ \A o \in f.at..(p - 1) : o + L <= to /\ ~MatchAt(o)
    BY <1>1, <1>3, <2>1, FirstOccurrence
  <2> DEFINE g == NextFound(f, to)
  <2>3. g.taken = f.taken \cup {p} /\ g.at = p + L
    BY <1>3, <2>1 DEF NextFound
  <2>4. g.at \in from..to /\ Boundary(output, g.at)
    BY <1>1, <2>2, <2>3
  <2>5. g.taken \subseteq Occurrences(from, to)
    <3>1. p \in from..(to - L)
      BY <1>1, <2>2
    <3> QED BY <2>2, <2>3, <3>1, OccurrencesAre DEF ScanOK
  <2>6. ASSUME NEW q \in f.taken PROVE q \in Nat /\ q + L <= f.at /\ f.at <= p
    <3>1. q \in from..(to - L) /\ q + L <= f.at
      BY DEF ScanOK, Occurrences
    <3> QED BY <1>1, <2>2, <3>1
  <2>7. \A q \in g.taken : q + L <= g.at
    BY <1>1, <2>3, <2>6
  <2>8. g.at - L \in g.taken
    BY <1>1, <2>3
  <2>9. Apart(g.taken)
    <3>1. \A q \in f.taken : ~Touches(p, q) /\ ~Touches(q, p)
      BY <1>1, <2>6 DEF Touches
    <3> QED BY <2>3, <3>1 DEF Apart, ScanOK
  <2>10. TakesAll(from, g.at, to, g.taken)
    <3> SUFFICES ASSUME NEW o \in from..(p + L - 1)
                 PROVE  \/ o + L <= to /\ ~MatchAt(o)
                        \/ \E q \in g.taken : Touches(o, q)
      BY <2>3 DEF TakesAll
    <3>1. CASE o < f.at
      <4>1. o \in from..(f.at - 1)
        BY <1>1, <2>2, <3>1
      <4> QED BY <2>3, <4>1 DEF ScanOK, TakesAll
    <3>2. CASE o >= f.at /\ o < p
      <4>1. o \in f.at..(p - 1)
        BY <1>1, <2>2, <3>2
      <4> QED BY <2>2, <4>1
    <3>3. CASE o >= p
      <4>1. o - p \in (1 - L)..(L - 1)
        BY <1>1, <3>3
      <4> QED BY <2>3, <4>1 DEF Touches
    <3> QED BY <1>1, <3>1, <3>2, <3>3
  <2> HIDE DEF g
  <2> QED BY <2>4, <2>5, <2>7, <2>8, <2>9, <2>10 DEF g, ScanOK
<1> QED BY <1>2, <1>3

LEMMA NothingFoundOK ==
  ASSUME output \in Seq(STRING), NEW to \in 0..End, NEW from \in 0..to, Boundary(output, from)
  PROVE  ScanOK(NothingFound(from), from, to)
<1>1. End \in Nat
  BY DEF End
<1>2. NothingFound(from).at = from /\ NothingFound(from).taken = {}
  BY DEF NothingFound
<1>3. from..(from - 1) = {}
  BY <1>1
<1> QED BY <1>1, <1>2, <1>3 DEF ScanOK, Apart, TakesAll

LEMMA GreedyOK ==
  ASSUME output \in Seq(STRING), Whole, NEW to \in 0..End, NEW from \in 0..to, Boundary(output, from),
         NEW n \in Nat
  PROVE  /\ ScanOK(Greedy(from, to, n), from, to)
         /\ n # 0 /\ Occurrences(from, to) # {} => Greedy(from, to, n).at > from
<1> DEFINE g == CHOOSE h : IsScan(h, from, to, n)
           Advances(f) == Occurrences(from, to) # {} => f.at > from
           T == {k \in Nat : k <= n => ScanOK(g[k], from, to) /\ (k # 0 => Advances(g[k]))}
<1>1. IsScan(g, from, to, n)
  BY ScanExists
<1> HIDE DEF g
<1>2. \A k \in 0..n : g[k] = IF k = 0 THEN NothingFound(from) ELSE NextFound(g[k - 1], to)
  BY <1>1 DEF IsScan
<1>3. from \in Nat /\ End \in Nat /\ Len(Needle) \in Nat \ {0}
  BY LogConstants DEF End
<1>4. 0 \in T
  BY <1>2, NothingFoundOK
<1>5. ASSUME NEW k \in Nat, k \in T PROVE k + 1 \in T
  <2> SUFFICES ASSUME k + 1 <= n PROVE ScanOK(g[k + 1], from, to) /\ Advances(g[k + 1])
    OBVIOUS
  <2>1. ScanOK(g[k], from, to) /\ (k # 0 => Advances(g[k]))
    BY <1>5
  <2>2. g[k + 1] = NextFound(g[k], to)
    BY <1>2
  <2>3. ScanOK(g[k + 1], from, to)
    BY <1>3, <2>1, <2>2, NextFoundOK
  <2>4. Advances(g[k + 1])
    <3> SUFFICES ASSUME Occurrences(from, to) # {} PROVE g[k + 1].at > from
      OBVIOUS
    <3>1. CASE g[k].at > from
      <4>1. CASE Occurrences(g[k].at, to) = {}
        BY <2>2, <3>1, <4>1 DEF NextFound
      <4>2. CASE Occurrences(g[k].at, to) # {}
        <5>1. g[k].at \in Nat /\ Min(Occurrences(g[k].at, to)) \in g[k].at..(to - Len(Needle))
          BY <1>3, <2>1, <4>2, FirstOccurrence DEF ScanOK
        <5>2. g[k + 1].at = Min(Occurrences(g[k].at, to)) + Len(Needle)
          BY <2>2, <4>2 DEF NextFound
        <5> QED BY <1>3, <3>1, <5>1, <5>2
      <4> QED BY <4>1, <4>2
    <3>2. CASE ~(g[k].at > from)
      <4>1. g[k].at = from
        BY <1>3, <2>1, <3>2 DEF ScanOK
      <4>2. g[k + 1].at = Min(Occurrences(from, to)) + Len(Needle)
        BY <2>2, <4>1 DEF NextFound
      <4>3. Min(Occurrences(from, to)) \in from..(to - Len(Needle))
        BY <1>3, FirstOccurrence
      <4> QED BY <1>3, <4>2, <4>3
    <3> QED BY <3>1, <3>2
  <2> QED BY <2>3, <2>4
<1> HIDE DEF T
<1>6. Nat \subseteq T
  BY <1>4, <1>5, NatInductionOnSets
<1>7. ScanOK(g[n], from, to) /\ (n # 0 => Advances(g[n]))
  BY <1>6 DEF T
<1>8. Greedy(from, to, n) = g[n]
  BY GreedyUnfolds DEF g
<1> QED BY <1>7, <1>8

(* Where a scan goes on, nothing between is passed over that was not seen      *)
(* whole.                                                                      *)
LEMMA GoOnOK ==
  ASSUME output \in Seq(STRING), Whole, NEW at \in Nat, Boundary(output, at),
         NEW page, page.next \in at..End, Boundary(output, page.next)
  PROVE  LET n == GoOn(at, page)
         IN  /\ n \in at..page.next /\ Boundary(output, n)
             /\ \A o \in at..(n - 1) : n < End \/ o + Len(Needle) <= n => o + Len(Needle) <= End /\ ~MatchAt(o)
<1> DEFINE left == Occurrences(at, page.next)
           L == Len(Needle)
           n == GoOn(at, page)
<1>1. L \in Nat \ {0} /\ End \in Nat /\ page.next \in Nat /\ page.next \in 0..End
  BY LogConstants DEF End
<1>2. CASE left # {}
  <2>1. n = Min(left)
    BY <1>2 DEF GoOn
  <2>2. /\ n \in at..(page.next - L) /\ Boundary(output, n)
        /\ \A o \in at..(n - 1) : o + L <= page.next /\ ~MatchAt(o)
    BY <1>1, <1>2, <2>1, FirstOccurrence
  <2> HIDE DEF n
  <2>3. n \in at..page.next
    BY <1>1, <2>2
  <2>4. \A o \in at..(n - 1) : o + L <= End /\ ~MatchAt(o)
    BY <1>1, <2>2
  <2> QED BY <2>2, <2>3, <2>4 DEF n
<1>3. CASE left = {} /\ page.next = End
  <2>1. n = End
    BY <1>3 DEF GoOn
  <2>2. ASSUME NEW o \in at..(End - 1), o + L <= End PROVE ~MatchAt(o)
    <3>1. o \in at..(page.next - L)
      BY <1>1, <1>3, <2>2
    <3> QED BY <1>1, <1>3, <3>1, OccurrencesAre
  <2> QED BY <1>1, <1>3, <2>1, <2>2
<1>4. CASE left = {} /\ page.next # End
  <2> DEFINE upTo == Greater(at, page.next - L + 1)
  <2>1. n = LastBoundary(output, at, upTo)
    BY <1>4 DEF GoOn
  <2>2. upTo \in Int /\ (upTo = at \/ upTo = page.next - L + 1)
    BY <1>1 DEF Greater
  <2> HIDE DEF upTo
  <2>3. n \in Nat /\ at <= n /\ (n = at \/ (n <= upTo /\ Boundary(output, n)))
    BY <2>1, <2>2, LastIsBoundary
  <2> HIDE DEF n
  <2>4. n \in at..page.next /\ Boundary(output, n)
    BY <1>1, <2>2, <2>3
  <2>5. ASSUME NEW o \in at..(n - 1) PROVE o + L <= End /\ ~MatchAt(o)
    <3>1. o \in at..(page.next - L) /\ o + L <= End
      BY <1>1, <2>2, <2>3, <2>5
    <3> QED BY <1>1, <1>4, <3>1, OccurrencesAre
  <2> QED BY <2>4, <2>5 DEF n
<1> QED BY <1>2, <1>3, <1>4

(* A search that has not come to the end gets on, also where it finds nothing: *)
(* the window holds the needle and the characters cut at both its ends.        *)
LEMMA SearchLeadsOn ==
  ASSUME LogOK, search.at < End
  PROVE  LET page == Page(search.at, Scan)
         IN GoOn(Greedy(page.first, page.next, 1).at, page) > search.at
<1> DEFINE page == Page(search.at, Scan)
           L == Len(Needle)
           found == Greedy(page.first, page.next, 1)
           n == GoOn(found.at, page)
<1>1. /\ search.at \in 0..End /\ Boundary(output, search.at) /\ output \in Seq(STRING) /\ Whole
      /\ L \in Nat \ {0} /\ Scan \in Nat /\ End \in Nat
  BY LogConstants DEF LogOK, End
<1>2. /\ page.first \in search.at..End /\ Boundary(output, page.first)
      /\ page.next \in page.first..End /\ Boundary(output, page.next)
      /\ \A j \in page.first..End : Boundary(output, j) /\ j <= page.first + Scan => j <= page.next
  BY <1>1, PageOK
<1> HIDE DEF page
<1>3. ScanOK(found, page.first, page.next) /\ (Occurrences(page.first, page.next) # {} => found.at > page.first)
  <2>1. page.next \in 0..End /\ page.first \in 0..page.next
    BY <1>1, <1>2
  <2> QED BY <1>1, <1>2, <2>1, GreedyOK
<1> HIDE DEF found
<1>4. found.at \in page.first..page.next /\ Boundary(output, found.at) /\ found.at \in Nat /\ page.next \in found.at..End
  BY <1>1, <1>2, <1>3 DEF ScanOK
<1>5. n \in found.at..page.next
  BY <1>1, <1>2, <1>4, GoOnOK
<1>6. CASE found.at > page.first
  <2> HIDE DEF n
  <2>1. n > search.at
    BY <1>1, <1>2, <1>4, <1>5, <1>6
  <2> QED BY <2>1 DEF n, found, page
<1>7. CASE found.at = page.first /\ page.next = End
  <2>1. Occurrences(found.at, page.next) = {}
    <3>1. ~(found.at > page.first)
      BY <1>1, <1>2, <1>4, <1>7
    <3>2. Occurrences(page.first, page.next) = {}
      BY <1>3, <3>1
    <3> QED BY <1>7, <3>2
  <2>2. n = End
    BY <1>7, <2>1 DEF GoOn
  <2> QED BY <1>7, <2>2 DEF n, found, page
<1>8. CASE found.at = page.first /\ page.next # End
  <2>1. Occurrences(found.at, page.next) = {}
    <3>1. ~(found.at > page.first)
      BY <1>1, <1>2, <1>4, <1>8
    <3>2. Occurrences(page.first, page.next) = {}
      BY <1>3, <3>1
    <3> QED BY <1>8, <3>2
  <2> DEFINE upTo == Greater(found.at, page.next - L + 1)
  <2>2. n = LastBoundary(output, found.at, upTo)
    BY <1>8, <2>1 DEF GoOn
  <2>3. upTo \in Int /\ upTo >= page.next - L + 1
    BY <1>1, <1>2, <1>4 DEF Greater
  <2> HIDE DEF upTo
  <2> HIDE DEF n
  <2>4. \A j \in found.at..upTo : Boundary(output, j) => j <= n
    BY <1>1, <1>4, <2>2, <2>3, LastIsBoundary
  <2>5. page.next \in 0..(End - 1) /\ page.first \in 0..(End - 1)
    BY <1>1, <1>2, <1>8
  <2>6. PICK t \in Texts : CharacterAt(page.first, t)
    BY <1>1, <1>2, <2>5 DEF Whole
  <2>7. PICK u \in Texts : CharacterAt(page.next, u)
    BY <1>1, <1>2, <2>5 DEF Whole
  <2>8. /\ Len(t) \in Nat \ {0} /\ Len(u) \in Nat \ {0}
        /\ 2 * Len(t) + L < Scan + 3 /\ 2 * Len(u) + L < Scan + 3
    BY LogConstants
  <2>9. /\ page.first + Len(t) <= End /\ Boundary(output, page.first + Len(t))
        /\ page.next + Len(u) <= End /\ Boundary(output, page.next + Len(u))
    BY <2>6, <2>7 DEF CharacterAt
  <2>10. page.next + Len(u) > page.first + Scan
    <3>1. page.next + Len(u) \in page.first..End /\ page.next + Len(u) > page.next
      BY <1>1, <1>2, <2>8, <2>9
    <3>2. page.next + Len(u) <= page.first + Scan => page.next + Len(u) <= page.next
      BY <1>2, <2>9, <3>1
    <3>3. page.first \in Int /\ page.next \in Int
      BY <1>1, <1>2
    <3> QED BY <1>1, <2>8, <3>1, <3>2, <3>3
  <2>11. page.first + Len(t) \in found.at..upTo
    <3>1. page.first \in Int /\ page.next \in Int
      BY <1>1, <1>2
    <3>2. page.first + Len(t) <= page.next - L + 1
      BY <1>1, <2>8, <2>10, <3>1
    <3> QED BY <1>1, <1>8, <2>3, <2>8, <3>1, <3>2
  <2>12. n >= page.first + Len(t)
    BY <2>4, <2>9, <2>11, <1>4, <1>5
  <2>13. n > search.at
    BY <1>1, <1>2, <1>4, <1>5, <2>8, <2>12
  <2> QED BY <2>13 DEF n, found, page
<1> QED BY <1>1, <1>2, <1>4, <1>6, <1>7, <1>8

-----------------------------------------------------------------------------
(* The inductive invariant.  As long as a search goes on, it has an answer for *)
(* every offset behind it, also where the room for a whole needle are not      *)
(* there yet.                                                                   *)
Passed(o) == \/ o + Len(Needle) <= End /\ ~MatchAt(o)
             \/ \E p \in matches : Touches(o, p)
             \/ \E i \in lost : i \in o..(o + Len(Needle) - 1)

SearchOK == /\ matches \subseteq Occurrences(0, search.at)
            /\ Apart(matches)
            /\ \A o \in 0..(search.at - 1) : search.more \/ o + Len(Needle) <= search.at => Passed(o)

QueryOK == LogOK /\ SearchOK

LEMMA InitQuery == LogInit => QueryOK
<1> SUFFICES ASSUME LogInit PROVE QueryOK
  OBVIOUS
<1>1. output = <<>> /\ End = 0 /\ Len(Needle) \in Nat \ {0}
  BY LogConstants DEF LogInit, End
<1>2. LogOK
  BY <1>1 DEF LogInit, LogOK, Whole, Boundary
<1>3. SearchOK
  BY <1>1 DEF LogInit, SearchOK, Apart
<1> QED BY <1>2, <1>3 DEF QueryOK

LEMMA TrimmedOK ==
  ASSUME NEW t \in Seq(STRING), retainedFrom \in 0..Len(t), NEW room \in Nat
  PROVE  Trimmed(t, room) \in 0..Len(t) /\ Boundary(t, Trimmed(t, room))
<1>1. Greater(retainedFrom, Len(t) - room) \in 0..Len(t)
  BY DEF Greater
<1> QED BY <1>1, NextIsBoundary DEF Trimmed

LEMMA WriteQuery ==
  ASSUME QueryOK, NEW t \in Texts, Write(t)
  PROVE  QueryOK'
<1>1. /\ output \in Seq(STRING) /\ Whole /\ output' = output \o t /\ retainedFrom' = Trimmed(output', Capacity)
      /\ UNCHANGED <<cursor, search, matches, lost>>
  BY DEF QueryOK, LogOK, Write
<1>2. /\ output' \in Seq(STRING) /\ End' = End + Len(t) /\ End \in Nat /\ Len(t) \in Nat /\ End' = Len(output')
      /\ \A i \in 0..End : Boundary(output, i) <=> Boundary(output', i)
  BY <1>1, AppendKeeps, LogConstants DEF End
<1>3. Whole'
  BY <1>1, AppendWhole
<1>4. retainedFrom' \in 0..End' /\ Boundary(output', retainedFrom')
  <2>1. retainedFrom \in 0..Len(output') /\ Capacity \in Nat
    BY <1>2, LogConstants DEF QueryOK, LogOK
  <2>2. PICK s \in Seq(STRING) : s = output'
    BY <1>2
  <2> QED BY <1>1, <1>2, <2>1, <2>2, TrimmedOK
<1>5. LogOK'
  <2>1. cursor \in 0..End /\ Boundary(output, cursor) /\ search.at \in 0..End /\ Boundary(output, search.at)
        /\ search \in [at : 0..End, more : BOOLEAN] /\ matches \in SUBSET Nat
    BY DEF QueryOK, LogOK
  <2>2. cursor \in 0..End' /\ search \in [at : 0..End', more : BOOLEAN]
    BY <1>2, <2>1
  <2> QED BY <1>1, <1>2, <1>3, <1>4, <2>1, <2>2 DEF LogOK
<1>6. search.at \in 0..End /\ Len(Needle) \in Nat \ {0} /\ SearchOK
  BY LogConstants DEF QueryOK, LogOK
<1>7. (matches \subseteq Occurrences(0, search.at))'
  <2>1. ASSUME NEW o \in matches PROVE o \in Occurrences(0, search.at)'
    <3>1. o \in 0..(search.at - Len(Needle)) /\ MatchAt(o)
      BY <1>1, <1>6, OccurrencesAre DEF SearchOK
    <3>2. o \in Nat /\ o + Len(Needle) <= End
      BY <1>2, <1>6, <3>1
    <3>3. MatchAt(o)'
      BY <1>1, <3>1, <3>2, MatchesStay
    <3>4. PICK s \in Seq(STRING) : s = output'
      BY <1>2
    <3>5. SubSeq(s, o + 1, o + Len(Needle)) = Needle
      <4>1. o + Len(Needle) <= Len(s)
        BY <1>2, <1>6, <3>2, <3>4
      <4>2. \A k \in 1..Len(Needle) : s[o + k] = Needle[k]
        BY <3>3, <3>4 DEF MatchAt
      <4> QED BY <3>2, <4>1, <4>2, MatchIsPointwise
    <3> QED BY <1>1, <3>1, <3>4, <3>5 DEF Occurrences
  <2> QED BY <1>1, <2>1
<1>8. ASSUME NEW o \in 0..(search.at - 1), search.more \/ o + Len(Needle) <= search.at
      PROVE  Passed(o)'
  <2>1. Passed(o) /\ o \in Nat
    BY <1>6, <1>8 DEF SearchOK
  <2>2. CASE o + Len(Needle) <= End /\ ~MatchAt(o)
    <3>1. ~MatchAt(o)'
      BY <1>1, <2>1, <2>2, MatchesStay
    <3> QED BY <1>2, <1>6, <2>1, <2>2, <3>1 DEF Passed
  <2>3. CASE \E p \in matches : Touches(o, p)
    BY <1>1, <2>3 DEF Passed, Touches
  <2>4. CASE \E i \in lost : i \in o..(o + Len(Needle) - 1)
    BY <1>1, <2>4 DEF Passed
  <2> QED BY <2>1, <2>2, <2>3, <2>4 DEF Passed
<1>9. Apart(matches)'
  BY <1>1, <1>6 DEF SearchOK, Apart, Touches
<1>10. SearchOK'
  BY <1>1, <1>7, <1>8, <1>9 DEF SearchOK
<1> QED BY <1>5, <1>10 DEF QueryOK

\* What concerns neither the text nor the search.
LEMMA SearchUntouched ==
  ASSUME QueryOK, UNCHANGED <<output, search, matches, lost>>,
         retainedFrom' \in 0..End, Boundary(output, retainedFrom'), cursor' \in 0..End, Boundary(output, cursor')
  PROVE  QueryOK'
<1>1. LogOK'
  BY DEF QueryOK, LogOK, Whole, CharacterAt, Boundary, End
<1>2. SearchOK'
  BY DEF QueryOK, SearchOK, Apart, Passed, MatchAt, Occurrences, Touches, End
<1> QED BY <1>1, <1>2 DEF QueryOK

LEMMA SqueezeQuery ==
  ASSUME QueryOK, NEW room \in 0..Capacity, Squeeze(room)
  PROVE  QueryOK'
<1>1. retainedFrom' = Trimmed(output, room) /\ UNCHANGED <<output, cursor, search, matches, lost>>
  BY DEF Squeeze
<1>2. output \in Seq(STRING) /\ retainedFrom \in 0..Len(output) /\ room \in Nat /\ End = Len(output)
  BY LogConstants DEF QueryOK, LogOK, End
<1>3. PICK s \in Seq(STRING) : s = output
  BY <1>2
<1>4. retainedFrom' \in 0..End /\ Boundary(output, retainedFrom')
  BY <1>1, <1>2, <1>3, TrimmedOK
<1> QED BY <1>1, <1>4, SearchUntouched DEF QueryOK, LogOK

LEMMA PollQuery ==
  ASSUME QueryOK, Poll
  PROVE  QueryOK'
<1>1. cursor' = Page(cursor, Budget).next /\ UNCHANGED <<output, retainedFrom, search, matches, lost>>
  BY DEF Poll
<1>2. PICK c \in 0..End : c = cursor
  BY DEF QueryOK, LogOK
<1>3. Boundary(output, c) /\ Budget \in Nat /\ LogOK /\ End \in Nat
  BY <1>2, LogConstants DEF QueryOK, LogOK, End
<1>4. Page(c, Budget).next \in Page(c, Budget).first..End /\ Page(c, Budget).first \in c..End
      /\ Boundary(output, Page(c, Budget).next)
  BY <1>3, PageOK
<1>5. cursor' \in 0..End /\ Boundary(output, cursor')
  BY <1>1, <1>2, <1>3, <1>4
<1> QED BY <1>1, <1>5, SearchUntouched DEF QueryOK, LogOK

\* One answer: what the page holds from where the search was to where it goes on.
LEMMA SearchQuery ==
  ASSUME QueryOK, Search
  PROVE  QueryOK'
<1> DEFINE page == Page(search.at, Scan)
           L == Len(Needle)
<1>1. PICK n \in 1..MaxMatches :
        LET found == Greedy(page.first, page.next, n)
            next == GoOn(found.at, page)
        IN search' = [at |-> next, more |-> next < End] /\ matches' = matches \cup found.taken
  BY DEF Search
<1> DEFINE found == Greedy(page.first, page.next, n)
           next == GoOn(found.at, page)
<1>2. /\ search' = [at |-> next, more |-> next < End] /\ matches' = matches \cup found.taken
      /\ lost' = lost \cup (search.at..(page.first - 1))
      /\ UNCHANGED <<output, retainedFrom, cursor>> /\ search.more
  BY <1>1 DEF Search
<1>3. /\ search.at \in 0..End /\ Boundary(output, search.at) /\ output \in Seq(STRING) /\ Whole
      /\ L \in Nat \ {0} /\ Scan \in Nat /\ End \in Nat /\ n \in Nat /\ LogOK /\ SearchOK
  BY LogConstants DEF QueryOK, LogOK, End
<1>4. /\ page.first \in search.at..End /\ Boundary(output, page.first)
      /\ page.next \in page.first..End /\ Boundary(output, page.next)
  BY <1>3, PageOK
<1> HIDE DEF page
<1>5. ScanOK(found, page.first, page.next)
  <2>1. page.next \in 0..End /\ page.first \in 0..page.next
    BY <1>3, <1>4
  <2> QED BY <1>3, <1>4, <2>1, GreedyOK
<1> HIDE DEF found
<1>6. /\ found.at \in page.first..page.next /\ Boundary(output, found.at) /\ found.at \in Nat
      /\ page.next \in found.at..End
  BY <1>3, <1>4, <1>5 DEF ScanOK
<1>7. /\ next \in found.at..page.next /\ Boundary(output, next)
      /\ \A o \in found.at..(next - 1) : next < End \/ o + L <= next => o + L <= End /\ ~MatchAt(o)
  BY <1>3, <1>4, <1>6, GoOnOK
<1> HIDE DEF next
<1>8. /\ page.first \in Nat /\ page.next \in Nat /\ next \in Nat
      /\ search.at <= page.first /\ page.first <= found.at /\ found.at <= next /\ next <= page.next /\ page.next <= End
  BY <1>3, <1>4, <1>6, <1>7
<1>9. search'.at = next /\ search'.more = (next < End)
  BY <1>2
<1>10. ASSUME NEW p \in matches PROVE p \in Nat /\ p + L <= search.at /\ MatchAt(p)
  <2>1. p \in 0..(search.at - L) /\ MatchAt(p)
    BY <1>3, OccurrencesAre DEF SearchOK
  <2> QED BY <1>3, <2>1
<1>11. ASSUME NEW p \in found.taken PROVE p \in Nat /\ page.first <= p /\ p + L <= found.at /\ MatchAt(p)
  <2>1. page.next \in 0..End
    BY <1>8, <1>3
  <2>2. p \in page.first..(page.next - L) /\ MatchAt(p) /\ p + L <= found.at
    BY <1>3, <1>5, <1>8, <2>1, OccurrencesAre DEF ScanOK
  <2> QED BY <1>3, <1>8, <2>2
<1>12. LogOK'
  <2>1. search' \in [at : 0..End, more : BOOLEAN] /\ Boundary(output, search'.at)
    BY <1>2, <1>3, <1>7, <1>8, <1>9
  <2>2. matches' \in SUBSET Nat
    BY <1>2, <1>10, <1>11
  <2> QED BY <1>2, <1>3, <2>1, <2>2 DEF LogOK, Whole, CharacterAt, Boundary, End
<1>13. (matches \subseteq Occurrences(0, search.at))'
  <2>1. ASSUME NEW p \in matches' PROVE p \in Nat /\ p + L <= next /\ MatchAt(p)
    <3>1. p \in matches \/ p \in found.taken
      BY <1>2, <2>1
    <3>2. p \in Nat /\ MatchAt(p) /\ (p + L <= search.at \/ p + L <= found.at)
      BY <1>10, <1>11, <3>1
    <3>3. search.at \in Int /\ found.at \in Int
      BY <1>3, <1>6
    <3> QED BY <1>3, <1>8, <3>2, <3>3
  <2>2. next \in 0..End
    BY <1>3, <1>8
  <2>3. ASSUME NEW p \in matches' PROVE p \in Occurrences(0, next)
    <3>1. p \in 0..(next - L) /\ MatchAt(p)
      BY <1>3, <1>8, <2>1
    <3> QED BY <1>3, <2>2, <3>1, OccurrencesAre
  <2>4. Occurrences(0, search.at)' = Occurrences(0, next)
    BY <1>2, <1>9 DEF Occurrences
  <2> QED BY <2>3, <2>4
<1>14. Apart(matches)'
  <2>1. ASSUME NEW p \in matches, NEW q \in found.taken PROVE ~Touches(p, q) /\ ~Touches(q, p)
    <3>1. p \in Nat /\ q \in Nat /\ p + L <= q
      BY <1>3, <1>8, <1>10, <1>11
    <3> QED BY <1>3, <3>1 DEF Touches
  <2>2. Apart(matches) /\ Apart(found.taken)
    BY <1>3, <1>5 DEF SearchOK, ScanOK
  <2>3. Apart(matches \cup found.taken)
    BY <2>1, <2>2 DEF Apart
  <2> QED BY <1>2, <2>3 DEF Apart, Touches
<1>15. ASSUME NEW o \in 0..(next - 1), next < End \/ o + L <= next PROVE Passed(o)'
  <2>0. o \in Nat /\ o < next /\ o <= next - 1 /\ search.at \in Nat
    BY <1>3, <1>8
  <2>1. CASE o < search.at
    <3>1. o \in 0..(search.at - 1)
      BY <1>3, <1>15, <2>1
    <3>2. Passed(o)
      BY <1>2, <1>3, <3>1 DEF SearchOK
    <3> QED BY <1>2, <3>2 DEF Passed, MatchAt, Touches, End
  <2>2. CASE search.at <= o /\ o < page.first
    <3>1. o \in lost' /\ o \in o..(o + L - 1)
      BY <1>2, <1>3, <1>8, <1>15, <2>2
    <3> QED BY <3>1 DEF Passed
  <2>3. CASE page.first <= o /\ o < found.at
    <3>1. o \in page.first..(found.at - 1)
      BY <1>6, <1>8, <2>0, <2>3
    <3>2. (o + L <= page.next /\ ~MatchAt(o)) \/ \E p \in found.taken : Touches(o, p)
      BY <1>5, <3>1 DEF ScanOK, TakesAll
    <3>3. ASSUME o + L <= page.next, ~MatchAt(o) PROVE Passed(o)'
      <4>1. o + L <= End
        BY <1>3, <1>8, <1>15, <3>3
      <4> QED BY <1>2, <3>3, <4>1 DEF Passed, MatchAt, End
    <3>4. ASSUME NEW p \in found.taken, Touches(o, p) PROVE Passed(o)'
      BY <1>2, <3>4 DEF Passed, Touches
    <3> QED BY <3>2, <3>3, <3>4
  <2>4. CASE found.at <= o
    <3>1. o \in found.at..(next - 1)
      BY <1>3, <1>8, <1>15, <2>4
    <3>2. o + L <= End /\ ~MatchAt(o)
      BY <1>7, <1>15, <3>1
    <3> QED BY <1>2, <3>2 DEF Passed, MatchAt, End
  <2>5. o < search.at \/ (search.at <= o /\ o < page.first) \/ (page.first <= o /\ o < found.at) \/ found.at <= o
    BY <1>6, <1>8, <2>0
  <2> QED BY <2>1, <2>2, <2>3, <2>4, <2>5
<1>16. SearchOK'
  BY <1>9, <1>13, <1>14, <1>15 DEF SearchOK
<1> QED BY <1>12, <1>16 DEF QueryOK

LEMMA NextQuery == QueryOK /\ [LogNext]_logVars => QueryOK'
<1>1. ASSUME QueryOK, UNCHANGED logVars PROVE QueryOK'
  BY <1>1 DEF logVars, QueryOK, LogOK, Whole, CharacterAt, Boundary, End, SearchOK, Apart, Passed, MatchAt, Occurrences, Touches
<1> QED BY <1>1, WriteQuery, SqueezeQuery, PollQuery, SearchQuery DEF LogNext

(* The inductive invariant of a log that is read and searched as it grows and   *)
(* is trimmed.                                                                  *)
THEOREM QueryInvariant == LogSpec => []QueryOK
BY InitQuery, NextQuery, PTL DEF LogSpec

(* No client is stuck: every cursor handed out stays usable and leads on.        *)
THEOREM CursorsLeadOnHolds == LogSpec => []CursorsLeadOn
<1>1. ASSUME QueryOK PROVE CursorsLeadOn
  <2>1. /\ LogOK /\ cursor \in 0..End /\ Boundary(output, cursor) /\ search.at \in 0..End /\ Boundary(output, search.at)
        /\ Budget \in Nat /\ Scan \in Nat
    BY <1>1, LogConstants DEF QueryOK, LogOK
  <2>2. \A t \in Texts : Len(t) <= Budget /\ Len(t) <= Scan
    BY LogConstants
  <2>3. LeadsOn(cursor, Budget) /\ LeadsOn(search.at, Scan)
    BY <2>1, <2>2, PageLeadsOn
  <2> QED BY <2>1, <2>3, SearchLeadsOn DEF CursorsLeadOn
<1> QED BY <1>1, QueryInvariant, PTL

(* A search followed by its cursor reports occurrences only, none overlapping   *)
(* another, and passes none over of which no byte was lost: however the scans    *)
(* cut the text, how many matches an answer has room for, and what is written    *)
(* and trimmed between two answers.                                             *)
THEOREM SearchIsCompleteHolds == LogSpec => []SearchIsComplete
<1>1. ASSUME QueryOK PROVE SearchIsComplete
  <2>1. /\ search.at \in 0..End /\ SearchOK /\ output \in Seq(STRING) /\ Len(Needle) \in Nat \ {0} /\ End \in Nat
    BY <1>1, LogConstants DEF QueryOK, LogOK, End
  <2>2. ASSUME NEW o \in Occurrences(0, search.at)
        PROVE  (\E p \in matches : Touches(o, p)) \/ (\E i \in lost : i \in o..(o + Len(Needle) - 1))
    <3>1. o \in 0..(search.at - Len(Needle)) /\ MatchAt(o)
      BY <2>1, OccurrencesAre
    <3>2. o \in 0..(search.at - 1) /\ o + Len(Needle) <= search.at
      BY <2>1, <3>1
    <3> QED BY <2>1, <3>1, <3>2 DEF SearchOK, Passed
  <2> QED BY <2>1, <2>2 DEF SearchIsComplete, SearchOK, Apart
<1> QED BY <1>1, QueryInvariant, PTL

-----------------------------------------------------------------------------
(* The last lines.  LineEnds(s) are the newlines from s on that end a line      *)
(* before the last.                                                            *)
LineEnds(s) == {i \in s..(End - 2) : NewlineAt(i)}
After(s) == Cardinality(LineEnds(s))

LEMMA AfterFalls ==
  ASSUME End \in Nat, NEW s \in Nat
  PROVE  /\ IsFiniteSet(LineEnds(s)) /\ After(s) \in Nat
         /\ s \in LineEnds(s) => After(s) = After(s + 1) + 1
         /\ s \notin LineEnds(s) => After(s) = After(s + 1)
         /\ \A r \in Nat : r <= s => After(s) <= After(r)
         /\ After(End) = 0
<1>1. \A r \in Nat : IsFiniteSet(LineEnds(r)) /\ After(r) \in Nat
  <2> TAKE r \in Nat
  <2>1. IsFiniteSet(r..(End - 2))
    BY FS_Interval
  <2>2. LineEnds(r) \subseteq r..(End - 2)
    BY DEF LineEnds
  <2> QED BY <2>1, <2>2, FS_Subset, FS_CardinalityType DEF After
<1>2. ASSUME s \in LineEnds(s) PROVE After(s) = After(s + 1) + 1
  <2>1. LineEnds(s + 1) = LineEnds(s) \ {s}
    BY DEF LineEnds
  <2>2. Cardinality(LineEnds(s) \ {s}) = Cardinality(LineEnds(s)) - 1
    BY <1>1, <1>2, FS_RemoveElement
  <2>3. Cardinality(LineEnds(s)) \in Nat
    BY <1>1 DEF After
  <2>4. After(s) = Cardinality(LineEnds(s)) /\ After(s + 1) = Cardinality(LineEnds(s) \ {s})
    BY <2>1 DEF After
  <2> QED BY <2>2, <2>3, <2>4
<1>3. ASSUME s \notin LineEnds(s) PROVE After(s) = After(s + 1)
  <2>1. LineEnds(s + 1) = LineEnds(s)
    BY <1>3 DEF LineEnds
  <2> QED BY <2>1 DEF After
<1>4. ASSUME NEW r \in Nat, r <= s PROVE After(s) <= After(r)
  <2>1. LineEnds(s) \subseteq LineEnds(r)
    BY <1>4 DEF LineEnds
  <2> QED BY <1>1, <2>1, FS_Subset DEF After
<1>5. After(End) = 0
  <2>1. LineEnds(End) = {}
    BY DEF LineEnds
  <2> QED BY <2>1, FS_EmptySet DEF After
<1> QED BY <1>1, <1>2, <1>3, <1>4, <1>5

\* Among enough newlines there is the one after which the last n lines begin.
LEMMA LinesBeginAt ==
  ASSUME End \in Nat, NEW from \in 0..End, NEW n \in Nat \ {0}, After(from) >= n
  PROVE  \E i \in LineEnds(from) : After(i) = n
<1> DEFINE S == {s \in from..End : After(s) >= n}
           top == Max(S)
<1>1. S \in SUBSET Nat /\ from \in S /\ \A s \in S : s <= End
  OBVIOUS
<1>2. top \in S /\ \A s \in S : s <= top
  BY <1>1, LastOf
<1> HIDE DEF top
<1>3. top \in Nat /\ top \in from..End /\ After(top) >= n /\ top # End
  BY <1>2, AfterFalls
<1>4. top + 1 \in from..End /\ top + 1 \in Nat /\ top + 1 \notin S
  BY <1>2, <1>3
<1>5. ~(After(top + 1) >= n) /\ After(top + 1) \in Nat /\ After(top) \in Nat
  BY <1>3, <1>4, AfterFalls
<1>6. top \in LineEnds(top) /\ After(top) = n
  BY <1>3, <1>5, AfterFalls
<1>7. top \in LineEnds(from)
  BY <1>3, <1>6 DEF LineEnds
<1> QED BY <1>6, <1>7

(* A tail that does not say it was truncated holds exactly the last n lines of  *)
(* what is retained, a truncated one an end of them; neither exceeds the budget *)
(* or cuts a character.                                                        *)
THEOREM TailIsLastLinesHolds == LogSpec => []TailIsLastLines
<1>1. ASSUME QueryOK PROVE TailIsLastLines
  <2> SUFFICES ASSUME NEW n \in 1..MaxLines
               PROVE  LET answer == LastLines(n) IN
                      /\ answer.first >= StartOfLast(n) /\ (~answer.truncated => answer.first = StartOfLast(n))
                      /\ Boundary(output, answer.first) /\ End - answer.first <= Budget
    BY DEF TailIsLastLines
  <2> DEFINE from == NextBoundary(output, Greater(retainedFrom, End - Scan))
             few == Cardinality(Newlines(from)) < n
             desired == IF few THEN from
                        ELSE 1 + CHOOSE i \in Newlines(from) : Cardinality({j \in Newlines(from) : j >= i}) = n
             first == NextBoundary(output, Greater(desired, End - Budget))
             limited == from > retainedFrom /\ few
             start == StartOfLast(n)
             S == {s \in retainedFrom..End : After(s) < n}
  <2>1. /\ End \in Nat /\ retainedFrom \in 0..End /\ output \in Seq(STRING) /\ End = Len(output)
        /\ Scan \in Nat /\ Budget \in Nat /\ n \in Nat \ {0}
    BY <1>1, LogConstants DEF QueryOK, LogOK, End
  <2>2. LastLines(n).first = first /\ (LastLines(n).truncated <=> first > desired \/ limited)
    BY DEF LastLines
  <2>3. from \in retainedFrom..End /\ from \in Nat /\ from \in 0..End
    <3>1. Greater(retainedFrom, End - Scan) \in 0..Len(output) /\ Greater(retainedFrom, End - Scan) >= retainedFrom
      BY <2>1 DEF Greater
    <3>2. from \in Greater(retainedFrom, End - Scan)..Len(output)
      BY <2>1, <3>1, NextIsBoundary
    <3> QED BY <2>1, <3>1, <3>2
  <2> HIDE DEF from
  <2>4. Newlines(from) = LineEnds(from)
    BY DEF Newlines, LineEnds
  <2>5. start = Min(S)
    <3>1. \A s \in retainedFrom..End : Cardinality({i \in s..(End - 2) : NewlineAt(i)}) = After(s)
      BY DEF After, LineEnds
    <3> QED BY <3>1 DEF StartOfLast
  <2>6. start \in S /\ (\A s \in S : start <= s) /\ start \in Nat
    <3>1. End \in S /\ S \in SUBSET Nat
      BY <2>1, AfterFalls
    <3> QED BY <2>5, <3>1, FirstOf
  <2> HIDE DEF start
  <2>7. /\ desired \in 0..End /\ desired >= start
        /\ few => desired = from
        /\ ~few => desired = start
        /\ few <=> After(from) < n
    <3>1. few <=> After(from) < n
      BY <2>4 DEF After
    <3>2. CASE few
      <4>1. from \in S
        BY <2>3, <3>1, <3>2
      <4> QED BY <2>3, <2>6, <3>1, <3>2, <4>1
    <3>3. CASE ~few
      <4>1. \A i \in LineEnds(from) : {j \in Newlines(from) : j >= i} = LineEnds(i) /\ i \in Nat /\ i \in from..(End - 2)
        BY <2>1, <2>3, <2>4 DEF LineEnds
      <4>2. \A i \in LineEnds(from) : Cardinality({j \in Newlines(from) : j >= i}) = After(i)
        BY <4>1 DEF After
      <4>3. After(from) \in Nat
        BY <2>1, <2>3, AfterFalls
      <4>4. \E i \in LineEnds(from) : After(i) = n
        BY <2>1, <2>3, <3>1, <3>3, <4>3, LinesBeginAt
      <4> DEFINE i == CHOOSE i \in Newlines(from) : Cardinality({j \in Newlines(from) : j >= i}) = n
      <4>5. i \in LineEnds(from) /\ After(i) = n
        <5>1. \E k \in Newlines(from) : Cardinality({j \in Newlines(from) : j >= k}) = n
          BY <2>4, <4>2, <4>4
        <5>2. i \in Newlines(from) /\ Cardinality({j \in Newlines(from) : j >= i}) = n
          BY <5>1, Zenon
        <5> HIDE DEF i
        <5> QED BY <2>4, <4>2, <5>2
      <4>6. desired = 1 + i
        BY <3>3, Zenon
      <4> HIDE DEF i
      <4>7. i \in Nat /\ i \in from..(End - 2) /\ i \in LineEnds(i)
        BY <4>1, <4>5 DEF LineEnds
      <4>8. After(i + 1) < n
        BY <2>1, <4>5, <4>7, AfterFalls
      <4>9. i + 1 \in S
        BY <2>1, <2>3, <4>7, <4>8
      <4>10. start > i
        <5>1. ASSUME start <= i PROVE After(i) <= After(start)
          BY <2>1, <2>6, <4>7, <5>1, AfterFalls
        <5>2. After(start) < n /\ After(start) \in Nat
          BY <2>1, <2>6, AfterFalls
        <5> QED BY <2>1, <2>6, <4>5, <4>7, <5>1, <5>2
      <4>11. start = i + 1
        BY <2>6, <4>7, <4>9, <4>10
      <4> HIDE DEF desired
      <4> QED BY <2>1, <2>3, <3>1, <3>3, <4>6, <4>7, <4>11
    <3> QED BY <3>2, <3>3
  <2> HIDE DEF desired, few
  <2>8. /\ first \in Greater(desired, End - Budget)..End /\ Boundary(output, first)
        /\ Greater(desired, End - Budget) >= desired /\ Greater(desired, End - Budget) >= End - Budget
        /\ Greater(desired, End - Budget) \in Int
    <3>1. /\ Greater(desired, End - Budget) \in 0..Len(output)
          /\ Greater(desired, End - Budget) >= desired /\ Greater(desired, End - Budget) >= End - Budget
      BY <2>1, <2>7 DEF Greater
    <3> QED BY <2>1, <3>1, NextIsBoundary
  <2> HIDE DEF first
  <2>9. first \in Int /\ first >= desired /\ End - first <= Budget
    BY <2>1, <2>7, <2>8
  <2>10. first >= start
    BY <2>6, <2>7, <2>9
  <2>11. ASSUME ~(first > desired), ~limited PROVE first = start
    <3>1. first = desired
      BY <2>7, <2>9, <2>11
    <3>2. CASE ~few
      BY <2>7, <3>1, <3>2
    <3>3. CASE few
      <4>1. from = retainedFrom
        BY <2>1, <2>3, <2>11, <3>3
      <4>2. start >= retainedFrom /\ start <= from
        BY <2>1, <2>3, <2>6, <2>7, <3>3
      <4> QED BY <2>1, <2>6, <2>7, <3>1, <3>3, <4>1, <4>2
    <3> QED BY <3>2, <3>3
  <2> QED BY <2>2, <2>8, <2>9, <2>10, <2>11 DEF start
<1> QED BY <1>1, QueryInvariant, PTL
=============================================================================
