------------------------- MODULE PatchEngine_proofs -------------------------
(***************************************************************************)
(* Proofs about PatchEngine for any calls, patches, paths and bounds: the  *)
(* invariant of the calls and their mutex, and from it that the answer is  *)
(* exact, that a patch stays partial only through a fault or an editor     *)
(* outside, and that nothing is overwritten that the patch was not made    *)
(* from.  Then, about PatchText: every update is the edit that its chunks  *)
(* describe, for files and chunks of any length.                           *)
(***************************************************************************)
EXTENDS PatchEngine, FiniteSetTheorems, SequenceTheorems, WellFoundedInduction, TLAPS

CallType == [at : Steps, patch : Patches \cup {<<>>}, snapshots : Seq(Nat \cup {Absent}), k : Nat \ {0},
             changes : SUBSET Effect, created : SUBSET Dirs, did : SUBSET Effect, result : Results]

(* What hunks 1..n of a patch do to the disk.                                *)
EffectOf(h) == {ChangeOf(h)} \cup (IF h.operation = "move" THEN {<<"delete", h.path>>} ELSE {})
Effects(patch, n) == UNION {EffectOf(patch[j]) : j \in 1..n}

CommitSteps == {"verify_all", "verify", "parent", "write", "link", "clean_up", "recheck", "unlink"}

(* Where a call is in its patch: the hunk at work exists, what was read so far *)
(* are the sources of the first hunks, which touch different paths, and the    *)
(* step is one that the hunk's operation takes.                                *)
Current(a) == a.patch[a.k]
Prepared(a) ==
  \A j \in 1..Len(a.snapshots) :
    /\ a.patch[j].operation # "add" => a.snapshots[j] # Absent
    /\ a.patch[j].operation = "move" => a.patch[j].path # a.patch[j].target
    /\ \A i \in 1..(j - 1) : Touched(a.patch[i]) \cap Touched(a.patch[j]) = {}
Positioned(a) ==
  /\ a.at = "idle" => a.patch = <<>> /\ a.k = 1
  /\ a.at # "idle" => a.patch \in Patches /\ a.k \in 1..Len(a.patch)
  /\ Len(a.snapshots) <= Len(a.patch)
  /\ a.at = "prepare" => Len(a.snapshots) = a.k - 1
  /\ a.at = "wait" => a.k = 1
  /\ a.at \in CommitSteps \cup {"wait"} => Len(a.snapshots) = Len(a.patch)
  /\ a.at = "parent" => Creates(Current(a))
  /\ a.at \in {"write", "link", "clean_up"} => Current(a).operation # "delete"
  /\ a.at = "recheck" => Current(a).operation = "move"
  /\ a.at = "unlink" => Current(a).operation \in {"delete", "move"}

(* What the answer lists against what was done: they differ only between the *)
(* rename or link of a file and its record, and what was done is what the    *)
(* hunks before the one at work demand, and the first half of a move.        *)
HalfDone(a) == \/ a.at \in {"clean_up", "recheck"}
               \/ a.at = "unlink" /\ Current(a).operation = "move"
Half(a) == IF HalfDone(a) THEN {ChangeOf(Current(a))} ELSE {}
Accounted(a) ==
  /\ (a.result = "none") = (a.at # "ended")
  /\ a.at \in {"idle", "prepare", "wait", "verify_all"} => a.changes = {} /\ a.did = {} /\ a.created = {}
  /\ a.at # "clean_up" => a.changes = a.did
  /\ a.at \in CommitSteps \ {"verify_all", "clean_up"} => a.did = Effects(a.patch, a.k - 1) \cup Half(a)
  /\ a.at = "clean_up" => /\ a.changes = Effects(a.patch, a.k - 1)
                          /\ a.did = a.changes \cup {ChangeOf(Current(a))}
  /\ a.result \in {"refused", "failed"} => a.did = {} /\ a.created = {}
  /\ a.result = "applied" => a.did = Effects(a.patch, Len(a.patch))
RecordOK(a) == a \in CallType /\ Prepared(a) /\ Positioned(a) /\ Accounted(a)
RecordsOK == \A c \in Calls : RecordOK(call[c])

FilesOK == /\ stamps \in Nat
           /\ file \in [Paths -> 0..stamps \cup {Absent}]
           /\ dirs \subseteq Dirs
           /\ \A p \in Paths : file[p] # Absent => DirOf[p] \in dirs
           /\ raced \subseteq Paths
           /\ disturbed \subseteq Calls
           /\ call = [c \in Calls |-> call[c]]

(* The queue of the mutex: the calls at wait or at work, each once, and the  *)
(* one at work is its head, so there is at most one.                         *)
MutexOK ==
  /\ mutex \in Seq(Calls)
  /\ \A i, j \in 1..Len(mutex) : mutex[i] = mutex[j] => i = j
  /\ \A i \in 1..Len(mutex) : call[mutex[i]].at \in CommitSteps \cup {"wait"}
  /\ \A c \in Calls : call[c].at \in CommitSteps \cup {"wait"} => \E i \in 1..Len(mutex) : mutex[i] = c
  /\ \A c \in Calls : call[c].at \in CommitSteps => mutex # <<>> /\ mutex[1] = c

(* As long as no editor and no fault came between, what was verified holds:  *)
(* for the hunks before the one at work in the first pass, for those from it *)
(* on in the commit.  The files are a parameter: f is file or file'.         *)
VerifiedAt(f, a, j) == /\ a.patch[j].operation # "add" => f[a.patch[j].path] = a.snapshots[j]
                       /\ Creates(a.patch[j]) => f[a.patch[j].target] = Absent
SourceSame(f, a) == f[Current(a).path] = a.snapshots[a.k]
Calm(f, a) ==
  /\ a.at = "verify_all" => \A j \in 1..(a.k - 1) : VerifiedAt(f, a, j)
  /\ a.at \in {"verify", "parent", "write", "link"} => \A j \in a.k..Len(a.patch) : VerifiedAt(f, a, j)
  /\ a.at \in {"clean_up", "recheck", "unlink"} =>
       /\ \A j \in (a.k + 1)..Len(a.patch) : VerifiedAt(f, a, j)
       /\ Current(a).operation \in {"delete", "move"} => SourceSame(f, a)
CalmOK == \A c \in Calls \ disturbed : Calm(file, call[c])

(* Whatever happened, the file about to be replaced or removed is the one    *)
(* read, unless it was changed outside since it was last compared.           *)
Overwrites(a) == \/ a.at \in {"write", "link"} /\ Current(a).operation = "update"
                 \/ a.at = "unlink"
Fresh(f, r, a) == Overwrites(a) => Current(a).path \in r \/ SourceSame(f, a)
FreshOK == \A c \in Calls : Fresh(file, raced, call[c])

(* Every file about to be written has its directory: one that was read had   *)
(* it then, and one that is created gets it before.                          *)
Housed(d, a) == /\ \A j \in 1..Len(a.snapshots) : a.patch[j].operation # "add" => DirOf[a.patch[j].path] \in d
                /\ a.at \in {"write", "link"} => DirOf[Current(a).target] \in d
HousedOK == \A c \in Calls : Housed(dirs, call[c])

IInv == FilesOK /\ RecordsOK /\ MutexOK /\ HousedOK /\ CalmOK /\ FreshOK /\ PartialOnlyIfDisturbed

-----------------------------------------------------------------------------
(* Hunks and records.                                                        *)

LEMMA HunkTyped ==
  ASSUME NEW patch \in Patches, NEW j \in 1..Len(patch)
  PROVE  /\ patch \in Seq(HunkType) /\ Len(patch) \in Nat \ {0}
         /\ patch[j] \in HunkType
         /\ patch[j].operation \in {"add", "update", "delete", "move"}
         /\ patch[j].path \in Paths /\ patch[j].target \in Paths
         /\ patch[j].operation # "move" => patch[j].target = patch[j].path
<1>1. patch \in Seq(HunkType) /\ patch # <<>>
  BY PatchAssumption
<1>2. Len(patch) \in Nat \ {0} /\ DOMAIN patch = 1..Len(patch)
  BY <1>1, EmptySeq
<1>3. patch[j] \in HunkType
  BY <1>1, <1>2, ElementOfSeq
<1>4. patch[j].operation # "move" => patch[j].target = patch[j].path
  BY <1>2, PatchAssumption
<1> QED BY <1>1, <1>2, <1>3, <1>4 DEF HunkType

LEMMA PatchSize ==
  ASSUME NEW patch \in Patches
  PROVE  patch \in Seq(HunkType) /\ Len(patch) \in Nat \ {0} /\ DOMAIN patch = 1..Len(patch)
<1>1. patch \in Seq(HunkType) /\ patch # <<>>
  BY PatchAssumption
<1> QED BY <1>1, EmptySeq

(* A record given field by field.                                            *)
Fields(b, at, patch, snapshots, k, changes, created, did, result) ==
  /\ b \in CallType
  /\ b.at = at /\ b.patch = patch /\ b.snapshots = snapshots /\ b.k = k
  /\ b.changes = changes /\ b.created = created /\ b.did = did /\ b.result = result

(* The ways in which the engine changes a record.                            *)
LEMMA Moved ==
  ASSUME NEW a \in CallType, NEW s \in Steps
  PROVE  Fields([a EXCEPT !.at = s], s, a.patch, a.snapshots, a.k, a.changes, a.created, a.did, a.result)
BY DEF Fields, CallType

LEMMA Counted ==
  ASSUME NEW a \in CallType, NEW s \in Steps, NEW n \in Nat \ {0}
  PROVE  /\ Fields([a EXCEPT !.at = s, !.k = n],
                   s, a.patch, a.snapshots, n, a.changes, a.created, a.did, a.result)
         /\ Fields([a EXCEPT !.k = n, !.at = s],
                   s, a.patch, a.snapshots, n, a.changes, a.created, a.did, a.result)
         /\ Fields([a EXCEPT !.k = n],
                   a.at, a.patch, a.snapshots, n, a.changes, a.created, a.did, a.result)
<1>1. Fields([a EXCEPT !.at = s, !.k = n],
             s, a.patch, a.snapshots, n, a.changes, a.created, a.did, a.result)
  BY DEF Fields, CallType
<1>2. Fields([a EXCEPT !.k = n, !.at = s],
             s, a.patch, a.snapshots, n, a.changes, a.created, a.did, a.result)
  BY DEF Fields, CallType
<1>3. Fields([a EXCEPT !.k = n],
             a.at, a.patch, a.snapshots, n, a.changes, a.created, a.did, a.result)
  BY DEF Fields, CallType
<1> QED BY <1>1, <1>2, <1>3

LEMMA Ended ==
  ASSUME NEW a \in CallType, NEW r \in Results
  PROVE  Fields([a EXCEPT !.at = "ended", !.result = r],
                "ended", a.patch, a.snapshots, a.k, a.changes, a.created, a.did, r)
<1>1. "ended" \in Steps
  BY DEF Steps
<1> QED BY <1>1 DEF Fields, CallType

LEMMA Read ==
  ASSUME NEW a \in CallType, NEW x \in Nat \cup {Absent}
  PROVE  Fields([a EXCEPT !.snapshots = Append(@, x)],
                a.at, a.patch, Append(a.snapshots, x), a.k, a.changes, a.created, a.did, a.result)
<1>1. PICK v : v = Append(a.snapshots, x)
  OBVIOUS
<1>2. v \in Seq(Nat \cup {Absent})
  BY <1>1, AppendProperties DEF CallType
<1>3. [a EXCEPT !.snapshots = Append(@, x)] = [a EXCEPT !.snapshots = v]
  BY <1>1
<1>4. Fields([a EXCEPT !.snapshots = v],
             a.at, a.patch, v, a.k, a.changes, a.created, a.did, a.result)
  BY <1>2 DEF Fields, CallType
<1> QED BY <1>1, <1>3, <1>4

LEMMA Made ==
  ASSUME NEW a \in CallType, NEW s \in Steps, NEW D \in SUBSET Dirs
  PROVE  Fields([a EXCEPT !.at = s, !.created = @ \cup D],
                s, a.patch, a.snapshots, a.k, a.changes, a.created \cup D, a.did, a.result)
<1>1. PICK v : v = a.created \cup D
  OBVIOUS
<1>2. v \in SUBSET Dirs
  BY <1>1 DEF CallType
<1>3. Fields([a EXCEPT !.at = s, !.created = v],
             s, a.patch, a.snapshots, a.k, a.changes, v, a.did, a.result)
  BY <1>2 DEF Fields, CallType
<1>4. [a EXCEPT !.at = s, !.created = @ \cup D] = [a EXCEPT !.at = s, !.created = v]
  BY <1>1
<1> QED BY <1>1, <1>3, <1>4

LEMMA Wrote ==
  ASSUME NEW a \in CallType, NEW s \in Steps, NEW e \in Effect
  PROVE  /\ Fields([a EXCEPT !.at = s, !.did = @ \cup {e}],
                   s, a.patch, a.snapshots, a.k, a.changes, a.created, a.did \cup {e}, a.result)
         /\ Fields([a EXCEPT !.changes = @ \cup {e}],
                   a.at, a.patch, a.snapshots, a.k, a.changes \cup {e}, a.created, a.did, a.result)
         /\ Fields([a EXCEPT !.changes = @ \cup {e}, !.did = @ \cup {e}],
                   a.at, a.patch, a.snapshots, a.k, a.changes \cup {e}, a.created, a.did \cup {e}, a.result)
<1>1. PICK v : v = a.did \cup {e}
  OBVIOUS
<1>2. PICK w : w = a.changes \cup {e}
  OBVIOUS
<1>3. v \in SUBSET Effect /\ w \in SUBSET Effect
  BY <1>1, <1>2 DEF CallType
<1>4. Fields([a EXCEPT !.at = s, !.did = v],
             s, a.patch, a.snapshots, a.k, a.changes, a.created, v, a.result)
  BY <1>3 DEF Fields, CallType
<1>5. Fields([a EXCEPT !.changes = w],
             a.at, a.patch, a.snapshots, a.k, w, a.created, a.did, a.result)
  BY <1>3 DEF Fields, CallType
<1>6. Fields([a EXCEPT !.changes = w, !.did = v],
             a.at, a.patch, a.snapshots, a.k, w, a.created, v, a.result)
  BY <1>3 DEF Fields, CallType
<1>7. [a EXCEPT !.at = s, !.did = @ \cup {e}] = [a EXCEPT !.at = s, !.did = v]
  BY <1>1
<1>8. [a EXCEPT !.changes = @ \cup {e}] = [a EXCEPT !.changes = w]
  BY <1>2
<1>9. [a EXCEPT !.changes = @ \cup {e}, !.did = @ \cup {e}] = [a EXCEPT !.changes = w, !.did = v]
  BY <1>1, <1>2
<1> QED BY <1>1, <1>2, <1>4, <1>5, <1>6, <1>7, <1>8, <1>9

(* The effects of one more hunk.                                             *)
LEMMA OneMore ==
  ASSUME NEW patch, NEW k \in Nat \ {0}
  PROVE  Effects(patch, k) = Effects(patch, k - 1) \cup EffectOf(patch[k])
<1>1. 1..k = (1..(k - 1)) \cup {k}
  OBVIOUS
<1> QED BY <1>1 DEF Effects

LEMMA NoEffects ==
  ASSUME NEW patch
  PROVE  Effects(patch, 0) = {}
BY DEF Effects

LEMMA ChangeTyped ==
  ASSUME NEW h \in HunkType
  PROVE  ChangeOf(h) \in Effect /\ <<"delete", h.path>> \in Effect
BY DEF ChangeOf, Effect, HunkType

-----------------------------------------------------------------------------
(* The invariant of a record along the steps of a call.                      *)

LEMMA BegunRecord ==
  ASSUME NEW patch \in Patches, NEW b, Fields(b, "prepare", patch, <<>>, 1, {}, {}, {}, "none")
  PROVE  RecordOK(b)
<1>1. Len(patch) \in Nat \ {0}
  BY PatchSize
<1>2. Prepared(b)
  BY DEF Fields, Prepared
<1>3. Positioned(b)
  BY <1>1 DEF Fields, Positioned, CommitSteps
<1>4. Accounted(b)
  BY DEF Fields, Accounted, CommitSteps
<1> QED BY <1>2, <1>3, <1>4 DEF RecordOK, Fields

LEMMA ReadRecord ==
  ASSUME NEW a, RecordOK(a), a.at = "prepare", NEW x,
         Current(a).operation # "add" => x # Absent,
         Current(a).operation = "move" => Current(a).path # Current(a).target,
         \A i \in 1..(a.k - 1) : Touched(a.patch[i]) \cap Touched(Current(a)) = {},
         NEW b,
         \/ b.at = "prepare" /\ a.k < Len(a.patch) /\ b.k = a.k + 1
         \/ b.at = "wait" /\ a.k = Len(a.patch) /\ b.k = 1,
         Fields(b, b.at, a.patch, Append(a.snapshots, x), b.k, a.changes, a.created, a.did, a.result)
  PROVE  RecordOK(b)
<1>1. a.patch \in Patches /\ Len(a.patch) \in Nat \ {0} /\ a.k \in 1..Len(a.patch)
  BY PatchSize DEF RecordOK, Positioned
<1>2. a.snapshots \in Seq(Nat \cup {Absent}) /\ b.snapshots \in Seq(Nat \cup {Absent})
  BY DEF RecordOK, Fields, CallType
<1>3. Len(a.snapshots) = a.k - 1
  BY DEF RecordOK, Positioned
<1>4. /\ Len(b.snapshots) = a.k /\ b.snapshots[a.k] = x
      /\ \A j \in 1..(a.k - 1) : b.snapshots[j] = a.snapshots[j]
  BY <1>1, <1>2, <1>3 DEF Fields
<1>5. Prepared(b)
  <2> SUFFICES ASSUME NEW j \in 1..a.k
               PROVE  /\ a.patch[j].operation # "add" => b.snapshots[j] # Absent
                      /\ a.patch[j].operation = "move" => a.patch[j].path # a.patch[j].target
                      /\ \A i \in 1..(j - 1) : Touched(a.patch[i]) \cap Touched(a.patch[j]) = {}
    BY <1>4 DEF Prepared, Fields
  <2>1. CASE j = a.k
    BY <2>1, <1>4 DEF Current
  <2>2. CASE j # a.k
    <3>1. j \in 1..Len(a.snapshots)
      BY <2>2, <1>1, <1>3
    <3> QED BY <3>1, <1>3, <1>4 DEF RecordOK, Prepared
  <2> QED BY <2>1, <2>2
<1>6. Positioned(b)
  <2>1. b.at \in {"prepare", "wait"} /\ b.k \in 1..Len(a.patch) /\ a.k <= Len(a.patch)
    BY <1>1
  <2>2. /\ b.patch = a.patch /\ Len(b.snapshots) = a.k
        /\ b.at = "prepare" => a.k = b.k - 1
        /\ b.at = "wait" => b.k = 1 /\ a.k = Len(a.patch)
    BY <1>1, <1>4 DEF Fields
  <2> QED BY <2>1, <2>2, <1>1 DEF Positioned, CommitSteps
<1>7. Accounted(b)
  BY DEF Fields, RecordOK, Accounted, CommitSteps
<1> QED BY <1>5, <1>6, <1>7 DEF RecordOK, Fields

(* A step that leaves the hunks, what was read and the books as they are.    *)
Onward(a, b, at, k, created) ==
  Fields(b, at, a.patch, a.snapshots, k, a.changes, created, a.did, a.result)

LEMMA VerifyingRecord ==
  ASSUME NEW a, RecordOK(a), NEW b, Onward(a, b, b.at, b.k, a.created),
         \/ a.at = "wait" /\ b.at = "verify_all" /\ b.k = 1
         \/ a.at = "verify_all" /\ b.at = "verify_all" /\ a.k < Len(a.patch) /\ b.k = a.k + 1
         \/ a.at = "verify_all" /\ b.at = "verify" /\ b.k = 1
  PROVE  RecordOK(b)
<1>1. a.patch \in Patches /\ Len(a.patch) \in Nat \ {0} /\ a.k \in 1..Len(a.patch)
  BY PatchSize DEF RecordOK, Positioned
<1>2. Prepared(b)
  BY DEF RecordOK, Onward, Fields, Prepared
<1>3. Positioned(b)
  <2>1. b.at \in {"verify_all", "verify"} /\ b.k \in 1..Len(a.patch)
    BY <1>1
  <2>2. Len(a.snapshots) = Len(a.patch)
    BY DEF RecordOK, Positioned, CommitSteps
  <2>3. b.patch = a.patch /\ b.snapshots = a.snapshots
    BY DEF Onward, Fields
  <2> QED BY <2>1, <2>2, <2>3, <1>1 DEF Positioned, CommitSteps
<1>4. b.k = 1 => Effects(a.patch, b.k - 1) = {}
  <2>1. b.k = 1 => b.k - 1 = 0
    OBVIOUS
  <2> QED BY <2>1, NoEffects
<1>5. a.changes = {} /\ a.did = {} /\ a.created = {} /\ a.result = "none"
  BY DEF RecordOK, Accounted, CommitSteps
<1>6. b.at = "verify" => Half(b) = {} /\ Effects(b.patch, b.k - 1) = {}
  BY <1>4 DEF Half, HalfDone, Onward, Fields
<1>7. Accounted(b)
  BY <1>5, <1>6 DEF Onward, Fields, Accounted, CommitSteps
<1> QED BY <1>2, <1>3, <1>7 DEF RecordOK, Onward, Fields

(* From one step of the hunk at work to the next.                            *)
LEMMA WorkingRecord ==
  ASSUME NEW a, RecordOK(a), NEW b, Onward(a, b, b.at, a.k, b.created),
         \/ a.at = "verify" /\ b.at = FirstStep(Current(a))
         \/ a.at = "parent" /\ b.at = "write"
         \/ a.at = "write" /\ b.at = "link"
         \/ a.at = "recheck" /\ b.at = "unlink"
  PROVE  RecordOK(b)
<1>1. a.patch \in Patches /\ Len(a.patch) \in Nat \ {0} /\ a.k \in 1..Len(a.patch)
  BY PatchSize DEF RecordOK, Positioned
<1>2. Current(a).operation \in {"add", "update", "delete", "move"}
  BY <1>1, HunkTyped DEF Current
<1>3. Current(b) = Current(a) /\ b.k = a.k /\ b.patch = a.patch
  BY DEF Onward, Fields, Current
<1>4. Prepared(b)
  BY DEF RecordOK, Onward, Fields, Prepared
<1>5. /\ b.at = "parent" => Creates(Current(a))
      /\ b.at \in {"write", "link", "clean_up"} => Current(a).operation # "delete"
      /\ b.at = "unlink" => Current(a).operation \in {"delete", "move"}
      /\ b.at \in {"parent", "write", "link", "unlink"}
  BY <1>2 DEF RecordOK, Positioned, FirstStep, Creates
<1>6. Positioned(b)
  BY <1>1, <1>3, <1>5 DEF RecordOK, Onward, Fields, Positioned, CommitSteps
<1>7. Half(b) = Half(a)
  BY <1>2, <1>3, <1>5 DEF RecordOK, Positioned, Half, HalfDone, FirstStep
<1>8. Accounted(b)
  <2>1. a.did = Effects(a.patch, a.k - 1) \cup Half(a) /\ a.changes = a.did /\ a.result = "none"
    BY DEF RecordOK, Accounted, CommitSteps
  <2> QED BY <2>1, <1>3, <1>5, <1>7 DEF Onward, Fields, Accounted, CommitSteps
<1> QED BY <1>4, <1>6, <1>8 DEF RecordOK, Onward, Fields

LEMMA LinkedRecord ==
  ASSUME NEW a, RecordOK(a), NEW b, a.at = "link",
         Fields(b, "clean_up", a.patch, a.snapshots, a.k, a.changes, a.created,
                a.did \cup {ChangeOf(Current(a))}, a.result)
  PROVE  RecordOK(b)
<1>1. a.patch \in Patches /\ Len(a.patch) \in Nat \ {0} /\ a.k \in 1..Len(a.patch)
  BY PatchSize DEF RecordOK, Positioned
<1>2. Current(b) = Current(a) /\ b.k = a.k /\ b.patch = a.patch
  BY DEF Fields, Current
<1>3. Prepared(b)
  BY DEF RecordOK, Fields, Prepared
<1>4. Positioned(b)
  BY <1>1, <1>2 DEF RecordOK, Fields, Positioned, CommitSteps
<1>5. a.did = Effects(a.patch, a.k - 1) /\ a.changes = a.did /\ a.result = "none"
  BY DEF RecordOK, Accounted, CommitSteps, Half, HalfDone
<1>6. Accounted(b)
  BY <1>5, <1>2 DEF Fields, Accounted, CommitSteps
<1> QED BY <1>3, <1>4, <1>6 DEF RecordOK, Fields

LEMMA CopiedRecord ==
  ASSUME NEW a, RecordOK(a), NEW b, a.at = "clean_up", Current(a).operation = "move",
         Fields(b, "recheck", a.patch, a.snapshots, a.k, a.changes \cup {ChangeOf(Current(a))},
                a.created, a.did, a.result)
  PROVE  RecordOK(b)
<1>1. a.patch \in Patches /\ Len(a.patch) \in Nat \ {0} /\ a.k \in 1..Len(a.patch)
  BY PatchSize DEF RecordOK, Positioned
<1>2. Current(b) = Current(a) /\ b.k = a.k /\ b.patch = a.patch
  BY DEF Fields, Current
<1>3. Prepared(b)
  BY DEF RecordOK, Fields, Prepared
<1>4. Positioned(b)
  BY <1>1, <1>2 DEF RecordOK, Fields, Positioned, CommitSteps
<1>5. a.changes = Effects(a.patch, a.k - 1) /\ a.did = a.changes \cup {ChangeOf(Current(a))} /\ a.result = "none"
  BY DEF RecordOK, Accounted, CommitSteps
<1>6. Half(b) = {ChangeOf(Current(a))}
  BY <1>2 DEF Half, HalfDone, Fields
<1>7. Accounted(b)
  BY <1>5, <1>6, <1>2 DEF Fields, Accounted, CommitSteps
<1> QED BY <1>3, <1>4, <1>7 DEF RecordOK, Fields

(* A hunk is complete: the next one, or the end.                             *)
LEMMA DoneRecord ==
  ASSUME NEW a, RecordOK(a), NEW b, a.at \in CommitSteps,
         \/ a.k < Len(a.patch) /\ b.at = "verify" /\ b.k = a.k + 1 /\ b.result = a.result
         \/ a.k = Len(a.patch) /\ b.at = "ended" /\ b.k = a.k /\ b.result = "applied",
         Fields(b, b.at, a.patch, a.snapshots, b.k, Effects(a.patch, a.k), a.created, Effects(a.patch, a.k), b.result)
  PROVE  RecordOK(b)
<1>1. a.patch \in Patches /\ Len(a.patch) \in Nat \ {0} /\ a.k \in 1..Len(a.patch)
  BY PatchSize DEF RecordOK, Positioned, CommitSteps
<1>2. Prepared(b)
  BY DEF RecordOK, Fields, Prepared
<1>3. Positioned(b)
  <2>1. b.at \in {"verify", "ended"} /\ b.k \in 1..Len(a.patch)
    BY <1>1
  <2>2. Len(a.snapshots) = Len(a.patch)
    BY DEF RecordOK, Positioned, CommitSteps
  <2>3. b.patch = a.patch /\ b.snapshots = a.snapshots
    BY DEF Fields
  <2> QED BY <2>1, <2>2, <2>3, <1>1 DEF Positioned, CommitSteps
<1>4. a.result = "none"
  BY DEF RecordOK, Accounted, CommitSteps
<1>5. b.at = "verify" => Half(b) = {} /\ b.k - 1 = a.k
  BY <1>1 DEF Half, HalfDone, Fields
<1>6. Accounted(b)
  BY <1>1, <1>4, <1>5 DEF Fields, Accounted, CommitSteps
<1> QED BY <1>2, <1>3, <1>6 DEF RecordOK, Fields

LEMMA EndedRecord ==
  ASSUME NEW a, RecordOK(a), NEW b, a.at \in (CommitSteps \ {"clean_up"}) \cup {"prepare"},
         NEW result \in {"refused", "failed", "partial"}, result # "partial" => ~Partial(a),
         Fields(b, "ended", a.patch, a.snapshots, a.k, a.changes, a.created, a.did, result)
  PROVE  RecordOK(b)
<1>1. a.patch \in Patches /\ Len(a.patch) \in Nat \ {0} /\ a.k \in 1..Len(a.patch)
  BY PatchSize DEF RecordOK, Positioned, CommitSteps
<1>2. Prepared(b)
  BY DEF RecordOK, Fields, Prepared
<1>3. Positioned(b)
  BY <1>1 DEF RecordOK, Fields, Positioned, CommitSteps
<1>4. a.changes = a.did
  BY DEF RecordOK, Accounted, CommitSteps
<1>5. Accounted(b)
  BY <1>4 DEF Fields, Accounted, CommitSteps, Partial
<1> QED BY <1>2, <1>3, <1>5 DEF RecordOK, Fields

-----------------------------------------------------------------------------
(* What was verified stays verified: the hunks of a patch do not touch each  *)
(* other's files.                                                            *)
FileType == [Paths -> Nat \cup {Absent}]

LEMMA HunkAtWork ==
  ASSUME NEW a, RecordOK(a), a.at \in CommitSteps
  PROVE  /\ a.patch \in Patches /\ Len(a.patch) \in Nat \ {0} /\ a.k \in 1..Len(a.patch)
         /\ Current(a) \in HunkType
         /\ Current(a).operation \in {"add", "update", "delete", "move"}
         /\ Current(a).path \in Paths /\ Current(a).target \in Paths
         /\ Current(a).operation # "move" => Current(a).target = Current(a).path
         /\ Current(a).operation = "move" => Current(a).target # Current(a).path
         /\ Len(a.snapshots) = Len(a.patch)
<1>1. a.patch \in Patches /\ a.k \in 1..Len(a.patch) /\ Len(a.snapshots) = Len(a.patch)
  BY DEF RecordOK, Positioned, CommitSteps
<1>2. a.patch[a.k].operation = "move" => a.patch[a.k].path # a.patch[a.k].target
  BY <1>1 DEF RecordOK, Prepared
<1> QED BY <1>1, <1>2, PatchSize, HunkTyped DEF Current

LEMMA OtherHunks ==
  ASSUME NEW a, RecordOK(a), a.at \in CommitSteps, NEW f \in FileType,
         NEW p \in Touched(Current(a)), NEW x, NEW j \in (a.k + 1)..Len(a.patch), VerifiedAt(f, a, j)
  PROVE  VerifiedAt([f EXCEPT ![p] = x], a, j)
<1>1. a.patch \in Patches /\ Len(a.patch) \in Nat /\ a.k \in 1..Len(a.patch) /\ Len(a.snapshots) = Len(a.patch)
  BY HunkAtWork
<1>2. j \in 1..Len(a.patch) /\ a.k \in 1..(j - 1) /\ j \in 1..Len(a.snapshots)
  BY <1>1
<1>3. Touched(a.patch[a.k]) \cap Touched(a.patch[j]) = {}
  BY <1>2 DEF RecordOK, Prepared
<1>4. a.patch[j].path # p /\ a.patch[j].target # p
  BY <1>3 DEF Touched, Current
<1>5. a.patch[j].path \in Paths /\ a.patch[j].target \in Paths
  BY <1>1, <1>2, HunkTyped
<1>6. /\ [f EXCEPT ![p] = x][a.patch[j].path] = f[a.patch[j].path]
      /\ [f EXCEPT ![p] = x][a.patch[j].target] = f[a.patch[j].target]
  BY <1>4, <1>5 DEF FileType
<1> QED BY <1>6 DEF VerifiedAt

LEMMA CalmElsewhere ==
  ASSUME NEW b, b.at \notin CommitSteps, NEW f, NEW r
  PROVE  Calm(f, b) /\ Fresh(f, r, b)
BY DEF Calm, Fresh, Overwrites, CommitSteps

LEMMA CalmVerify ==
  ASSUME NEW f, NEW a, NEW b, Onward(a, b, b.at, b.k, b.created), RecordOK(a), Calm(f, a),
         \/ b.at = "verify_all" /\ b.k = 1
         \/ /\ a.at = "verify_all" /\ VerifiedAt(f, a, a.k)
            /\ \/ b.at = "verify_all" /\ b.k = a.k + 1
               \/ b.at = "verify" /\ a.k = Len(a.patch) /\ b.k = 1
  PROVE  Calm(f, b)
<1>1. b.patch = a.patch /\ b.snapshots = a.snapshots
  BY DEF Onward, Fields
<1>2. CASE b.at = "verify_all" /\ b.k = 1
  BY <1>2 DEF Calm
<1>3. CASE a.at = "verify_all" /\ VerifiedAt(f, a, a.k)
  <2>1. a.k \in 1..Len(a.patch) /\ Len(a.patch) \in Nat
    BY <1>3, HunkAtWork DEF CommitSteps
  <2>2. \A j \in 1..a.k : VerifiedAt(f, a, j)
    BY <1>3, <2>1 DEF Calm
  <2>3. \A j \in 1..a.k : VerifiedAt(f, b, j)
    BY <2>2, <1>1 DEF VerifiedAt
  <2>4. CASE b.at = "verify_all" /\ b.k = a.k + 1
    BY <2>1, <2>3, <2>4 DEF Calm
  <2>5. CASE b.at = "verify" /\ a.k = Len(a.patch) /\ b.k = 1
    BY <2>1, <2>3, <2>5, <1>1 DEF Calm
  <2>6. CASE b.at = "verify_all" /\ b.k = 1
    BY <2>6, <1>2
  <2> QED BY <2>4, <2>5, <2>6
<1> QED BY <1>2, <1>3

LEMMA CalmWork ==
  ASSUME NEW f, NEW a, NEW b, b.patch = a.patch, b.snapshots = a.snapshots, b.k = a.k,
         RecordOK(a), Calm(f, a),
         \/ a.at = "verify" /\ b.at = FirstStep(Current(a))
         \/ a.at = "parent" /\ b.at = "write"
         \/ a.at = "write" /\ b.at = "link"
         \/ a.at = "clean_up" /\ b.at = "recheck"
         \/ a.at = "recheck" /\ b.at = "unlink"
  PROVE  Calm(f, b)
<1> DEFINE early == {"verify", "parent", "write", "link"}
           late == {"clean_up", "recheck", "unlink"}
<1>1. a.at \in CommitSteps /\ a.at \in early \cup late
  BY DEF CommitSteps
<1>2. a.k \in 1..Len(a.patch) /\ Len(a.patch) \in Nat /\ Current(a).operation \in {"add", "update", "delete", "move"}
  BY <1>1, HunkAtWork
<1>3. Current(b) = Current(a)
  BY DEF Current
<1>4. \A j : VerifiedAt(f, b, j) = VerifiedAt(f, a, j)
  BY DEF VerifiedAt
<1>5. CASE a.at \in early /\ b.at \in early
  BY <1>5, <1>4 DEF Calm
<1>6. CASE a.at \in late /\ b.at \in late
  BY <1>6, <1>4, <1>3 DEF Calm, SourceSame
<1>7. CASE a.at = "verify" /\ b.at = "unlink" /\ Current(a).operation = "delete"
  <2>1. \A j \in a.k..Len(a.patch) : VerifiedAt(f, a, j)
    BY <1>7 DEF Calm
  <2>2. VerifiedAt(f, a, a.k) /\ \A j \in (a.k + 1)..Len(a.patch) : VerifiedAt(f, a, j)
    BY <2>1, <1>2
  <2>3. SourceSame(f, a)
    BY <2>2, <1>7 DEF VerifiedAt, SourceSame, Current
  <2> QED BY <2>2, <2>3, <1>3, <1>4, <1>7 DEF Calm, SourceSame
<1>8. \/ a.at \in early /\ b.at \in early
      \/ a.at \in late /\ b.at \in late
      \/ a.at = "verify" /\ b.at = "unlink" /\ Current(a).operation = "delete"
  BY <1>2 DEF FirstStep
<1> QED BY <1>5, <1>6, <1>7, <1>8

LEMMA CalmLink ==
  ASSUME NEW f \in FileType, NEW a, NEW b, b.patch = a.patch, b.snapshots = a.snapshots, b.k = a.k,
         RecordOK(a), Calm(f, a), a.at = "link", b.at = "clean_up", NEW x
  PROVE  Calm([f EXCEPT ![Current(a).target] = x], b)
<1> DEFINE g == [f EXCEPT ![Current(a).target] = x]
<1>1. a.at \in CommitSteps
  BY DEF CommitSteps
<1>2. /\ a.k \in 1..Len(a.patch) /\ Len(a.patch) \in Nat
      /\ Current(a).path \in Paths
      /\ Current(a).operation = "move" => Current(a).target # Current(a).path
      /\ Current(a).operation # "delete"
  BY <1>1, HunkAtWork DEF RecordOK, Positioned
<1>3. Current(b) = Current(a) /\ Current(a).target \in Touched(Current(a))
  BY DEF Current, Touched
<1>4. \A j \in a.k..Len(a.patch) : VerifiedAt(f, a, j)
  BY DEF Calm
<1>5. \A j \in (a.k + 1)..Len(a.patch) : VerifiedAt(g, a, j)
  <2> HIDE DEF g
  <2> SUFFICES ASSUME NEW j \in (a.k + 1)..Len(a.patch) PROVE VerifiedAt(g, a, j)
    OBVIOUS
  <2>1. VerifiedAt(f, a, j)
    BY <1>2, <1>4
  <2> QED BY <1>1, <1>3, <2>1, OtherHunks DEF g
<1>6. \A j \in (b.k + 1)..Len(b.patch) : VerifiedAt(g, b, j)
  BY <1>5 DEF VerifiedAt
<1>7. Current(a).operation = "move" => SourceSame(g, b)
  <2> SUFFICES ASSUME Current(a).operation = "move" PROVE SourceSame(g, b)
    OBVIOUS
  <2>1. VerifiedAt(f, a, a.k)
    BY <1>2, <1>4
  <2>2. f[Current(a).path] = a.snapshots[a.k]
    BY <2>1 DEF VerifiedAt, Current
  <2>3. g[Current(a).path] = f[Current(a).path]
    BY <1>2 DEF FileType
  <2> QED BY <2>2, <2>3, <1>3 DEF SourceSame
<1> HIDE DEF g
<1>8. Calm(g, b)
  BY <1>2, <1>3, <1>6, <1>7 DEF Calm
<1> QED BY <1>8 DEF g

(* The next hunk, after a write that is recorded or after an unlink.         *)
LEMMA CalmDone ==
  ASSUME NEW f \in FileType, NEW a, NEW b, b.patch = a.patch, b.snapshots = a.snapshots, b.k = a.k + 1,
         RecordOK(a), Calm(f, a), a.at \in {"clean_up", "unlink"}, b.at = "verify", NEW x
  PROVE  Calm(f, b) /\ Calm([f EXCEPT ![Current(a).path] = x], b)
<1> DEFINE g == [f EXCEPT ![Current(a).path] = x]
<1>1. a.at \in CommitSteps
  BY DEF CommitSteps
<1>2. Current(a).path \in Touched(Current(a))
  BY DEF Touched
<1>3. \A j \in (a.k + 1)..Len(a.patch) : VerifiedAt(f, a, j)
  BY DEF Calm
<1>4. \A j \in (a.k + 1)..Len(a.patch) : VerifiedAt(g, a, j)
  BY <1>1, <1>2, <1>3, OtherHunks
<1>5. \A j \in b.k..Len(b.patch) : VerifiedAt(f, b, j) /\ VerifiedAt(g, b, j)
  <2> HIDE DEF g
  <2> QED BY <1>3, <1>4 DEF VerifiedAt
<1> HIDE DEF g
<1>6. Calm(f, b) /\ Calm(g, b)
  BY <1>5 DEF Calm
<1> QED BY <1>6 DEF g

-----------------------------------------------------------------------------
(* The invariant along the steps of the engine.                              *)

LEMMA Alone ==
  ASSUME IInv, NEW c \in Calls, call[c].at \in CommitSteps, NEW d \in Calls, d # c
  PROVE  call[d].at \notin CommitSteps
BY DEF IInv, MutexOK

(* What one call's step needs: its own record, what is calm and fresh for    *)
(* it, and that it changes files only if it is the one at work.              *)
LEMMA OneStep ==
  ASSUME IInv, NEW c \in Calls, NEW b, call' = [call EXCEPT ![c] = b],
         RecordOK(b), Housed(dirs', b), dirs \subseteq dirs',
         c \notin disturbed' => Calm(file', b),
         Fresh(file', raced', b),
         b.result = "partial" => c \in disturbed',
         disturbed \subseteq disturbed',
         call[c].at \notin CommitSteps => file' = file /\ raced' = raced
  PROVE  /\ call' = [d \in Calls |-> call'[d]]
         /\ RecordsOK' /\ HousedOK' /\ CalmOK' /\ FreshOK' /\ PartialOnlyIfDisturbed'
<1>1. call = [d \in Calls |-> call[d]]
  BY DEF IInv, FilesOK
<1>2. call'[c] = b /\ \A d \in Calls : d # c => call'[d] = call[d]
  BY <1>1
<1>3. call' = [d \in Calls |-> call'[d]]
  BY <1>1
<1>4. RecordsOK'
  BY <1>2 DEF IInv, RecordsOK
<1>5. \A d \in Calls : d # c => \/ call[d].at \notin CommitSteps
                                \/ file' = file /\ raced' = raced
  BY Alone
<1>6. CalmOK'
  <2> SUFFICES ASSUME NEW d \in Calls, d \notin disturbed' PROVE Calm(file', call'[d])
    BY DEF CalmOK
  <2>1. CASE d = c
    BY <2>1, <1>2
  <2>2. CASE d # c
    <3>1. Calm(file, call[d])
      BY DEF IInv, CalmOK
    <3> QED BY <2>2, <3>1, <1>2, <1>5, CalmElsewhere
  <2> QED BY <2>1, <2>2
<1>7. FreshOK'
  <2> SUFFICES ASSUME NEW d \in Calls PROVE Fresh(file', raced', call'[d])
    BY DEF FreshOK
  <2>1. CASE d = c
    BY <2>1, <1>2
  <2>2. CASE d # c
    <3>1. Fresh(file, raced, call[d])
      BY DEF IInv, FreshOK
    <3> QED BY <2>2, <3>1, <1>2, <1>5, CalmElsewhere
  <2> QED BY <2>1, <2>2
<1>8. PartialOnlyIfDisturbed'
  BY <1>2 DEF IInv, PartialOnlyIfDisturbed
<1>9. HousedOK'
  <2>1. \A d \in Calls : Housed(dirs, call[d])
    BY DEF IInv, HousedOK
  <2>2. \A d \in Calls : d # c => Housed(dirs', call[d])
    BY <2>1 DEF Housed
  <2> QED BY <1>2, <2>2 DEF HousedOK
<1> QED BY <1>3, <1>4, <1>6, <1>7, <1>8, <1>9

LEMMA HousedStays ==
  ASSUME IInv, NEW c \in Calls, NEW b, b.patch = call[c].patch, b.snapshots = call[c].snapshots,
         b.at \in {"write", "link"} => DirOf[Current(b).target] \in dirs',
         dirs \subseteq dirs'
  PROVE  Housed(dirs', b)
<1>1. Housed(dirs, call[c])
  BY DEF IInv, HousedOK
<1> QED BY <1>1 DEF Housed

Queued == CommitSteps \cup {"wait"}

LEMMA MutexSame ==
  ASSUME IInv, NEW c \in Calls, NEW b, call' = [call EXCEPT ![c] = b], mutex' = mutex,
         (call[c].at \in Queued) = (b.at \in Queued),
         b.at \in CommitSteps => call[c].at \in CommitSteps \/ Holds(c)
  PROVE  MutexOK'
<1>1. call = [d \in Calls |-> call[d]]
  BY DEF IInv, FilesOK
<1>2. call'[c] = b /\ \A d \in Calls : d # c => call'[d] = call[d]
  BY <1>1
<1>3. mutex \in Seq(Calls) /\ \A i \in 1..Len(mutex) : mutex[i] \in Calls
  BY DEF IInv, MutexOK
<1>4. b.at \in CommitSteps => mutex # <<>> /\ mutex[1] = c
  BY <1>3 DEF IInv, MutexOK, Holds
<1> QED BY <1>2, <1>3, <1>4 DEF IInv, MutexOK, Queued

LEMMA MutexJoin ==
  ASSUME IInv, NEW c \in Calls, NEW b, call' = [call EXCEPT ![c] = b], mutex' = Append(mutex, c),
         call[c].at = "prepare", b.at = "wait"
  PROVE  MutexOK'
<1>1. call = [d \in Calls |-> call[d]]
  BY DEF IInv, FilesOK
<1>2. call'[c] = b /\ \A d \in Calls : d # c => call'[d] = call[d]
  BY <1>1
<1>3. /\ mutex \in Seq(Calls) /\ Len(mutex) \in Nat
      /\ \A i \in 1..Len(mutex) : mutex[i] \in Calls /\ mutex[i] # c
  BY DEF IInv, MutexOK, CommitSteps
<1>4. /\ mutex' \in Seq(Calls) /\ Len(mutex') = Len(mutex) + 1
      /\ mutex'[Len(mutex) + 1] = c
      /\ \A i \in 1..Len(mutex) : mutex'[i] = mutex[i]
  BY <1>3
<1>5. \A i, j \in 1..Len(mutex') : mutex'[i] = mutex'[j] => i = j
  BY <1>3, <1>4 DEF IInv, MutexOK
<1>6. \A i \in 1..Len(mutex') : call'[mutex'[i]].at \in CommitSteps \cup {"wait"}
  BY <1>2, <1>3, <1>4 DEF IInv, MutexOK
<1>7. \A d \in Calls : call'[d].at \in CommitSteps \cup {"wait"} => \E i \in 1..Len(mutex') : mutex'[i] = d
  <2> SUFFICES ASSUME NEW d \in Calls, call'[d].at \in CommitSteps \cup {"wait"}
               PROVE  \E i \in 1..Len(mutex') : mutex'[i] = d
    OBVIOUS
  <2>1. CASE d = c
    BY <2>1, <1>3, <1>4
  <2>2. CASE d # c
    <3>1. PICK i \in 1..Len(mutex) : mutex[i] = d
      BY <2>2, <1>2 DEF IInv, MutexOK
    <3> QED BY <3>1, <1>3, <1>4
  <2> QED BY <2>1, <2>2
<1>8. \A d \in Calls : call'[d].at \in CommitSteps => mutex' # <<>> /\ mutex'[1] = d
  <2> SUFFICES ASSUME NEW d \in Calls, call'[d].at \in CommitSteps PROVE mutex' # <<>> /\ mutex'[1] = d
    OBVIOUS
  <2>1. d # c
    BY <1>2 DEF CommitSteps
  <2>2. mutex # <<>> /\ mutex[1] = d
    BY <2>1, <1>2 DEF IInv, MutexOK
  <2>3. 1 \in 1..Len(mutex)
    BY <2>2, <1>3, EmptySeq
  <2> QED BY <2>2, <2>3, <1>3, <1>4
<1> QED BY <1>4, <1>5, <1>6, <1>7, <1>8 DEF MutexOK

LEMMA MutexLeave ==
  ASSUME IInv, NEW c \in Calls, NEW b, call' = [call EXCEPT ![c] = b], mutex' = Tail(mutex),
         call[c].at \in CommitSteps, b.at = "ended"
  PROVE  MutexOK'
<1>1. call = [d \in Calls |-> call[d]]
  BY DEF IInv, FilesOK
<1>2. call'[c] = b /\ \A d \in Calls : d # c => call'[d] = call[d]
  BY <1>1
<1>3. /\ mutex \in Seq(Calls) /\ Len(mutex) \in Nat \ {0} /\ mutex # <<>>
      /\ mutex[1] = c
      /\ \A i \in 1..Len(mutex) : mutex[i] \in Calls
  BY EmptySeq DEF IInv, MutexOK
<1>4. /\ mutex' \in Seq(Calls) /\ Len(mutex') = Len(mutex) - 1
      /\ \A i \in 1..Len(mutex') : mutex'[i] = mutex[i + 1] /\ i + 1 \in 1..Len(mutex)
  BY <1>3, HeadTailProperties
<1>5. \A i \in 1..Len(mutex') : mutex'[i] \in Calls \ {c}
  BY <1>3, <1>4 DEF IInv, MutexOK
<1>6. \A i, j \in 1..Len(mutex') : mutex'[i] = mutex'[j] => i = j
  <2> SUFFICES ASSUME NEW i \in 1..Len(mutex'), NEW j \in 1..Len(mutex'), mutex'[i] = mutex'[j]
               PROVE  i = j
    OBVIOUS
  <2>1. mutex[i + 1] = mutex[j + 1] /\ i + 1 \in 1..Len(mutex) /\ j + 1 \in 1..Len(mutex)
    BY <1>4
  <2>2. i + 1 = j + 1
    BY <2>1 DEF IInv, MutexOK
  <2> QED BY <2>2, <1>3, <1>4
<1>7. \A i \in 1..Len(mutex') : call'[mutex'[i]].at \in CommitSteps \cup {"wait"}
  BY <1>2, <1>4, <1>5 DEF IInv, MutexOK
<1>8. \A d \in Calls : call'[d].at \in CommitSteps \cup {"wait"} => \E i \in 1..Len(mutex') : mutex'[i] = d
  <2> SUFFICES ASSUME NEW d \in Calls, call'[d].at \in CommitSteps \cup {"wait"}
               PROVE  \E i \in 1..Len(mutex') : mutex'[i] = d
    OBVIOUS
  <2>1. d # c
    BY <1>2 DEF CommitSteps
  <2>2. PICK i \in 1..Len(mutex) : mutex[i] = d
    BY <2>1, <1>2 DEF IInv, MutexOK
  <2>3. i # 1
    BY <2>1, <2>2, <1>3
  <2>4. i - 1 \in 1..Len(mutex') /\ (i - 1) + 1 = i
    BY <2>3, <1>3, <1>4
  <2>5. mutex'[i - 1] = d
    BY <2>2, <2>4, <1>4
  <2> QED BY <2>4, <2>5
<1>9. \A d \in Calls : call'[d].at \in CommitSteps => mutex' # <<>> /\ mutex'[1] = d
  BY <1>2, Alone DEF CommitSteps
<1> QED BY <1>4, <1>6, <1>7, <1>8, <1>9 DEF MutexOK

-----------------------------------------------------------------------------
(* The ends of a commit that several steps share.                            *)

LEMMA FailStays ==
  ASSUME IInv, NEW c \in Calls, call[c].at \in CommitSteps \ {"clean_up"}, Fail(c, call[c]),
         UNCHANGED disk, raced' = raced, disturbed' \in {disturbed, disturbed \cup {c}},
         Partial(call[c]) => c \in disturbed'
  PROVE  IInv'
<1>1. PICK r : r = IF Partial(call[c]) THEN "partial" ELSE "failed"
  OBVIOUS
<1>2. PICK b : b = [call[c] EXCEPT !.at = "ended", !.result = r]
  OBVIOUS
<1>3. call' = [call EXCEPT ![c] = b] /\ mutex' = Tail(mutex)
  BY <1>1, <1>2 DEF Fail, Set, Unlocked
<1>4. r \in Results /\ r \in {"refused", "failed", "partial"} /\ (r # "partial" => ~Partial(call[c]))
  BY <1>1 DEF Results
<1>5. RecordOK(call[c]) /\ call[c] \in CallType
  BY DEF IInv, RecordsOK, RecordOK
<1>6. Fields(b, "ended", call[c].patch, call[c].snapshots, call[c].k, call[c].changes,
             call[c].created, call[c].did, r)
  BY <1>2, <1>4, <1>5, Ended
<1>7. b.at = "ended" /\ b.result = r
  BY <1>6 DEF Fields
<1>8. RecordOK(b)
  BY <1>4, <1>5, <1>6, EndedRecord
<1>9. b.at \notin CommitSteps
  BY <1>7 DEF CommitSteps
<1>10. Calm(file', b) /\ Fresh(file', raced', b)
  BY <1>9, CalmElsewhere
<1>11. MutexOK'
  BY <1>3, <1>7, MutexLeave
<1>12. b.result = "partial" => c \in disturbed'
  BY <1>1, <1>7
<1>13. disturbed \subseteq disturbed' /\ file' = file
  BY DEF disk
<1>16. Housed(dirs', b) /\ dirs \subseteq dirs'
  BY <1>6, <1>7, HousedStays DEF Fields, disk
<1>14. /\ call' = [d \in Calls |-> call'[d]]
       /\ RecordsOK' /\ HousedOK' /\ CalmOK' /\ FreshOK' /\ PartialOnlyIfDisturbed'
  BY <1>3, <1>8, <1>10, <1>12, <1>13, <1>16, OneStep
<1>15. FilesOK'
  BY <1>14 DEF IInv, FilesOK, disk
<1> QED BY <1>11, <1>14, <1>15 DEF IInv

LEMMA ProceedStays ==
  ASSUME IInv, NEW c \in Calls, call[c].at \in {"clean_up", "unlink"},
         NEW a, Fields(a, call[c].at, call[c].patch, call[c].snapshots, call[c].k,
                       Effects(call[c].patch, call[c].k), call[c].created,
                       Effects(call[c].patch, call[c].k), call[c].result),
         Proceed(c, a),
         file' \in {file, [file EXCEPT ![Hunk(c).path] = Absent]}, UNCHANGED <<dirs, stamps, raced>>,
         disturbed' \in {disturbed, disturbed \cup {c}}
  PROVE  IInv'
<1>1. RecordOK(call[c]) /\ call[c].at \in CommitSteps
  BY DEF IInv, RecordsOK, CommitSteps
<1>2. /\ call[c].k \in 1..Len(call[c].patch) /\ Len(call[c].patch) \in Nat
      /\ Current(call[c]).path \in Paths
  BY <1>1, HunkAtWork
<1>3. Hunk(c) = Current(call[c])
  BY DEF Hunk, Current
<1>4. file \in FileType /\ file' \in [Paths -> 0..stamps \cup {Absent}]
  <2>1. file \in [Paths -> 0..stamps \cup {Absent}] /\ stamps \in Nat
    BY DEF IInv, FilesOK
  <2> QED BY <2>1 DEF FileType
<1>5. a \in CallType /\ a.k = call[c].k /\ a.result = call[c].result
  BY DEF Fields
<1>6. PICK b : b = IF MoreHunks(c) THEN [a EXCEPT !.at = "verify", !.k = @ + 1]
                                   ELSE [a EXCEPT !.at = "ended", !.result = "applied"]
  OBVIOUS
<1>7. call' = [call EXCEPT ![c] = b] /\ mutex' = IF MoreHunks(c) THEN mutex ELSE Tail(mutex)
  BY <1>6 DEF Proceed, Set, Unlocked
<1>8. call[c].result = "none"
  BY <1>1 DEF RecordOK, Accounted, CommitSteps
<1> DEFINE more == MoreHunks(c)
           done == Effects(call[c].patch, call[c].k)
<1>9. CASE more
  <2>1. call[c].k < Len(call[c].patch)
    BY <1>9 DEF MoreHunks
  <2>2. "verify" \in Steps /\ call[c].k + 1 \in Nat \ {0}
    BY <1>2 DEF Steps
  <2>3. b = [a EXCEPT !.at = "verify", !.k = call[c].k + 1]
    BY <1>5, <1>6, <1>9
  <2>4. Fields(b, "verify", a.patch, a.snapshots, call[c].k + 1, a.changes, a.created, a.did, a.result)
    BY <1>5, <2>2, <2>3, Counted
  <2>5. Fields(b, "verify", call[c].patch, call[c].snapshots, call[c].k + 1, done, call[c].created, done, call[c].result)
    BY <2>4 DEF Fields
  <2>6. b.at = "verify" /\ b.k = call[c].k + 1 /\ b.result = call[c].result
        /\ b.patch = call[c].patch /\ b.snapshots = call[c].snapshots
    BY <2>5 DEF Fields
  <2>7. RecordOK(b)
    BY <1>1, <2>1, <2>5, <2>6, DoneRecord
  <2>8. c \notin disturbed' => Calm(file', b)
    <3>1. SUFFICES ASSUME c \notin disturbed PROVE Calm(file', b)
      OBVIOUS
    <3>2. Calm(file, call[c])
      BY <3>1 DEF IInv, CalmOK
    <3>3. Calm(file, b) /\ Calm([file EXCEPT ![Current(call[c]).path] = Absent], b)
      BY <3>2, <1>1, <1>4, <2>6, CalmDone
    <3> QED BY <3>3, <1>3
  <2>9. Fresh(file', raced', b)
    BY <2>6 DEF Fresh, Overwrites
  <2>10. MutexOK'
    <3>1. mutex' = mutex /\ (call[c].at \in Queued) = (b.at \in Queued)
      BY <1>1, <1>7, <1>9, <2>6 DEF Queued, CommitSteps
    <3> QED BY <3>1, <1>1, <1>7, MutexSame
  <2>11. b.result # "partial"
    BY <2>6, <1>8
  <2>12. disturbed \subseteq disturbed' /\ dirs \subseteq dirs'
    OBVIOUS
  <2>15. Housed(dirs', b)
    BY <2>5, <2>6, <2>12, HousedStays DEF Fields
  <2>13. /\ call' = [d \in Calls |-> call'[d]]
         /\ RecordsOK' /\ HousedOK' /\ CalmOK' /\ FreshOK' /\ PartialOnlyIfDisturbed'
    BY <1>1, <1>7, <2>7, <2>8, <2>9, <2>11, <2>12, <2>15, OneStep
  <2>14. FilesOK'
    <3>1. \A p \in Paths : file'[p] # Absent => DirOf[p] \in dirs'
      BY <1>2, <1>3 DEF IInv, FilesOK
    <3> QED BY <1>4, <3>1, <2>13 DEF IInv, FilesOK
  <2> QED BY <2>10, <2>13, <2>14 DEF IInv
<1>10. CASE ~more
  <2>1. call[c].k = Len(call[c].patch)
    BY <1>2, <1>10 DEF MoreHunks
  <2>2. "applied" \in Results
    BY DEF Results
  <2>3. b = [a EXCEPT !.at = "ended", !.result = "applied"]
    BY <1>6, <1>10
  <2>4. Fields(b, "ended", a.patch, a.snapshots, a.k, a.changes, a.created, a.did, "applied")
    BY <1>5, <2>2, <2>3, Ended
  <2>5. Fields(b, "ended", call[c].patch, call[c].snapshots, call[c].k, done, call[c].created, done, "applied")
    BY <2>4 DEF Fields
  <2>6. b.at = "ended" /\ b.k = call[c].k /\ b.result = "applied"
    BY <2>5 DEF Fields
  <2>7. RecordOK(b)
    BY <1>1, <2>1, <2>5, <2>6, DoneRecord
  <2>8. b.at \notin CommitSteps
    BY <2>6 DEF CommitSteps
  <2>9. Calm(file', b) /\ Fresh(file', raced', b)
    BY <2>8, CalmElsewhere
  <2>10. MutexOK'
    BY <1>1, <1>7, <1>10, <2>6, MutexLeave
  <2>11. b.result # "partial"
    BY <2>6
  <2>12. disturbed \subseteq disturbed' /\ dirs \subseteq dirs'
    OBVIOUS
  <2>15. Housed(dirs', b)
    BY <2>5, <2>6, <2>12, HousedStays DEF Fields
  <2>13. /\ call' = [d \in Calls |-> call'[d]]
         /\ RecordsOK' /\ HousedOK' /\ CalmOK' /\ FreshOK' /\ PartialOnlyIfDisturbed'
    BY <1>1, <1>7, <2>7, <2>9, <2>11, <2>12, <2>15, OneStep
  <2>14. FilesOK'
    <3>1. \A p \in Paths : file'[p] # Absent => DirOf[p] \in dirs'
      BY <1>2, <1>3 DEF IInv, FilesOK
    <3> QED BY <1>4, <3>1, <2>13 DEF IInv, FilesOK
  <2> QED BY <2>10, <2>13, <2>14 DEF IInv
<1> QED BY <1>9, <1>10

LEMMA OnwardStays ==
  ASSUME IInv, NEW c \in Calls, NEW b, call' = [call EXCEPT ![c] = b],
         RecordOK(b), b.result # "partial", MutexOK', Housed(dirs', b),
         c \notin disturbed => Calm(file, b),
         Fresh(file, raced', b),
         UNCHANGED <<file, stamps, disturbed>>, dirs \subseteq dirs', dirs' \subseteq Dirs,
         raced' = raced \/ (call[c].at \in CommitSteps /\ raced' \subseteq raced)
  PROVE  IInv'
<1>1. /\ call' = [d \in Calls |-> call'[d]]
      /\ RecordsOK' /\ HousedOK' /\ CalmOK' /\ FreshOK' /\ PartialOnlyIfDisturbed'
  BY OneStep
<1>2. FilesOK'
  BY <1>1 DEF IInv, FilesOK
<1> QED BY <1>1, <1>2 DEF IInv

-----------------------------------------------------------------------------
(* The steps before the commit.                                              *)

LEMMA BeginStays ==
  ASSUME IInv, NEW c \in Calls, Begin(c)
  PROVE  IInv'
<1>1. PICK patch \in Patches : Set(c, [NoCall EXCEPT !.at = "prepare", !.patch = patch])
  BY DEF Begin
<1>2. PICK b : b = [NoCall EXCEPT !.at = "prepare", !.patch = patch]
  OBVIOUS
<1>3. call' = [call EXCEPT ![c] = b] /\ call[c].at = "idle"
  BY <1>1, <1>2 DEF Set, Begin, At
<1>4. b = [at |-> "prepare", patch |-> patch, snapshots |-> <<>>, k |-> 1, changes |-> {}, created |-> {},
           did |-> {}, result |-> "none"]
  BY <1>2 DEF NoCall
<1>5. "prepare" \in Steps /\ "none" \in Results /\ <<>> \in Seq(Nat \cup {Absent})
  BY DEF Steps, Results
<1>6. Fields(b, "prepare", patch, <<>>, 1, {}, {}, {}, "none")
  BY <1>4, <1>5 DEF Fields, CallType
<1>7. RecordOK(b)
  BY <1>6, BegunRecord
<1>8. b.at = "prepare" /\ b.result = "none" /\ b.at \notin CommitSteps
  BY <1>6 DEF Fields, CommitSteps
<1>9. Calm(file, b) /\ Fresh(file, raced, b)
  BY <1>8, CalmElsewhere
<1>10. MutexOK'
  <2>1. (call[c].at \in Queued) = (b.at \in Queued) /\ mutex' = mutex
    BY <1>3, <1>8 DEF Queued, CommitSteps, Begin
  <2> QED BY <2>1, <1>3, <1>8, MutexSame
<1>11. UNCHANGED <<file, stamps, disturbed, dirs, raced>> /\ dirs' \subseteq Dirs
  BY DEF Begin, disk, history, IInv, FilesOK
<1>12. Housed(dirs', b)
  BY <1>6, <1>8 DEF Fields, Housed
<1> QED BY <1>3, <1>7, <1>8, <1>9, <1>10, <1>11, <1>12, OnwardStays

LEMMA PrepareStays ==
  ASSUME IInv, NEW c \in Calls, Prepare(c)
  PROVE  IInv'
<1>1. RecordOK(call[c]) /\ call[c] \in CallType /\ call[c].at = "prepare"
  BY DEF IInv, RecordsOK, RecordOK, Prepare, At
<1>2. call[c].patch \in Patches /\ call[c].k \in 1..Len(call[c].patch)
  BY <1>1 DEF RecordOK, Positioned
<1>3. /\ Hunk(c) \in HunkType /\ Hunk(c).path \in Paths /\ Hunk(c).target \in Paths
      /\ Hunk(c).operation # "move" => Hunk(c).target = Hunk(c).path
  BY <1>2, HunkTyped DEF Hunk
<1>4. Hunk(c) = Current(call[c]) /\ Len(call[c].patch) \in Nat \ {0}
  BY <1>2, PatchSize DEF Hunk, Current
<1>5. UNCHANGED <<file, stamps, disturbed, dirs, raced>> /\ dirs' \subseteq Dirs
  BY DEF Prepare, disk, history, IInv, FilesOK
<1>6. call[c].changes = {} /\ call[c].created = {} /\ call[c].result = "none"
  BY <1>1 DEF RecordOK, Accounted
<1>7. CASE ~Preparable(c)
  <2>1. PICK b : b = [call[c] EXCEPT !.at = "ended", !.result = "refused"]
    OBVIOUS
  <2>2. call' = [call EXCEPT ![c] = b] /\ mutex' = mutex
    BY <1>7, <2>1 DEF Prepare, Set
  <2>3. "refused" \in Results
    BY DEF Results
  <2>4. Fields(b, "ended", call[c].patch, call[c].snapshots, call[c].k, call[c].changes,
               call[c].created, call[c].did, "refused")
    BY <1>1, <2>1, <2>3, Ended
  <2>5. b.at = "ended" /\ b.result = "refused" /\ b.at \notin CommitSteps
    BY <2>4 DEF Fields, CommitSteps
  <2>6. ~Partial(call[c])
    BY <1>6 DEF Partial
  <2>7. RecordOK(b)
    BY <1>1, <2>4, <2>6, EndedRecord
  <2>8. Calm(file, b) /\ Fresh(file, raced, b)
    BY <2>5, CalmElsewhere
  <2>9. MutexOK'
    <3>1. (call[c].at \in Queued) = (b.at \in Queued)
      BY <1>1, <2>5 DEF Queued, CommitSteps
    <3> QED BY <3>1, <2>2, <2>5, MutexSame
  <2>10. Housed(dirs', b)
    BY <1>5, <2>4, <2>5, HousedStays DEF Fields
  <2> QED BY <1>5, <2>2, <2>5, <2>7, <2>8, <2>9, <2>10, OnwardStays
<1>8. CASE Preparable(c)
  <2>1. PICK x : x = file[Hunk(c).path]
    OBVIOUS
  <2>2. x \in Nat \cup {Absent}
    BY <1>3, <2>1 DEF IInv, FilesOK
  <2>3. PICK a : a = [call[c] EXCEPT !.snapshots = Append(@, x)]
    OBVIOUS
  <2>4. PICK b : b = IF MoreHunks(c) THEN [a EXCEPT !.k = @ + 1] ELSE [a EXCEPT !.k = 1, !.at = "wait"]
    OBVIOUS
  <2>5. /\ call' = [call EXCEPT ![c] = b]
        /\ mutex' = IF MoreHunks(c) THEN mutex ELSE Append(mutex, c)
    BY <1>8, <2>1, <2>3, <2>4 DEF Prepare, Set
  <2>6. Fields(a, "prepare", call[c].patch, Append(call[c].snapshots, x), call[c].k, call[c].changes,
               call[c].created, call[c].did, call[c].result)
    BY <1>1, <2>2, <2>3, Read
  <2>7. a \in CallType /\ a.k = call[c].k
    BY <2>6 DEF Fields
  <2>8. \/ /\ MoreHunks(c) /\ call[c].k < Len(call[c].patch)
           /\ Fields(b, "prepare", call[c].patch, Append(call[c].snapshots, x), call[c].k + 1, call[c].changes,
                     call[c].created, call[c].did, call[c].result)
        \/ /\ ~MoreHunks(c) /\ call[c].k = Len(call[c].patch)
           /\ Fields(b, "wait", call[c].patch, Append(call[c].snapshots, x), 1, call[c].changes,
                     call[c].created, call[c].did, call[c].result)
    <3>1. CASE MoreHunks(c)
      <4>1. call[c].k < Len(call[c].patch) /\ call[c].k + 1 \in Nat \ {0}
        BY <3>1, <1>2 DEF MoreHunks
      <4>2. b = [a EXCEPT !.k = call[c].k + 1]
        BY <3>1, <2>4, <2>7
      <4>3. Fields(b, a.at, a.patch, a.snapshots, call[c].k + 1, a.changes, a.created, a.did, a.result)
        <5>1. a.at \in Steps
          BY <2>7 DEF CallType
        <5> QED BY <4>1, <4>2, <5>1, <2>7, Counted
      <4> QED BY <3>1, <4>1, <4>3, <2>6 DEF Fields
    <3>2. CASE ~MoreHunks(c)
      <4>1. call[c].k = Len(call[c].patch) /\ "wait" \in Steps /\ 1 \in Nat \ {0}
        BY <3>2, <1>2, <1>4 DEF MoreHunks, Steps
      <4>2. b = [a EXCEPT !.k = 1, !.at = "wait"]
        BY <3>2, <2>4
      <4>3. Fields(b, "wait", a.patch, a.snapshots, 1, a.changes, a.created, a.did, a.result)
        BY <4>1, <4>2, <2>7, Counted
      <4> QED BY <3>2, <4>1, <4>3, <2>6 DEF Fields
    <3> QED BY <3>1, <3>2
  <2>9. /\ b.at = IF MoreHunks(c) THEN "prepare" ELSE "wait"
        /\ b.result = "none" /\ b.at \notin CommitSteps
    BY <2>8, <1>6 DEF Fields, CommitSteps
  <2>10. /\ Current(call[c]).operation # "add" => x # Absent
         /\ Current(call[c]).operation = "move" => Current(call[c]).path # Current(call[c]).target
         /\ \A i \in 1..(call[c].k - 1) : Touched(call[c].patch[i]) \cap Touched(Current(call[c])) = {}
    BY <1>4, <1>8, <2>1 DEF Preparable, NotTouched, Creates
  <2>11. RecordOK(b)
    <3>1. Fields(b, b.at, call[c].patch, Append(call[c].snapshots, x), b.k, call[c].changes,
                 call[c].created, call[c].did, call[c].result)
      BY <2>8 DEF Fields
    <3>2. \/ b.at = "prepare" /\ call[c].k < Len(call[c].patch) /\ b.k = call[c].k + 1
          \/ b.at = "wait" /\ call[c].k = Len(call[c].patch) /\ b.k = 1
      BY <2>8 DEF Fields
    <3> QED BY <1>1, <2>10, <3>1, <3>2, ReadRecord
  <2>12. Calm(file, b) /\ Fresh(file, raced, b)
    BY <2>9, CalmElsewhere
  <2>13. MutexOK'
    <3>1. CASE MoreHunks(c)
      <4>1. (call[c].at \in Queued) = (b.at \in Queued) /\ mutex' = mutex
        BY <3>1, <1>1, <2>5, <2>9 DEF Queued, CommitSteps
      <4> QED BY <4>1, <2>5, <2>9, MutexSame
    <3>2. CASE ~MoreHunks(c)
      BY <3>2, <1>1, <2>5, <2>9, MutexJoin
    <3> QED BY <3>1, <3>2
  <2>14. Housed(dirs', b)
    <3>1. b.patch = call[c].patch /\ b.snapshots = Append(call[c].snapshots, x) /\ b.at \notin {"write", "link"}
      BY <2>8 DEF Fields
    <3>2. /\ call[c].snapshots \in Seq(Nat \cup {Absent}) /\ Len(call[c].snapshots) = call[c].k - 1
          /\ Housed(dirs, call[c])
      BY <1>1 DEF RecordOK, Positioned, CallType, IInv, HousedOK
    <3>3. Len(b.snapshots) = call[c].k
      BY <3>1, <3>2, <2>2, <1>2, <1>4
    <3>4. Hunk(c).operation # "add" => DirOf[Hunk(c).path] \in dirs
      BY <1>3, <1>8 DEF Preparable, IInv, FilesOK
    <3>5. \A j \in 1..call[c].k : call[c].patch[j].operation # "add" => DirOf[call[c].patch[j].path] \in dirs
      <4> SUFFICES ASSUME NEW j \in 1..call[c].k
                   PROVE  call[c].patch[j].operation # "add" => DirOf[call[c].patch[j].path] \in dirs
        OBVIOUS
      <4>1. CASE j = call[c].k
        BY <4>1, <3>4 DEF Hunk
      <4>2. CASE j # call[c].k
        <5>1. j \in 1..Len(call[c].snapshots)
          BY <4>2, <3>2, <1>2
        <5> QED BY <5>1, <3>2 DEF Housed
      <4> QED BY <4>1, <4>2
    <3> QED BY <1>5, <3>1, <3>3, <3>5 DEF Housed
  <2> QED BY <1>5, <2>5, <2>9, <2>11, <2>12, <2>13, <2>14, OnwardStays
<1> QED BY <1>7, <1>8

LEMMA EnterStays ==
  ASSUME IInv, NEW c \in Calls, Enter(c)
  PROVE  IInv'
<1>1. RecordOK(call[c]) /\ call[c] \in CallType /\ call[c].at = "wait" /\ Holds(c)
  BY DEF IInv, RecordsOK, RecordOK, Enter, At
<1>2. call[c].k = 1 /\ call[c].result = "none"
  BY <1>1 DEF RecordOK, Positioned, Accounted
<1>3. PICK b : b = [call[c] EXCEPT !.at = "verify_all"]
  OBVIOUS
<1>4. call' = [call EXCEPT ![c] = b] /\ mutex' = mutex
  BY <1>3 DEF Enter, Set
<1>5. "verify_all" \in Steps
  BY DEF Steps
<1>6. Fields(b, "verify_all", call[c].patch, call[c].snapshots, call[c].k, call[c].changes,
             call[c].created, call[c].did, call[c].result)
  BY <1>1, <1>3, <1>5, Moved
<1>7. /\ b.at = "verify_all" /\ b.k = 1 /\ b.result = "none"
      /\ Onward(call[c], b, b.at, b.k, call[c].created)
  BY <1>2, <1>6 DEF Fields, Onward
<1>8. RecordOK(b)
  BY <1>1, <1>7, VerifyingRecord
<1>9. Calm(file, b) /\ Fresh(file, raced, b)
  BY <1>7 DEF Calm, Fresh, Overwrites
<1>10. MutexOK'
  <2>1. (call[c].at \in Queued) = (b.at \in Queued)
    BY <1>1, <1>7 DEF Queued, CommitSteps
  <2> QED BY <2>1, <1>1, <1>4, MutexSame
<1>11. UNCHANGED <<file, stamps, disturbed, dirs, raced>> /\ dirs' \subseteq Dirs
  BY DEF Enter, disk, history, IInv, FilesOK
<1>12. Housed(dirs', b)
  BY <1>6, <1>7, <1>11, HousedStays DEF Fields
<1> QED BY <1>4, <1>7, <1>8, <1>9, <1>10, <1>11, <1>12, OnwardStays

-----------------------------------------------------------------------------
(* The steps of the commit.                                                  *)

LEMMA AtWork ==
  ASSUME IInv, NEW c \in Calls, call[c].at \in CommitSteps
  PROVE  /\ RecordOK(call[c]) /\ call[c] \in CallType
         /\ call[c].k \in 1..Len(call[c].patch) /\ Len(call[c].patch) \in Nat
         /\ Hunk(c) = Current(call[c]) /\ Hunk(c) \in HunkType
         /\ Hunk(c).operation \in {"add", "update", "delete", "move"}
         /\ Hunk(c).path \in Paths /\ Hunk(c).target \in Paths
         /\ Hunk(c).operation # "move" => Hunk(c).target = Hunk(c).path
         /\ Hunk(c).operation = "move" => Hunk(c).target # Hunk(c).path
         /\ Verified(c) = VerifiedAt(file, call[c], call[c].k)
         /\ call[c].result = "none"
         /\ c \notin disturbed => Calm(file, call[c])
         /\ file \in FileType /\ stamps \in Nat /\ dirs \subseteq Dirs
<1>1. RecordOK(call[c])
  BY DEF IInv, RecordsOK
<1>2. Hunk(c) = Current(call[c])
  BY DEF Hunk, Current
<1>3. Verified(c) = VerifiedAt(file, call[c], call[c].k)
  BY DEF Verified, Unchanged, TargetFree, VerifiedAt, Hunk
<1>4. call[c].result = "none"
  BY <1>1 DEF RecordOK, Accounted, CommitSteps
<1>5. file \in FileType /\ stamps \in Nat /\ dirs \subseteq Dirs
  <2>1. file \in [Paths -> 0..stamps \cup {Absent}] /\ stamps \in Nat /\ dirs \subseteq Dirs
    BY DEF IInv, FilesOK
  <2> QED BY <2>1 DEF FileType
<1>6. c \notin disturbed => Calm(file, call[c])
  BY DEF IInv, CalmOK
<1>7. call[c] \in CallType
  BY <1>1 DEF RecordOK
<1> QED BY <1>1, <1>2, <1>3, <1>4, <1>5, <1>6, <1>7, HunkAtWork

(* Nothing is listed before the first hunk is written; and a calm call fails *)
(* no comparison.                                                            *)
LEMMA VerifyAllStays ==
  ASSUME IInv, NEW c \in Calls, VerifyAll(c)
  PROVE  IInv'
<1>1. call[c].at = "verify_all" /\ call[c].at \in CommitSteps
  BY DEF VerifyAll, At, CommitSteps
<1>2. /\ RecordOK(call[c]) /\ call[c] \in CallType /\ call[c].result = "none"
      /\ call[c].k \in 1..Len(call[c].patch) /\ Len(call[c].patch) \in Nat
  BY <1>1, AtWork
<1>3. UNCHANGED <<file, stamps, disturbed, dirs, raced>> /\ dirs' \subseteq Dirs /\ UNCHANGED disk
  BY DEF VerifyAll, disk, history, IInv, FilesOK
<1>4. CASE ~Verified(c)
  <2>1. Fail(c, call[c])
    BY <1>4 DEF VerifyAll
  <2>2. ~Partial(call[c])
    BY <1>1, <1>2 DEF RecordOK, Accounted, Partial
  <2> QED BY <1>1, <1>3, <2>1, <2>2, FailStays
<1>5. CASE Verified(c)
  <2>1. VerifiedAt(file, call[c], call[c].k)
    BY <1>1, <1>5, AtWork
  <2>2. PICK b : b = IF MoreHunks(c) THEN [call[c] EXCEPT !.k = @ + 1]
                                     ELSE [call[c] EXCEPT !.k = 1, !.at = "verify"]
    OBVIOUS
  <2>3. call' = [call EXCEPT ![c] = b] /\ mutex' = mutex
    BY <1>5, <2>2 DEF VerifyAll, Set
  <2>4. \/ /\ call[c].k < Len(call[c].patch)
           /\ Fields(b, "verify_all", call[c].patch, call[c].snapshots, call[c].k + 1, call[c].changes,
                     call[c].created, call[c].did, call[c].result)
        \/ /\ call[c].k = Len(call[c].patch)
           /\ Fields(b, "verify", call[c].patch, call[c].snapshots, 1, call[c].changes,
                     call[c].created, call[c].did, call[c].result)
    <3>1. CASE MoreHunks(c)
      <4>1. call[c].k < Len(call[c].patch) /\ call[c].k + 1 \in Nat \ {0} /\ call[c].at \in Steps
        BY <3>1, <1>2 DEF MoreHunks, CallType
      <4>2. b = [call[c] EXCEPT !.k = call[c].k + 1]
        BY <3>1, <2>2
      <4>3. Fields(b, call[c].at, call[c].patch, call[c].snapshots, call[c].k + 1, call[c].changes,
                   call[c].created, call[c].did, call[c].result)
        BY <4>1, <4>2, <1>2, Counted
      <4> QED BY <4>1, <4>3, <1>1
    <3>2. CASE ~MoreHunks(c)
      <4>1. call[c].k = Len(call[c].patch) /\ "verify" \in Steps /\ 1 \in Nat \ {0}
        BY <3>2, <1>2 DEF MoreHunks, Steps
      <4>2. b = [call[c] EXCEPT !.k = 1, !.at = "verify"]
        BY <3>2, <2>2
      <4> QED BY <4>1, <4>2, <1>2, Counted
    <3> QED BY <3>1, <3>2
  <2>5. /\ Onward(call[c], b, b.at, b.k, b.created) /\ Onward(call[c], b, b.at, b.k, call[c].created)
        /\ b.result = "none" /\ b.at \in {"verify_all", "verify"}
        /\ \/ b.at = "verify_all" /\ call[c].k < Len(call[c].patch) /\ b.k = call[c].k + 1
           \/ b.at = "verify" /\ call[c].k = Len(call[c].patch) /\ b.k = 1
    BY <2>4, <1>2 DEF Onward, Fields
  <2>6. RecordOK(b)
    BY <1>1, <1>2, <2>5, VerifyingRecord
  <2>7. c \notin disturbed => Calm(file, b)
    <3>1. c \notin disturbed => Calm(file, call[c])
      BY <1>1, AtWork
    <3> QED BY <3>1, <1>1, <1>2, <2>1, <2>5, CalmVerify
  <2>8. Fresh(file, raced', b)
    BY <2>5 DEF Fresh, Overwrites
  <2>9. MutexOK'
    <3>1. (call[c].at \in Queued) = (b.at \in Queued)
      BY <1>1, <2>5 DEF Queued, CommitSteps
    <3> QED BY <3>1, <1>1, <2>3, MutexSame
  <2>10. Housed(dirs', b)
    BY <1>3, <2>5, HousedStays DEF Onward, Fields
  <2> QED BY <1>3, <2>3, <2>5, <2>6, <2>7, <2>8, <2>9, <2>10, OnwardStays
<1> QED BY <1>4, <1>5

(* The steps that change only where a call stands, and the directories.      *)
LEMMA WorkStays ==
  ASSUME IInv, NEW c \in Calls, call[c].at \in CommitSteps, NEW b, call' = [call EXCEPT ![c] = b],
         Onward(call[c], b, b.at, call[c].k, b.created),
         \/ call[c].at = "verify" /\ b.at = FirstStep(Hunk(c))
         \/ call[c].at = "parent" /\ b.at = "write"
         \/ call[c].at = "write" /\ b.at = "link"
         \/ call[c].at = "recheck" /\ b.at = "unlink",
         UNCHANGED <<file, stamps, mutex, disturbed>>, dirs \subseteq dirs', dirs' \subseteq Dirs,
         call[c].at = "parent" => DirOf[Hunk(c).target] \in dirs',
         raced' \subseteq raced, Fresh(file, raced', b)
  PROVE  IInv'
<1>1. /\ RecordOK(call[c]) /\ call[c] \in CallType /\ call[c].result = "none"
      /\ Hunk(c) = Current(call[c])
      /\ Hunk(c).operation \in {"add", "update", "delete", "move"}
      /\ c \notin disturbed => Calm(file, call[c])
  BY AtWork
<1>2. b.patch = call[c].patch /\ b.snapshots = call[c].snapshots /\ b.k = call[c].k /\ b.result = "none"
  BY <1>1 DEF Onward, Fields
<1>3. RecordOK(b)
  BY <1>1, WorkingRecord
<1>4. c \notin disturbed => Calm(file, b)
  BY <1>1, <1>2, CalmWork
<1>5. b.at \in {"parent", "write", "link", "unlink"}
  BY <1>1 DEF FirstStep
<1>6. MutexOK'
  <2>1. (call[c].at \in Queued) = (b.at \in Queued)
    BY <1>5 DEF Queued, CommitSteps
  <2> QED BY <2>1, MutexSame
<1>7. b.at \in {"write", "link"} => DirOf[Hunk(c).target] \in dirs'
  <2>1. Housed(dirs, call[c])
    BY DEF IInv, HousedOK
  <2>2. CASE call[c].at = "verify" /\ b.at = "write"
    <3>1. Hunk(c).operation = "update" /\ Hunk(c).target = Hunk(c).path
      BY <2>2, <1>1, AtWork DEF FirstStep
    <3>2. call[c].k \in 1..Len(call[c].snapshots)
      BY HunkAtWork, <1>1
    <3> QED BY <2>1, <3>1, <3>2 DEF Housed, Hunk
  <2>3. CASE call[c].at \in {"write", "link"}
    BY <1>1, <2>1, <2>3 DEF Housed
  <2>4. CASE call[c].at = "parent"
    BY <2>4
  <2>5. CASE call[c].at \in {"verify", "recheck"} /\ b.at # "write"
    <3>1. FirstStep(Hunk(c)) # "link"
      BY <1>1 DEF FirstStep
    <3>2. b.at # "link"
      BY <2>5, <3>1
    <3> QED BY <3>2, <2>5
  <2>6. \/ call[c].at \in {"write", "link"}
        \/ call[c].at = "parent"
        \/ call[c].at \in {"verify", "recheck"} /\ b.at # "write"
        \/ call[c].at = "verify" /\ b.at = "write"
    OBVIOUS
  <2> QED BY <2>2, <2>3, <2>4, <2>5, <2>6
<1>8. Housed(dirs', b)
  <2>1. Current(b) = Hunk(c)
    BY <1>1, <1>2 DEF Current
  <2> QED BY <1>2, <1>7, <2>1, HousedStays
<1> QED BY <1>2, <1>3, <1>4, <1>6, <1>8, OnwardStays

LEMMA VerifyAgainStays ==
  ASSUME IInv, NEW c \in Calls, VerifyAgain(c)
  PROVE  IInv'
<1>1. call[c].at = "verify" /\ call[c].at \in CommitSteps
  BY DEF VerifyAgain, At, CommitSteps
<1>2. /\ RecordOK(call[c]) /\ call[c] \in CallType /\ Hunk(c) = Current(call[c])
      /\ Hunk(c).operation \in {"add", "update", "delete", "move"}
      /\ call[c].k \in 1..Len(call[c].patch) /\ Len(call[c].patch) \in Nat
      /\ Verified(c) = VerifiedAt(file, call[c], call[c].k)
      /\ c \notin disturbed => Calm(file, call[c])
  BY <1>1, AtWork
<1>3. UNCHANGED <<file, stamps, disturbed, dirs>> /\ dirs' \subseteq Dirs /\ UNCHANGED disk
  BY DEF VerifyAgain, disk, IInv, FilesOK
<1>4. CASE ~Verified(c)
  <2>1. Fail(c, call[c]) /\ raced' = raced
    BY <1>4 DEF VerifyAgain
  <2>2. c \in disturbed
    <3>1. Calm(file, call[c]) => VerifiedAt(file, call[c], call[c].k)
      BY <1>1, <1>2 DEF Calm
    <3> QED BY <3>1, <1>2, <1>4
  <2> QED BY <1>1, <1>3, <2>1, <2>2, FailStays
<1>5. CASE Verified(c)
  <2>1. PICK s : s = FirstStep(Hunk(c))
    OBVIOUS
  <2>2. PICK b : b = [call[c] EXCEPT !.at = s]
    OBVIOUS
  <2>3. call' = [call EXCEPT ![c] = b] /\ mutex' = mutex /\ raced' = raced \ Touched(Hunk(c))
    BY <1>5, <2>1, <2>2 DEF VerifyAgain, Set
  <2>4. s \in {"parent", "write", "unlink"} /\ s \in Steps
    BY <1>2, <2>1 DEF FirstStep, Steps
  <2>5. Fields(b, s, call[c].patch, call[c].snapshots, call[c].k, call[c].changes,
               call[c].created, call[c].did, call[c].result)
    BY <1>2, <2>2, <2>4, Moved
  <2>6. /\ b.at = FirstStep(Hunk(c)) /\ b.patch = call[c].patch /\ b.snapshots = call[c].snapshots
        /\ b.k = call[c].k
        /\ Onward(call[c], b, b.at, call[c].k, b.created)
    BY <2>1, <2>5 DEF Onward, Fields
  <2>7. Fresh(file, raced', b)
    <3>1. Overwrites(b) => Current(b).operation # "add"
      <4>1. Current(b) = Hunk(c)
        BY <1>2, <2>6 DEF Current
      <4> QED BY <4>1, <1>2, <2>6 DEF Overwrites, FirstStep
    <3>2. Current(b).operation # "add" => SourceSame(file, b)
      BY <1>2, <1>5, <2>6 DEF VerifiedAt, SourceSame, Current
    <3> QED BY <3>1, <3>2 DEF Fresh
  <2> QED BY <1>1, <1>3, <2>3, <2>6, <2>7, WorkStays
<1> QED BY <1>4, <1>5

LEMMA EnsureParentStays ==
  ASSUME IInv, NEW c \in Calls, EnsureParent(c)
  PROVE  IInv'
<1>1. call[c].at = "parent" /\ call[c].at \in CommitSteps
  BY DEF EnsureParent, At, CommitSteps
<1>2. RecordOK(call[c]) /\ call[c] \in CallType /\ Hunk(c) = Current(call[c]) /\ Hunk(c).target \in Paths
  BY <1>1, AtWork
<1>3. PICK D : D = {DirOf[Hunk(c).target]} \ dirs
  OBVIOUS
<1>4. D \subseteq Dirs /\ DirOf[Hunk(c).target] \in Dirs
  BY <1>2, <1>3 DEF Dirs
<1>5. PICK b : b = [call[c] EXCEPT !.at = "write", !.created = @ \cup D]
  OBVIOUS
<1>6. call' = [call EXCEPT ![c] = b]
  BY <1>3, <1>5 DEF EnsureParent, Set
<1>7. "write" \in Steps
  BY DEF Steps
<1>8. Fields(b, "write", call[c].patch, call[c].snapshots, call[c].k, call[c].changes,
             call[c].created \cup D, call[c].did, call[c].result)
  BY <1>2, <1>4, <1>5, <1>7, Made
<1>9. b.at = "write" /\ b.patch = call[c].patch /\ b.k = call[c].k /\ Onward(call[c], b, b.at, call[c].k, b.created)
  BY <1>8 DEF Fields, Onward
<1>10. /\ UNCHANGED <<file, stamps, mutex, disturbed, raced>>
       /\ dirs \subseteq dirs' /\ dirs' \subseteq Dirs /\ DirOf[Hunk(c).target] \in dirs'
  BY <1>4 DEF EnsureParent, history, IInv, FilesOK
<1>11. Fresh(file, raced', b)
  <2>1. Current(b).operation # "update"
    BY <1>1, <1>2, <1>9 DEF RecordOK, Positioned, Creates, Current
  <2> QED BY <2>1, <1>9 DEF Fresh, Overwrites
<1> QED BY <1>1, <1>6, <1>9, <1>10, <1>11, WorkStays

LEMMA WriteTemporaryStays ==
  ASSUME IInv, NEW c \in Calls, WriteTemporary(c)
  PROVE  IInv'
<1>1. call[c].at = "write" /\ call[c].at \in CommitSteps
  BY DEF WriteTemporary, At, CommitSteps
<1>2. RecordOK(call[c]) /\ call[c] \in CallType
  BY <1>1, AtWork
<1>3. PICK b : b = [call[c] EXCEPT !.at = "link"]
  OBVIOUS
<1>4. call' = [call EXCEPT ![c] = b]
  BY <1>3 DEF WriteTemporary, Set
<1>5. "link" \in Steps
  BY DEF Steps
<1>6. Fields(b, "link", call[c].patch, call[c].snapshots, call[c].k, call[c].changes,
             call[c].created, call[c].did, call[c].result)
  BY <1>2, <1>3, <1>5, Moved
<1>7. /\ b.at = "link" /\ b.patch = call[c].patch /\ b.snapshots = call[c].snapshots /\ b.k = call[c].k
      /\ Onward(call[c], b, b.at, call[c].k, b.created)
  BY <1>6 DEF Fields, Onward
<1>8. UNCHANGED <<file, stamps, mutex, disturbed, raced, dirs>> /\ dirs' \subseteq Dirs
  BY DEF WriteTemporary, history, disk, IInv, FilesOK
<1>9. Fresh(file, raced', b)
  <2>1. Fresh(file, raced, call[c])
    BY DEF IInv, FreshOK
  <2> QED BY <2>1, <1>1, <1>7, <1>8 DEF Fresh, Overwrites, SourceSame, Current
<1> QED BY <1>1, <1>4, <1>7, <1>8, <1>9, WorkStays

LEMMA RecheckStays ==
  ASSUME IInv, NEW c \in Calls, Recheck(c)
  PROVE  IInv'
<1>1. call[c].at = "recheck" /\ call[c].at \in CommitSteps
  BY DEF Recheck, At, CommitSteps
<1>2. /\ RecordOK(call[c]) /\ call[c] \in CallType /\ Hunk(c) = Current(call[c])
      /\ c \notin disturbed => Calm(file, call[c])
  BY <1>1, AtWork
<1>3. Hunk(c).operation = "move"
  BY <1>1, <1>2 DEF RecordOK, Positioned
<1>4. UNCHANGED <<file, stamps, disturbed, dirs>> /\ dirs' \subseteq Dirs /\ UNCHANGED disk
  BY DEF Recheck, disk, IInv, FilesOK
<1>5. Unchanged(c) = SourceSame(file, call[c])
  BY <1>2, <1>3 DEF Unchanged, SourceSame
<1>6. CASE ~Unchanged(c)
  <2>1. Fail(c, call[c]) /\ raced' = raced
    BY <1>6 DEF Recheck
  <2>2. c \in disturbed
    <3>1. Calm(file, call[c]) => SourceSame(file, call[c])
      BY <1>1, <1>2, <1>3 DEF Calm
    <3> QED BY <3>1, <1>2, <1>5, <1>6
  <2> QED BY <1>1, <1>4, <2>1, <2>2, FailStays
<1>7. CASE Unchanged(c)
  <2>1. PICK b : b = [call[c] EXCEPT !.at = "unlink"]
    OBVIOUS
  <2>2. call' = [call EXCEPT ![c] = b] /\ mutex' = mutex /\ raced' \subseteq raced
    BY <1>7, <2>1 DEF Recheck, Set
  <2>3. "unlink" \in Steps
    BY DEF Steps
  <2>4. Fields(b, "unlink", call[c].patch, call[c].snapshots, call[c].k, call[c].changes,
               call[c].created, call[c].did, call[c].result)
    BY <1>2, <2>1, <2>3, Moved
  <2>5. /\ b.at = "unlink" /\ b.patch = call[c].patch /\ b.snapshots = call[c].snapshots /\ b.k = call[c].k
        /\ Onward(call[c], b, b.at, call[c].k, b.created)
    BY <2>4 DEF Fields, Onward
  <2>6. Fresh(file, raced', b)
    BY <1>5, <1>7, <2>5 DEF Fresh, SourceSame, Current
  <2> QED BY <1>1, <1>4, <2>2, <2>5, <2>6, WorkStays
<1> QED BY <1>6, <1>7

LEMMA LinkStays ==
  ASSUME IInv, NEW c \in Calls, Link(c)
  PROVE  IInv'
<1>1. call[c].at = "link" /\ call[c].at \in CommitSteps
  BY DEF Link, At, CommitSteps
<1>2. /\ RecordOK(call[c]) /\ call[c] \in CallType /\ Hunk(c) = Current(call[c]) /\ Hunk(c) \in HunkType
      /\ Hunk(c).operation \in {"add", "update", "delete", "move"}
      /\ Hunk(c).target \in Paths
      /\ call[c].k \in 1..Len(call[c].patch) /\ Len(call[c].patch) \in Nat
      /\ Verified(c) = VerifiedAt(file, call[c], call[c].k)
      /\ c \notin disturbed => Calm(file, call[c])
      /\ file \in FileType /\ stamps \in Nat /\ call[c].result = "none"
  BY <1>1, AtWork
<1>3. raced' = raced /\ disturbed' = disturbed
  BY DEF Link, history
<1>4. CASE ~LinkPossible(Hunk(c))
  <2>1. Fail(c, call[c]) /\ UNCHANGED disk
    BY <1>4 DEF Link
  <2>2. c \in disturbed
    <3>1. Calm(file, call[c]) => VerifiedAt(file, call[c], call[c].k)
      BY <1>1, <1>2 DEF Calm
    <3>2. ~Verified(c)
      BY <1>4 DEF LinkPossible, Verified, TargetFree
    <3> QED BY <3>1, <3>2, <1>2
  <2> QED BY <1>1, <1>3, <2>1, <2>2, FailStays
<1>5. CASE LinkPossible(Hunk(c))
  <2>1. PICK e : e = ChangeOf(Hunk(c))
    OBVIOUS
  <2>2. PICK b : b = [call[c] EXCEPT !.at = "clean_up", !.did = @ \cup {e}]
    OBVIOUS
  <2>3. /\ stamps' = stamps + 1 /\ file' = [file EXCEPT ![Hunk(c).target] = stamps']
        /\ call' = [call EXCEPT ![c] = b] /\ dirs' = dirs /\ mutex' = mutex
    BY <1>5, <2>1, <2>2 DEF Link, Set
  <2>4. "clean_up" \in Steps /\ e \in Effect
    BY <1>2, <2>1, ChangeTyped DEF Steps
  <2>5. Fields(b, "clean_up", call[c].patch, call[c].snapshots, call[c].k, call[c].changes,
               call[c].created, call[c].did \cup {e}, call[c].result)
    BY <1>2, <2>2, <2>4, Wrote
  <2>6. RecordOK(b)
    BY <1>1, <1>2, <2>1, <2>5, LinkedRecord
  <2>7. /\ b.at = "clean_up" /\ b.patch = call[c].patch /\ b.snapshots = call[c].snapshots
        /\ b.k = call[c].k /\ b.result = "none"
    BY <2>5, <1>2 DEF Fields
  <2>8. c \notin disturbed' => Calm(file', b)
    BY <1>1, <1>2, <1>3, <2>3, <2>7, CalmLink
  <2>9. Fresh(file', raced', b)
    BY <2>7 DEF Fresh, Overwrites
  <2>13. Housed(dirs', b) /\ dirs \subseteq dirs'
    BY <2>3, <2>7, HousedStays
  <2>10. /\ call' = [d \in Calls |-> call'[d]]
         /\ RecordsOK' /\ HousedOK' /\ CalmOK' /\ FreshOK' /\ PartialOnlyIfDisturbed'
    BY <1>1, <1>3, <2>3, <2>6, <2>7, <2>8, <2>9, <2>13, OneStep
  <2>11. MutexOK'
    <3>1. (call[c].at \in Queued) = (b.at \in Queued)
      BY <1>1, <2>7 DEF Queued, CommitSteps
    <3> QED BY <3>1, <1>1, <2>3, MutexSame
  <2>12. FilesOK'
    <3>1. DirOf[Hunk(c).target] \in dirs
      BY <1>1, <1>2 DEF IInv, HousedOK, Housed
    <3>2. file \in [Paths -> 0..stamps \cup {Absent}] /\ 0..stamps \subseteq 0..stamps' /\ stamps' \in 0..stamps'
      BY <1>2, <2>3 DEF IInv, FilesOK
    <3>3. file' \in [Paths -> 0..stamps' \cup {Absent}]
      BY <2>3, <3>2
    <3>4. \A p \in Paths : file'[p] # Absent => DirOf[p] \in dirs'
      BY <2>3, <3>1, <3>2 DEF IInv, FilesOK
    <3> QED BY <1>2, <1>3, <2>3, <2>10, <3>3, <3>4 DEF IInv, FilesOK
  <2> QED BY <2>10, <2>11, <2>12 DEF IInv
<1> QED BY <1>4, <1>5

(* CleanUp(c) and a fault while the temporary file is removed both record    *)
(* what was written.                                                         *)
LEMMA RecordStays ==
  ASSUME IInv, NEW c \in Calls, call[c].at = "clean_up", Record(c), UNCHANGED <<file, dirs, stamps, raced>>,
         disturbed' \in {disturbed, disturbed \cup {c}}
  PROVE  IInv'
<1>1. call[c].at \in CommitSteps
  BY DEF CommitSteps
<1>2. /\ RecordOK(call[c]) /\ call[c] \in CallType /\ Hunk(c) = Current(call[c]) /\ Hunk(c) \in HunkType
      /\ call[c].k \in 1..Len(call[c].patch) /\ Len(call[c].patch) \in Nat
      /\ c \notin disturbed => Calm(file, call[c])
      /\ call[c].result = "none" /\ dirs \subseteq Dirs
  BY <1>1, AtWork
<1>3. PICK e : e = ChangeOf(Hunk(c))
  OBVIOUS
<1>4. PICK a : a = [call[c] EXCEPT !.changes = @ \cup {e}]
  OBVIOUS
<1>5. e \in Effect
  BY <1>2, <1>3, ChangeTyped
<1>6. "clean_up" \in Steps
  BY DEF Steps
<1>7. Fields(a, call[c].at, call[c].patch, call[c].snapshots, call[c].k, call[c].changes \cup {e},
             call[c].created, call[c].did, call[c].result)
  BY <1>2, <1>4, <1>5, <1>6, Wrote
<1>8. call[c].changes = Effects(call[c].patch, call[c].k - 1) /\ call[c].did = call[c].changes \cup {e}
  BY <1>2, <1>3 DEF RecordOK, Accounted
<1>9. CASE Hunk(c).operation = "move"
  <2>1. PICK b : b = [a EXCEPT !.at = "recheck"]
    OBVIOUS
  <2>2. call' = [call EXCEPT ![c] = b] /\ mutex' = mutex
    BY <1>3, <1>4, <1>9, <2>1 DEF Record, Set
  <2>3. "recheck" \in Steps /\ a \in CallType
    BY <1>7 DEF Steps, Fields
  <2>4. Fields(b, "recheck", a.patch, a.snapshots, a.k, a.changes, a.created, a.did, a.result)
    BY <2>1, <2>3, Moved
  <2>5. Fields(b, "recheck", call[c].patch, call[c].snapshots, call[c].k, call[c].changes \cup {e},
               call[c].created, call[c].did, call[c].result)
    BY <1>7, <2>4 DEF Fields
  <2>6. RecordOK(b)
    BY <1>2, <1>3, <1>9, <2>5, CopiedRecord
  <2>7. /\ b.at = "recheck" /\ b.patch = call[c].patch /\ b.snapshots = call[c].snapshots
        /\ b.k = call[c].k /\ b.result = "none"
    BY <1>2, <2>5 DEF Fields
  <2>8. c \notin disturbed => Calm(file, b)
    BY <1>2, <2>7, CalmWork
  <2>9. Fresh(file, raced', b)
    BY <2>7 DEF Fresh, Overwrites
  <2>10. MutexOK'
    <3>1. (call[c].at \in Queued) = (b.at \in Queued)
      BY <2>7 DEF Queued, CommitSteps
    <3> QED BY <3>1, <1>1, <2>2, MutexSame
  <2>11. Housed(dirs', b)
    BY <2>7, HousedStays
  <2>12. disturbed \subseteq disturbed'
    OBVIOUS
  <2>13. /\ call' = [d \in Calls |-> call'[d]]
         /\ RecordsOK' /\ HousedOK' /\ CalmOK' /\ FreshOK' /\ PartialOnlyIfDisturbed'
    BY <1>1, <2>2, <2>6, <2>7, <2>8, <2>9, <2>11, <2>12, OneStep
  <2>14. FilesOK'
    BY <2>13 DEF IInv, FilesOK
  <2> QED BY <2>10, <2>13, <2>14 DEF IInv
<1>10. CASE Hunk(c).operation # "move"
  <2>1. Proceed(c, a)
    BY <1>3, <1>4, <1>10 DEF Record
  <2>2. Effects(call[c].patch, call[c].k) = call[c].changes \cup {e}
    <3>1. EffectOf(call[c].patch[call[c].k]) = {e}
      BY <1>3, <1>10 DEF EffectOf, Hunk
    <3> QED BY <3>1, <1>2, <1>8, OneMore
  <2>3. Fields(a, call[c].at, call[c].patch, call[c].snapshots, call[c].k, Effects(call[c].patch, call[c].k),
               call[c].created, Effects(call[c].patch, call[c].k), call[c].result)
    BY <1>7, <1>8, <2>2
  <2>4. file' \in {file, [file EXCEPT ![Hunk(c).path] = Absent]}
    OBVIOUS
  <2> QED BY <2>1, <2>3, <2>4, ProceedStays
<1> QED BY <1>9, <1>10

LEMMA UnlinkStays ==
  ASSUME IInv, NEW c \in Calls, Unlink(c)
  PROVE  IInv'
<1>1. call[c].at = "unlink" /\ call[c].at \in CommitSteps
  BY DEF Unlink, At, CommitSteps
<1>2. /\ RecordOK(call[c]) /\ call[c] \in CallType /\ Hunk(c) = Current(call[c]) /\ Hunk(c) \in HunkType
      /\ Hunk(c).operation # "move" => Hunk(c).target = Hunk(c).path
      /\ call[c].k \in 1..Len(call[c].patch) /\ Len(call[c].patch) \in Nat
      /\ c \notin disturbed => Calm(file, call[c])
      /\ call[c].result = "none"
  BY <1>1, AtWork
<1>3. Hunk(c).operation \in {"delete", "move"}
  BY <1>1, <1>2 DEF RecordOK, Positioned
<1>4. UNCHANGED <<dirs, stamps, raced>> /\ disturbed' = disturbed
  BY DEF Unlink, history
<1>5. CASE file[Hunk(c).path] = Absent
  <2>1. Fail(c, call[c]) /\ UNCHANGED disk
    BY <1>4, <1>5 DEF Unlink, disk
  <2>2. c \in disturbed
    <3>1. Calm(file, call[c]) => file[Hunk(c).path] = call[c].snapshots[call[c].k]
      BY <1>1, <1>2, <1>3 DEF Calm, SourceSame
    <3>2. call[c].k \in 1..Len(call[c].snapshots)
      BY <1>1, <1>2, HunkAtWork
    <3>3. call[c].snapshots[call[c].k] # Absent
      BY <1>2, <1>3, <3>2 DEF RecordOK, Prepared, Current
    <3> QED BY <3>1, <3>3, <1>2, <1>5
  <2> QED BY <1>1, <1>4, <2>1, <2>2, FailStays
<1>6. CASE file[Hunk(c).path] # Absent
  <2>1. PICK e : e = <<"delete", Hunk(c).path>>
    OBVIOUS
  <2>2. PICK a : a = [call[c] EXCEPT !.changes = @ \cup {e}, !.did = @ \cup {e}]
    OBVIOUS
  <2>3. Proceed(c, a) /\ file' = [file EXCEPT ![Hunk(c).path] = Absent]
    BY <1>6, <2>1, <2>2 DEF Unlink
  <2>4. e \in Effect /\ "unlink" \in Steps
    BY <1>2, <2>1, ChangeTyped DEF Steps
  <2>5. Fields(a, call[c].at, call[c].patch, call[c].snapshots, call[c].k, call[c].changes \cup {e},
               call[c].created, call[c].did \cup {e}, call[c].result)
    BY <1>2, <2>2, <2>4, Wrote
  <2>6. call[c].changes = call[c].did /\ call[c].did = Effects(call[c].patch, call[c].k - 1) \cup Half(call[c])
    BY <1>1, <1>2 DEF RecordOK, Accounted, CommitSteps
  <2>7. Effects(call[c].patch, call[c].k) = call[c].did \cup {e}
    <3>1. EffectOf(call[c].patch[call[c].k]) = Half(call[c]) \cup {e}
      <4>1. CASE Hunk(c).operation = "move"
        BY <4>1, <1>1, <1>2, <2>1 DEF EffectOf, Half, HalfDone, Hunk
      <4>2. CASE Hunk(c).operation = "delete"
        BY <4>2, <1>1, <1>2, <2>1 DEF EffectOf, Half, HalfDone, ChangeOf, Hunk
      <4> QED BY <4>1, <4>2, <1>3
    <3> QED BY <3>1, <1>2, <2>6, OneMore
  <2>8. Fields(a, call[c].at, call[c].patch, call[c].snapshots, call[c].k, Effects(call[c].patch, call[c].k),
               call[c].created, Effects(call[c].patch, call[c].k), call[c].result)
    BY <2>5, <2>6, <2>7
  <2> QED BY <1>1, <1>4, <2>3, <2>8, ProceedStays
<1> QED BY <1>5, <1>6

LEMMA FaultStays ==
  ASSUME IInv, NEW c \in Calls, Fault(c)
  PROVE  IInv'
<1>1. Committing(c) /\ FailStep(c) /\ disturbed' = disturbed \cup {c} /\ UNCHANGED <<disk, raced>>
  BY DEF Fault
<1>2. call[c].at \in CommitSteps /\ UNCHANGED <<file, dirs, stamps>>
  BY <1>1 DEF Committing, CommitSteps, disk
<1>3. CASE call[c].at = "clean_up"
  BY <1>1, <1>2, <1>3, RecordStays DEF FailStep, At
<1>4. CASE call[c].at # "clean_up"
  <2>1. Fail(c, call[c])
    BY <1>1, <1>4 DEF FailStep, At
  <2> QED BY <1>1, <1>2, <1>4, <2>1, FailStays
<1> QED BY <1>3, <1>4

(* An editor disturbs every call at work, and what it changes is raced.      *)
LEMMA EditStays ==
  ASSUME IInv, NEW p \in Paths, Edit(p)
  PROVE  IInv'
<1>1. /\ call' = call /\ mutex' = mutex /\ dirs' = dirs /\ raced' = raced \cup {p}
      /\ disturbed' = disturbed \cup {c \in Calls : Committing(c)}
  BY DEF Edit
<1>2. /\ file \in [Paths -> 0..stamps \cup {Absent}] /\ stamps \in Nat
      /\ \A q \in Paths : file[q] # Absent => DirOf[q] \in dirs
  BY DEF IInv, FilesOK
<1>3. PICK x : /\ file' = [file EXCEPT ![p] = x] /\ stamps' \in Nat /\ stamps <= stamps'
               /\ x \in 0..stamps' \cup {Absent} /\ (x # Absent => DirOf[p] \in dirs)
  <2>1. CASE DirOf[p] \in dirs /\ stamps' = stamps + 1 /\ file' = [file EXCEPT ![p] = stamps']
    <3>1. stamps' \in Nat /\ stamps <= stamps' /\ stamps' \in 0..stamps'
      BY <1>2, <2>1
    <3> WITNESS stamps'
    <3> QED BY <2>1, <3>1
  <2>2. CASE file' = [file EXCEPT ![p] = Absent] /\ stamps' = stamps
    <3>1. stamps' \in Nat /\ stamps <= stamps'
      BY <1>2, <2>2
    <3> WITNESS Absent
    <3> QED BY <2>2, <3>1
  <2> QED BY <2>1, <2>2 DEF Edit
<1>4. FilesOK'
  <2>1. 0..stamps \subseteq 0..stamps'
    BY <1>2, <1>3
  <2>2. file' \in [Paths -> 0..stamps' \cup {Absent}]
    BY <1>2, <1>3, <2>1
  <2>3. \A q \in Paths : file'[q] # Absent => DirOf[q] \in dirs
    BY <1>2, <1>3
  <2> QED BY <1>1, <1>3, <2>2, <2>3 DEF IInv, FilesOK
<1>5. RecordsOK' /\ MutexOK' /\ HousedOK'
  BY <1>1 DEF IInv, RecordsOK, MutexOK, HousedOK
<1>6. CalmOK'
  <2> SUFFICES ASSUME NEW c \in Calls, c \notin disturbed' PROVE Calm(file', call[c])
    BY <1>1 DEF CalmOK
  <2>1. call[c].at \notin CommitSteps
    BY <1>1 DEF Committing, CommitSteps
  <2> QED BY <2>1, CalmElsewhere
<1>7. FreshOK'
  <2> SUFFICES ASSUME NEW c \in Calls PROVE Fresh(file', raced', call[c])
    BY <1>1 DEF FreshOK
  <2>1. CASE call[c].at \notin CommitSteps
    BY <2>1, CalmElsewhere
  <2>2. CASE call[c].at \in CommitSteps
    <3>1. Fresh(file, raced, call[c])
      BY DEF IInv, FreshOK
    <3>2. Current(call[c]).path \in Paths
      BY <2>2, AtWork
    <3>3. Current(call[c]).path # p => file'[Current(call[c]).path] = file[Current(call[c]).path]
      BY <1>2, <1>3, <3>2
    <3> QED BY <1>1, <3>1, <3>3 DEF Fresh, SourceSame
  <2> QED BY <2>1, <2>2
<1>8. PartialOnlyIfDisturbed'
  BY <1>1 DEF IInv, PartialOnlyIfDisturbed
<1> QED BY <1>4, <1>5, <1>6, <1>7, <1>8 DEF IInv

-----------------------------------------------------------------------------
(* The theorems.                                                             *)

LEMMA InitIInv ==
  ASSUME Init
  PROVE  IInv
<1>1. call = [c \in Calls |-> NoCall] /\ \A c \in Calls : call[c] = NoCall
  BY DEF Init
<1>2. PICK b : b = NoCall
  OBVIOUS
<1>3. "idle" \in Steps /\ "none" \in Results /\ <<>> \in Seq(Nat \cup {Absent})
  BY DEF Steps, Results
<1>4. b = [at |-> "idle", patch |-> <<>>, snapshots |-> <<>>, k |-> 1, changes |-> {}, created |-> {},
           did |-> {}, result |-> "none"]
  BY <1>2 DEF NoCall
<1>5. Fields(b, "idle", <<>>, <<>>, 1, {}, {}, {}, "none")
  BY <1>3, <1>4 DEF Fields, CallType
<1>6. /\ b \in CallType /\ b.at = "idle" /\ b.patch = <<>> /\ b.snapshots = <<>> /\ b.k = 1
      /\ b.changes = {} /\ b.did = {} /\ b.created = {} /\ b.result = "none"
  BY <1>5 DEF Fields
<1>7. RecordOK(b)
  <2>1. Prepared(b)
    BY <1>6 DEF Prepared
  <2>2. Positioned(b)
    BY <1>6 DEF Positioned, CommitSteps
  <2>3. Accounted(b)
    BY <1>6 DEF Accounted, CommitSteps
  <2> QED BY <1>6, <2>1, <2>2, <2>3 DEF RecordOK
<1>8. b.at \notin CommitSteps \cup {"wait"}
  BY <1>6 DEF CommitSteps
<1>9. FilesOK
  BY <1>1 DEF Init, FilesOK
<1>10. RecordsOK
  BY <1>1, <1>2, <1>7 DEF RecordsOK
<1>11. MutexOK
  BY <1>1, <1>2, <1>8 DEF Init, MutexOK
<1>12. HousedOK
  BY <1>1, <1>2, <1>6 DEF HousedOK, Housed
<1>13. CalmOK /\ FreshOK
  BY <1>1, <1>2, <1>8, CalmElsewhere DEF CalmOK, FreshOK
<1>14. PartialOnlyIfDisturbed
  BY <1>1, <1>2, <1>6 DEF PartialOnlyIfDisturbed
<1> QED BY <1>9, <1>10, <1>11, <1>12, <1>13, <1>14 DEF IInv

LEMMA NextIInv ==
  ASSUME IInv, [Next]_vars
  PROVE  IInv'
<1>1. CASE Next
  <2>1. CASE \E c \in Calls : Step(c) \/ Fault(c)
    <3>1. PICK c \in Calls : Step(c) \/ Fault(c)
      BY <2>1
    <3>2. CASE Begin(c)
      BY <3>2, BeginStays
    <3>3. CASE Prepare(c)
      BY <3>3, PrepareStays
    <3>4. CASE Enter(c)
      BY <3>4, EnterStays
    <3>5. CASE VerifyAll(c)
      BY <3>5, VerifyAllStays
    <3>6. CASE VerifyAgain(c)
      BY <3>6, VerifyAgainStays
    <3>7. CASE EnsureParent(c)
      BY <3>7, EnsureParentStays
    <3>8. CASE WriteTemporary(c)
      BY <3>8, WriteTemporaryStays
    <3>9. CASE Link(c)
      BY <3>9, LinkStays
    <3>10. CASE CleanUp(c)
      BY <3>10, RecordStays DEF CleanUp, At, disk, history
    <3>11. CASE Recheck(c)
      BY <3>11, RecheckStays
    <3>12. CASE Unlink(c)
      BY <3>12, UnlinkStays
    <3>13. CASE Fault(c)
      BY <3>13, FaultStays
    <3> QED BY <3>1, <3>2, <3>3, <3>4, <3>5, <3>6, <3>7, <3>8, <3>9, <3>10, <3>11, <3>12, <3>13 DEF Step
  <2>2. CASE \E p \in Paths : Edit(p)
    BY <2>2, EditStays
  <2> QED BY <1>1, <2>1, <2>2 DEF Next
<1>2. CASE UNCHANGED vars
  <2>1. UNCHANGED <<file, dirs, stamps, call, mutex, edits, faults, raced, disturbed>>
    BY <1>2 DEF vars, disk, history
  <2>2. FilesOK' /\ RecordsOK' /\ MutexOK' /\ HousedOK'
    BY <2>1 DEF IInv, FilesOK, RecordsOK, MutexOK, HousedOK
  <2>3. CalmOK' /\ FreshOK' /\ PartialOnlyIfDisturbed'
    BY <2>1 DEF IInv, CalmOK, FreshOK, PartialOnlyIfDisturbed
  <2> QED BY <2>2, <2>3 DEF IInv
<1> QED BY <1>1, <1>2

(* The inductive invariant holds throughout: the queue of the mutex, the     *)
(* books of every call, and what is calm, fresh and housed.                  *)
THEOREM IInvInvariant == Spec => []IInv
<1>1. Init => IInv
  BY InitIInv
<1>2. IInv /\ [Next]_vars => IInv'
  BY NextIInv
<1> QED BY <1>1, <1>2, PTL DEF Spec

(* Every entry of the mutex's queue is a different call.                     *)
LEMMA OnceInQueue ==
  ASSUME IInv, NEW c \in Calls
  PROVE  Cardinality({j \in DOMAIN mutex : mutex[j] = c}) = IF Committing(c) \/ call[c].at = "wait" THEN 1 ELSE 0
<1>1. mutex \in Seq(Calls) /\ DOMAIN mutex = 1..Len(mutex)
  BY DEF IInv, MutexOK
<1>2. (Committing(c) \/ call[c].at = "wait") = (call[c].at \in CommitSteps \cup {"wait"})
  BY DEF Committing, CommitSteps
<1>3. CASE call[c].at \in CommitSteps \cup {"wait"}
  <2>1. PICK i \in 1..Len(mutex) : mutex[i] = c
    BY <1>3 DEF IInv, MutexOK
  <2>2. {j \in DOMAIN mutex : mutex[j] = c} = {i}
    BY <1>1, <2>1 DEF IInv, MutexOK
  <2>3. Cardinality({i}) = 1
    BY FS_Singleton
  <2> QED BY <1>2, <1>3, <2>2, <2>3
<1>4. CASE call[c].at \notin CommitSteps \cup {"wait"}
  <2>1. {j \in DOMAIN mutex : mutex[j] = c} = {}
    BY <1>1, <1>4 DEF IInv, MutexOK
  <2>2. Cardinality({}) = 0
    BY FS_EmptySet
  <2> QED BY <1>2, <1>4, <2>1, <2>2
<1> QED BY <1>3, <1>4

(* Type correctness, with the queue of the mutex: a call waits or works in   *)
(* one place of it, and the one at work is at its head.                      *)
THEOREM TypeCorrect == Spec => []TypeOK
<1>1. IInv => TypeOK
  <2> SUFFICES ASSUME IInv PROVE TypeOK
    OBVIOUS
  <2>1. \A c \in Calls : LET a == call[c] IN
               /\ a.at \in Steps /\ a.result \in Results
               /\ a.patch \in Patches \cup {<<>>}
               /\ a.k \in 1..(Len(a.patch) + 1)
               /\ Len(a.snapshots) <= Len(a.patch)
               /\ a.changes \cup a.did \subseteq Effect
               /\ a.created \subseteq Dirs
               /\ (a.result = "none") = (a.at # "ended")
               /\ Cardinality({j \in DOMAIN mutex : mutex[j] = c}) = IF Committing(c) \/ a.at = "wait" THEN 1 ELSE 0
               /\ Committing(c) => Head(mutex) = c
    <3> SUFFICES ASSUME NEW c \in Calls
                 PROVE  /\ call[c].at \in Steps /\ call[c].result \in Results
                        /\ call[c].patch \in Patches \cup {<<>>}
                        /\ call[c].k \in 1..(Len(call[c].patch) + 1)
                        /\ Len(call[c].snapshots) <= Len(call[c].patch)
                        /\ call[c].changes \cup call[c].did \subseteq Effect
                        /\ call[c].created \subseteq Dirs
                        /\ (call[c].result = "none") = (call[c].at # "ended")
                        /\ Committing(c) => Head(mutex) = c
      BY OnceInQueue
    <3>1. RecordOK(call[c]) /\ call[c] \in CallType
      BY DEF IInv, RecordsOK, RecordOK
    <3>2. call[c].k \in 1..(Len(call[c].patch) + 1) /\ Len(call[c].snapshots) <= Len(call[c].patch)
      <4>1. CASE call[c].at = "idle"
        <5>1. Len(call[c].patch) = 0 /\ call[c].k = 1
          BY <4>1, <3>1 DEF RecordOK, Positioned
        <5> QED BY <5>1, <3>1 DEF RecordOK, Positioned
      <4>2. CASE call[c].at # "idle"
        <5>1. call[c].patch \in Patches /\ call[c].k \in 1..Len(call[c].patch)
          BY <4>2, <3>1 DEF RecordOK, Positioned
        <5> QED BY <5>1, <3>1, PatchSize DEF RecordOK, Positioned
      <4> QED BY <4>1, <4>2
    <3>3. Committing(c) => Head(mutex) = c
      BY DEF Committing, CommitSteps, IInv, MutexOK
    <3>4. (call[c].result = "none") = (call[c].at # "ended")
      BY <3>1 DEF RecordOK, Accounted
    <3> QED BY <3>1, <3>2, <3>3, <3>4 DEF CallType
  <2>2. /\ file \in [Paths -> 0..stamps \cup {Absent}]
        /\ dirs \subseteq Dirs
        /\ \A p \in Paths : file[p] # Absent => DirOf[p] \in dirs
        /\ mutex \in Seq(Calls)
        /\ raced \subseteq Paths
        /\ disturbed \subseteq Calls
    BY DEF IInv, FilesOK, MutexOK
  <2> QED BY <2>1, <2>2 DEF TypeOK
<1> QED BY <1>1, IInvInvariant, PTL

(* The answer of a call is what it did to the disk: an ended call lists what *)
(* it changed, a refused or failed one changed nothing, and an applied one   *)
(* did all that its patch demands, with faults and editors at any point.     *)
THEOREM ReportIsExactHolds == Spec => []ReportIsExact
<1>1. IInv => ReportIsExact
  <2> SUFFICES ASSUME IInv, NEW c \in Calls
               PROVE  /\ call[c].at = "ended" => call[c].changes = call[c].did
                      /\ call[c].result \in {"refused", "failed"} => call[c].did = {} /\ call[c].created = {}
                      /\ call[c].result = "applied" => call[c].did = Demanded(call[c].patch)
    BY DEF ReportIsExact
  <2>1. Accounted(call[c]) /\ Positioned(call[c])
    BY DEF IInv, RecordsOK, RecordOK
  <2>2. call[c].result = "applied" => call[c].did = Demanded(call[c].patch)
    <3> SUFFICES ASSUME call[c].result = "applied" PROVE call[c].did = Demanded(call[c].patch)
      OBVIOUS
    <3>1. call[c].patch \in Patches
      BY <2>1 DEF Accounted, Positioned
    <3>2. DOMAIN call[c].patch = 1..Len(call[c].patch)
      BY <3>1, PatchSize
    <3>3. call[c].did = Effects(call[c].patch, Len(call[c].patch))
      BY <2>1 DEF Accounted
    <3> QED BY <3>2, <3>3 DEF Effects, EffectOf, Demanded
  <2>3. call[c].at = "ended" => call[c].changes = call[c].did
    BY <2>1 DEF Accounted
  <2>4. call[c].result \in {"refused", "failed"} => call[c].did = {} /\ call[c].created = {}
    BY <2>1 DEF Accounted
  <2> QED BY <2>2, <2>3, <2>4
<1> QED BY <1>1, IInvInvariant, PTL

(* A patch stays partly applied only when an editor or a fault came between: *)
(* the hunks of one patch and the patches of several calls never do it.      *)
THEOREM PartialOnlyIfDisturbedHolds == Spec => []PartialOnlyIfDisturbed
<1>1. IInv => PartialOnlyIfDisturbed
  BY DEF IInv
<1> QED BY <1>1, IInvInvariant, PTL

(* The one who changes a file in a step of a call at work is that call, by   *)
(* writing its target or removing its source.                                *)
LEMMA WhoWrites ==
  ASSUME IInv, [Next]_vars, NEW c \in Calls, Committing(c), call'[c] # call[c], file' # file
  PROVE  Link(c) \/ Unlink(c)
<1>1. ~UNCHANGED vars
  BY DEF vars
<1>2. ~(\E p \in Paths : Edit(p))
  BY DEF Edit
<1>3. PICK d \in Calls : Step(d) \/ Fault(d)
  BY <1>1, <1>2 DEF Next
<1>4. Link(d) \/ Unlink(d)
  BY <1>3 DEF Step, Begin, Prepare, Enter, VerifyAll, VerifyAgain, EnsureParent, WriteTemporary, CleanUp,
              Recheck, Fault, disk
<1>5. call[d].at \in CommitSteps /\ call[c].at \in CommitSteps
  BY <1>4 DEF Link, Unlink, At, Committing, CommitSteps
<1>6. d = c
  BY <1>5, Alone
<1> QED BY <1>4, <1>6

(* Whoever saved a file last, the server replaces or removes only what the   *)
(* patch was made from, unless it was changed outside after the last         *)
(* comparison.                                                               *)
THEOREM NothingUnreadIsLostHolds == Spec => NothingUnreadIsLost
<1>1. IInv /\ [Next]_vars =>
        [\A c \in Calls, p \in Paths :
           (Committing(c) /\ call'[c] # call[c] /\ file[p] # Absent /\ file'[p] # file[p])
             => p \in raced \/ \E k \in DOMAIN call[c].patch :
                  call[c].patch[k].path = p /\ call[c].snapshots[k] = file[p]]_vars
  <2> SUFFICES ASSUME IInv, [Next]_vars, NEW c \in Calls, NEW p \in Paths,
                      Committing(c), call'[c] # call[c], file[p] # Absent, file'[p] # file[p]
               PROVE  p \in raced \/ \E k \in DOMAIN call[c].patch :
                        call[c].patch[k].path = p /\ call[c].snapshots[k] = file[p]
    OBVIOUS
  <2>1. Link(c) \/ Unlink(c)
    BY WhoWrites
  <2>2. call[c].at \in CommitSteps
    BY DEF Committing, CommitSteps
  <2>3. /\ RecordOK(call[c]) /\ call[c].k \in 1..Len(call[c].patch) /\ Hunk(c) = Current(call[c])
        /\ Hunk(c).operation \in {"add", "update", "delete", "move"}
        /\ Hunk(c).path \in Paths /\ Hunk(c).target \in Paths
        /\ Hunk(c).operation # "move" => Hunk(c).target = Hunk(c).path
        /\ file \in FileType
    BY <2>2, AtWork
  <2>4. call[c].patch \in Patches /\ call[c].k \in DOMAIN call[c].patch
    BY <2>2, <2>3, HunkAtWork, PatchSize
  <2>5. Overwrites(call[c]) /\ Hunk(c).path = p
    <3>1. CASE Link(c)
      <4>1. LinkPossible(Hunk(c)) /\ call[c].at = "link"
        BY <3>1 DEF Link, disk, At
      <4>2. file' = [file EXCEPT ![Hunk(c).target] = stamps']
        BY <3>1, <4>1 DEF Link
      <4>3. Hunk(c).target = p
        BY <2>3, <4>2 DEF FileType
      <4>4. Hunk(c).operation = "update"
        <5>1. Hunk(c).operation # "delete"
          BY <2>3, <4>1 DEF RecordOK, Positioned
        <5> QED BY <2>3, <4>1, <4>3, <5>1 DEF LinkPossible, Creates
      <4> QED BY <2>3, <4>1, <4>3, <4>4 DEF Overwrites
    <3>2. CASE Unlink(c)
      <4>1. call[c].at = "unlink" /\ file' \in {file, [file EXCEPT ![Hunk(c).path] = Absent]}
        BY <3>2 DEF Unlink, At
      <4> QED BY <2>3, <4>1 DEF Overwrites, FileType
    <3> QED BY <2>1, <3>1, <3>2
  <2>6. Fresh(file, raced, call[c])
    BY DEF IInv, FreshOK
  <2>7. p \in raced \/ call[c].snapshots[call[c].k] = file[p]
    BY <2>3, <2>5, <2>6 DEF Fresh, SourceSame
  <2> QED BY <2>3, <2>4, <2>5, <2>7 DEF Current
<1> QED BY <1>1, IInvInvariant, PTL DEF Spec, NothingUnreadIsLost

-----------------------------------------------------------------------------
(* PatchText.  Its recursions are functions on an interval: that one exists,  *)
(* and what holds along it, comes from induction over the set of the numbers   *)
(* for which it does.                                                          *)
LEMMA NatInductionOnSets ==
  ASSUME NEW T, 0 \in T, \A n \in Nat : n \in T => n + 1 \in T
  PROVE  Nat \subseteq T
<1> SUFFICES ASSUME Nat \ T # {} PROVE FALSE
  OBVIOUS
<1>1. PICK x \in Nat \ T : \A y \in Nat \ T : <<y, x>> \notin OpToRel(<, Nat)
  <2>1. IsWellFoundedOn(OpToRel(<, Nat), Nat)
    BY NatLessThanWellFounded
  <2> QED BY <2>1, WFMin
<1>2. \A y \in Nat \ T : ~(y < x)
  BY <1>1 DEF OpToRel
<1>3. x # 0
  OBVIOUS
<1>4. x - 1 \in Nat /\ x - 1 \in T
  BY <1>2, <1>3
<1> QED BY <1>4

LEMMA BoundedInduction ==
  ASSUME NEW n \in Nat, NEW T, 0 \in T, \A k \in 1..n : k - 1 \in T => k \in T
  PROVE  \A k \in 0..n : k \in T
<1> DEFINE U == {k \in Nat : k <= n => k \in T}
<1>1. 0 \in U
  OBVIOUS
<1>2. ASSUME NEW k \in Nat, k \in U PROVE k + 1 \in U
  <2>1. CASE k + 1 <= n
    <3>1. k + 1 \in 1..n /\ (k + 1) - 1 = k /\ k \in T
      BY <1>2, <2>1
    <3> QED BY <3>1
  <2>2. CASE ~(k + 1 <= n)
    BY <2>2
  <2> QED BY <2>1, <2>2
<1> HIDE DEF U
<1>3. Nat \subseteq U
  BY <1>1, <1>2, NatInductionOnSets
<1> QED BY <1>3 DEF U

(* A function can be defined by recursion over an interval.                  *)
Follows(f, base, step, m) == f[0] = base /\ \A k \in 1..m : f[k] = step[k][f[k - 1]]

LEMMA RecursionExists ==
  ASSUME NEW S, NEW base \in S, NEW n \in Nat, NEW step \in [1..n -> [S -> S]]
  PROVE  \E f \in [0..n -> S] : Follows(f, base, step, n)
<1> DEFINE T == {m \in 0..n : \E f \in [0..m -> S] : Follows(f, base, step, m)}
<1>1. 0 \in T
  <2> DEFINE f == [k \in 0..0 |-> base]
  <2>1. f \in [0..0 -> S] /\ Follows(f, base, step, 0)
    BY DEF Follows
  <2> QED BY <2>1
<1>2. ASSUME NEW m \in 1..n, m - 1 \in T PROVE m \in T
  <2>1. PICK f \in [0..(m - 1) -> S] : Follows(f, base, step, m - 1)
    BY <1>2
  <2> DEFINE g == [k \in 0..m |-> IF k = m THEN step[m][f[m - 1]] ELSE f[k]]
  <2>2. g \in [0..m -> S]
    <3>1. step[m][f[m - 1]] \in S
      OBVIOUS
    <3> QED BY <3>1
  <2>3. Follows(g, base, step, m)
    <3>1. g[0] = base
      BY <2>1 DEF Follows
    <3>2. ASSUME NEW k \in 1..m PROVE g[k] = step[k][g[k - 1]]
      <4>1. g[k - 1] = f[k - 1]
        OBVIOUS
      <4>2. CASE k = m
        BY <4>1, <4>2
      <4>3. CASE k # m
        BY <2>1, <4>1, <4>3 DEF Follows
      <4> QED BY <4>2, <4>3
    <3> HIDE DEF g
    <3> QED BY <3>1, <3>2 DEF Follows
  <2> QED BY <2>2, <2>3
<1> HIDE DEF T
<1>3. \A m \in 1..n : m - 1 \in T => m \in T
  BY <1>2
<1>4. n \in T
  <2>1. \A m \in 0..n : m \in T
    BY <1>1, <1>3, BoundedInduction
  <2> QED BY <2>1
<1> QED BY <1>4 DEF T

(* Every set of offsets has a first one.                                     *)
LEMMA FirstOf ==
  ASSUME NEW S \in SUBSET Nat, S # {}
  PROVE  Min(S) \in S /\ \A y \in S : Min(S) <= y
<1>1. PICK x \in S : \A y \in S : <<y, x>> \notin OpToRel(<, Nat)
  <2>1. IsWellFoundedOn(OpToRel(<, Nat), Nat)
    BY NatLessThanWellFounded
  <2> QED BY <2>1, WFMin
<1>2. \A y \in S : x <= y
  <2>1. \A y \in S : ~(y < x)
    BY <1>1 DEF OpToRel
  <2> QED BY <2>1
<1>3. \E z \in S : \A y \in S : z <= y
  BY <1>2
<1> QED BY <1>3, Zenon DEF Min

(* What FlattenSeq() makes of sequences, one appended after another.         *)
IsFlat(g, s) == g = [i \in 1..Len(s) |-> IF i = 1 THEN s[i] ELSE g[i - 1] \o s[i]]

LEMMA FlattenUnfolds ==
  ASSUME NEW s
  PROVE  FlattenSeq(s) = IF Len(s) = 0 THEN s ELSE (CHOOSE g : IsFlat(g, s))[Len(s)]
BY DEF FlattenSeq, IsFlat

LEMMA FlattenIs ==
  ASSUME NEW T, NEW s \in Seq(Seq(T)), NEW F \in [0..Len(s) -> Seq(T)], F[0] = <<>>,
         \A k \in 1..Len(s) : F[k] = F[k - 1] \o s[k]
  PROVE  FlattenSeq(s) = F[Len(s)]
<1>1. Len(s) \in Nat
  OBVIOUS
<1>2. CASE Len(s) = 0
  <2>1. s = <<>>
    BY <1>2, EmptySeq
  <2> QED BY <1>2, <2>1, FlattenUnfolds
<1>3. CASE Len(s) # 0
  <2>1. F[1] = s[1]
    <3>1. 1 \in 1..Len(s) /\ 1 - 1 = 0 /\ s[1] \in Seq(T)
      BY <1>1, <1>3, ElementOfSeq
    <3>2. F[1] = <<>> \o s[1]
      BY <3>1
    <3> QED BY <3>1, <3>2, ConcatEmptySeq
  <2>2. \E g : IsFlat(g, s)
    <3> DEFINE g == [i \in 1..Len(s) |-> F[i]]
    <3>1. ASSUME NEW i \in 1..Len(s) PROVE g[i] = IF i = 1 THEN s[i] ELSE g[i - 1] \o s[i]
      <4>1. CASE i = 1
        BY <2>1, <4>1
      <4>2. CASE i # 1
        <5>1. i - 1 \in 1..Len(s)
          BY <1>1, <4>2
        <5>2. g[i - 1] = F[i - 1] /\ g[i] = F[i]
          BY <5>1
        <5>3. F[i] = F[i - 1] \o s[i]
          OBVIOUS
        <5> QED BY <4>2, <5>2, <5>3
      <4> QED BY <4>1, <4>2
    <3>2. g = [i \in 1..Len(s) |-> IF i = 1 THEN s[i] ELSE g[i - 1] \o s[i]]
      BY <3>1
    <3> QED BY <3>2 DEF IsFlat
  <2> DEFINE g == CHOOSE g : IsFlat(g, s)
  <2>3. IsFlat(g, s)
    BY <2>2, Zenon
  <2> HIDE DEF g
  <2> DEFINE U == {k \in 0..Len(s) : k # 0 => g[k] = F[k]}
  <2>4. 0 \in U
    BY <1>1
  <2>5. ASSUME NEW k \in 1..Len(s), k - 1 \in U PROVE k \in U
    <3>1. g[k] = IF k = 1 THEN s[k] ELSE g[k - 1] \o s[k]
      BY <2>3 DEF IsFlat
    <3>2. CASE k = 1
      BY <2>1, <3>1, <3>2
    <3>3. CASE k # 1
      <4>1. g[k - 1] = F[k - 1]
        BY <2>5, <3>3
      <4>2. g[k] = F[k - 1] \o s[k]
        BY <3>1, <3>3, <4>1
      <4>3. F[k] = F[k - 1] \o s[k]
        OBVIOUS
      <4>4. k \in 0..Len(s) /\ g[k] = F[k]
        BY <1>1, <4>2, <4>3
      <4> QED BY <4>4
    <3> QED BY <1>1, <3>2, <3>3
  <2> HIDE DEF U
  <2>6. \A k \in 1..Len(s) : k - 1 \in U => k \in U
    BY <2>5
  <2>7. g[Len(s)] = F[Len(s)]
    <3>1. \A k \in 0..Len(s) : k \in U
      BY <1>1, <2>4, <2>6, BoundedInduction
    <3> QED BY <1>1, <1>3, <3>1 DEF U
  <2> QED BY <1>3, <2>7, FlattenUnfolds DEF g
<1> QED BY <1>2, <1>3

-----------------------------------------------------------------------------
(* What parsePatch() makes of the lines of a chunk.                          *)
NewLine == [text : Dressed, old : Nat]
ParseState == [old : Seq(Dressed), new : Seq(NewLine)]
NothingParsed == [old |-> <<>>, new |-> <<>>]
IsParse(f, lines) ==
  f = [j \in 0..Len(lines) |-> IF j = 0 THEN NothingParsed ELSE Taken(f[j - 1], lines[j])]

LEMMA ParsedUnfolds ==
  ASSUME NEW lines
  PROVE  Parsed(lines) = (CHOOSE f : IsParse(f, lines))[Len(lines)]
BY DEF Parsed, IsParse, NothingParsed

LEMMA DressedLines ==
  ASSUME NEW lines \in Seq(ChunkLine)
  PROVE  /\ Len(lines) \in Nat
         /\ \A j \in 1..Len(lines) : /\ lines[j] \in ChunkLine /\ lines[j].text \in Dressed
                                     /\ lines[j].mark \in {"kept", "removed", "added"}
<1>1. ASSUME NEW j \in 1..Len(lines) PROVE lines[j] \in ChunkLine
  BY ElementOfSeq
<1>2. ASSUME NEW l \in ChunkLine PROVE l.text \in Dressed /\ l.mark \in {"kept", "removed", "added"}
  BY DEF ChunkLine
<1> QED BY <1>1, <1>2

LEMMA TakenType ==
  ASSUME NEW p \in ParseState, NEW line \in ChunkLine
  PROVE  Taken(p, line) \in ParseState
<1>1. p.old \in Seq(Dressed) /\ p.new \in Seq(NewLine) /\ line.text \in Dressed
  BY DEF ParseState, ChunkLine
<1>2. Len(p.old) + 1 \in Nat
  BY <1>1, LenProperties
<1>3. Append(p.old, line.text) \in Seq(Dressed)
  BY <1>1, AppendProperties
<1>4. \A o \in Nat : Append(p.new, [text |-> line.text, old |-> o]) \in Seq(NewLine)
  <2> SUFFICES ASSUME NEW o \in Nat PROVE Append(p.new, [text |-> line.text, old |-> o]) \in Seq(NewLine)
    OBVIOUS
  <2>1. [text |-> line.text, old |-> o] \in NewLine
    BY <1>1 DEF NewLine
  <2> QED BY <1>1, <2>1, AppendProperties
<1>5. (IF line.mark = "kept" THEN Len(p.old) + 1 ELSE 0) \in Nat
  BY <1>2
<1>6. (IF line.mark = "added" THEN p.old ELSE Append(p.old, line.text)) \in Seq(Dressed)
  BY <1>1, <1>3
<1>7. (IF line.mark = "removed" THEN p.new
       ELSE Append(p.new, [text |-> line.text, old |-> IF line.mark = "kept" THEN Len(p.old) + 1 ELSE 0])) \in Seq(NewLine)
  BY <1>1, <1>4, <1>5
<1> QED BY <1>6, <1>7 DEF Taken, ParseState

LEMMA ParseExists ==
  ASSUME NEW lines \in Seq(ChunkLine)
  PROVE  \E f \in [0..Len(lines) -> ParseState] : IsParse(f, lines)
<1> DEFINE n == Len(lines)
           step == [k \in 1..n |-> [p \in ParseState |-> Taken(p, lines[k])]]
<1>1. n \in Nat /\ \A k \in 1..n : lines[k] \in ChunkLine
  BY DressedLines
<1>2. NothingParsed \in ParseState
  BY EmptySeq DEF NothingParsed, ParseState
<1>3. step \in [1..n -> [ParseState -> ParseState]]
  <2>1. \A k \in 1..n : \A p \in ParseState : Taken(p, lines[k]) \in ParseState
    BY <1>1, TakenType
  <2> QED BY <2>1
<1> HIDE DEF step
<1>4. PICK f \in [0..n -> ParseState] : Follows(f, NothingParsed, step, n)
  BY <1>1, <1>2, <1>3, RecursionExists
<1>5. ASSUME NEW j \in 0..n PROVE f[j] = IF j = 0 THEN NothingParsed ELSE Taken(f[j - 1], lines[j])
  <2>1. CASE j = 0
    BY <1>4, <2>1 DEF Follows
  <2>2. CASE j # 0
    <3>1. j \in 1..n /\ j - 1 \in 0..n
      BY <1>1, <2>2
    <3>2. f[j] = step[j][f[j - 1]]
      BY <1>4, <3>1 DEF Follows
    <3>3. f[j - 1] \in ParseState
      BY <3>1
    <3>4. step[j][f[j - 1]] = Taken(f[j - 1], lines[j])
      BY <3>1, <3>3 DEF step
    <3> QED BY <2>2, <3>2, <3>4
  <2> QED BY <2>1, <2>2
<1>6. f = [j \in 0..n |-> IF j = 0 THEN NothingParsed ELSE Taken(f[j - 1], lines[j])]
  BY <1>5
<1> QED BY <1>6 DEF IsParse

(* The lines sought up to each of a chunk's.                                 *)
LEMMA SoughtCounts ==
  ASSUME NEW lines \in Seq(ChunkLine)
  PROVE  /\ Sought(lines, 0) = 0
         /\ \A j \in 1..Len(lines) :
              Sought(lines, j) = Sought(lines, j - 1) + IF lines[j].mark = "added" THEN 0 ELSE 1
         /\ \A j \in 0..Len(lines) : Sought(lines, j) \in Nat
<1> DEFINE UpTo(j) == {i \in 1..j : lines[i].mark # "added"}
<1>1. Len(lines) \in Nat
  BY DressedLines
<1>2. ASSUME NEW j \in 0..Len(lines) PROVE IsFiniteSet(UpTo(j)) /\ Sought(lines, j) = Cardinality(UpTo(j)) /\ Cardinality(UpTo(j)) \in Nat
  <2>1. IsFiniteSet(1..j)
    BY <1>1, FS_Interval
  <2>2. IsFiniteSet(UpTo(j))
    BY <2>1, FS_Subset
  <2> QED BY <2>2, FS_CardinalityType DEF Sought
<1>3. Sought(lines, 0) = 0
  <2>1. UpTo(0) = {}
    OBVIOUS
  <2> QED BY <2>1, FS_EmptySet DEF Sought
<1>4. ASSUME NEW j \in 1..Len(lines)
      PROVE  Sought(lines, j) = Sought(lines, j - 1) + IF lines[j].mark = "added" THEN 0 ELSE 1
  <2>1. j - 1 \in 0..Len(lines) /\ j \in 0..Len(lines)
    BY <1>1
  <2>2. CASE lines[j].mark = "added"
    <3>1. UpTo(j) = UpTo(j - 1)
      BY <2>1, <2>2
    <3>2. Sought(lines, j) = Sought(lines, j - 1)
      BY <1>2, <2>1, <3>1
    <3>3. Sought(lines, j - 1) \in Nat
      BY <1>2, <2>1
    <3> QED BY <2>2, <3>2, <3>3
  <2>3. CASE lines[j].mark # "added"
    <3>1. UpTo(j) = UpTo(j - 1) \cup {j} /\ j \notin UpTo(j - 1)
      BY <2>1, <2>3
    <3> HIDE DEF UpTo
    <3>2. Cardinality(UpTo(j)) = Cardinality(UpTo(j - 1)) + 1
      BY <1>2, <2>1, <3>1, FS_AddElement
    <3> QED BY <1>2, <2>1, <2>3, <3>2
  <2> QED BY <2>2, <2>3
<1> QED BY <1>2, <1>3, <1>4

(* A parse knows how many lines are sought, and its kept lines are of these.  *)
ParseFits(p, lines, j) == /\ Len(p.old) = Sought(lines, j)
                          /\ \A i \in DOMAIN p.new : p.new[i].old <= Sought(lines, j)

LEMMA TakenFits ==
  ASSUME NEW lines \in Seq(ChunkLine), NEW j \in 1..Len(lines), NEW p \in ParseState, ParseFits(p, lines, j - 1)
  PROVE  ParseFits(Taken(p, lines[j]), lines, j)
<1> DEFINE line == lines[j]
           q == Taken(p, line)
<1>1. line \in ChunkLine /\ line.text \in Dressed /\ line.mark \in {"kept", "removed", "added"} /\ Len(lines) \in Nat
  BY DressedLines
<1>2. p.old \in Seq(Dressed) /\ p.new \in Seq(NewLine) /\ Len(p.old) \in Nat /\ Len(p.new) \in Nat
      /\ DOMAIN p.new = 1..Len(p.new)
  BY LenProperties DEF ParseState
<1>3. j - 1 \in 0..Len(lines) /\ j \in 0..Len(lines)
  BY <1>1
<1>4. /\ Sought(lines, j - 1) \in Nat /\ Sought(lines, j) \in Nat
      /\ Sought(lines, j) = Sought(lines, j - 1) + IF line.mark = "added" THEN 0 ELSE 1
  BY <1>3, SoughtCounts
<1>5. Len(q.old) = Sought(lines, j)
  <2>1. CASE line.mark = "added"
    BY <1>4, <2>1 DEF Taken, ParseFits
  <2>2. CASE line.mark # "added"
    <3>1. q.old = Append(p.old, line.text)
      BY <2>2 DEF Taken
    <3>2. Len(q.old) = Len(p.old) + 1
      BY <1>1, <1>2, <3>1, AppendProperties
    <3> QED BY <1>4, <2>2, <3>2 DEF ParseFits
  <2> QED BY <2>1, <2>2
<1>6. ASSUME NEW i \in DOMAIN q.new PROVE q.new[i].old <= Sought(lines, j)
  <2>0. \A k \in 1..Len(p.new) : p.new[k].old \in Nat /\ p.new[k].old <= Sought(lines, j)
    <3> SUFFICES ASSUME NEW k \in 1..Len(p.new) PROVE p.new[k].old \in Nat /\ p.new[k].old <= Sought(lines, j)
      OBVIOUS
    <3>1. p.new[k] \in NewLine
      BY <1>2, ElementOfSeq
    <3>2. p.new[k].old \in Nat
      BY <3>1 DEF NewLine
    <3>3. p.new[k].old <= Sought(lines, j - 1)
      BY <1>2 DEF ParseFits
    <3> QED BY <1>4, <3>2, <3>3
  <2>1. CASE line.mark = "removed"
    <3>1. q.new = p.new
      BY <2>1 DEF Taken
    <3> QED BY <1>2, <2>0, <3>1
  <2>2. CASE line.mark # "removed"
    <3> DEFINE e == [text |-> line.text, old |-> IF line.mark = "kept" THEN Len(p.old) + 1 ELSE 0]
    <3>1. q.new = Append(p.new, e)
      BY <2>2 DEF Taken
    <3>2. e \in NewLine
      BY <1>1, <1>2 DEF NewLine
    <3>3. e.old <= Sought(lines, j)
      BY <1>1, <1>4 DEF ParseFits
    <3> HIDE DEF e
    <3>4. /\ Len(q.new) = Len(p.new) + 1 /\ q.new \in Seq(NewLine)
          /\ \A k \in 1..Len(p.new) : q.new[k] = p.new[k]
          /\ q.new[Len(p.new) + 1] = e
      BY <1>2, <3>1, <3>2, AppendProperties
    <3>5. i \in 1..(Len(p.new) + 1)
      BY <3>4, LenProperties
    <3>6. CASE i = Len(p.new) + 1
      BY <3>3, <3>4, <3>6
    <3>7. CASE i # Len(p.new) + 1
      <4>1. i \in 1..Len(p.new)
        BY <1>2, <3>5, <3>7
      <4> QED BY <2>0, <3>4, <4>1
    <3> QED BY <3>6, <3>7
  <2> QED BY <2>1, <2>2
<1> QED BY <1>5, <1>6 DEF ParseFits

LEMMA ParsesFit ==
  ASSUME NEW lines \in Seq(ChunkLine), NEW f \in [0..Len(lines) -> ParseState], IsParse(f, lines)
  PROVE  \A j \in 0..Len(lines) : ParseFits(f[j], lines, j)
<1> DEFINE n == Len(lines)
           T == {j \in 0..n : ParseFits(f[j], lines, j)}
<1>1. n \in Nat
  BY DressedLines
<1>2. 0 \in T
  <2>1. f[0] = NothingParsed
    BY <1>1 DEF IsParse
  <2>2. Len(NothingParsed.old) = 0 /\ DOMAIN NothingParsed.new = {}
    BY EmptySeq DEF NothingParsed
  <2> QED BY <1>1, <2>1, <2>2, SoughtCounts DEF ParseFits
<1>3. ASSUME NEW j \in 1..n, j - 1 \in T PROVE j \in T
  <2>1. j \in 0..n /\ j - 1 \in 0..n /\ j # 0
    BY <1>1
  <2>2. f[j] = Taken(f[j - 1], lines[j])
    BY <2>1 DEF IsParse
  <2>3. f[j - 1] \in ParseState /\ ParseFits(f[j - 1], lines, j - 1)
    BY <1>3, <2>1
  <2>4. ParseFits(f[j], lines, j)
    BY <2>2, <2>3, TakenFits
  <2> QED BY <2>1, <2>4
<1> HIDE DEF T
<1>4. \A j \in 1..n : j - 1 \in T => j \in T
  BY <1>3
<1>5. \A j \in 0..n : j \in T
  BY <1>1, <1>2, <1>4, BoundedInduction
<1> QED BY <1>5 DEF T

LEMMA ParsedOK ==
  ASSUME NEW lines \in Seq(ChunkLine)
  PROVE  /\ Parsed(lines) \in ParseState
         /\ ParseFits(Parsed(lines), lines, Len(lines))
         /\ \E f \in [0..Len(lines) -> ParseState] : IsParse(f, lines) /\ Parsed(lines) = f[Len(lines)]
<1> DEFINE g == CHOOSE f : IsParse(f, lines)
<1>1. IsParse(g, lines)
  BY ParseExists, Zenon
<1> HIDE DEF g
<1>2. PICK f \in [0..Len(lines) -> ParseState] : IsParse(f, lines)
  BY ParseExists
<1>3. Len(lines) \in Nat
  BY DressedLines
<1> DEFINE T == {j \in 0..Len(lines) : g[j] = f[j]}
<1>4. 0 \in T
  <2>1. 0 \in 0..Len(lines)
    BY <1>3
  <2>2. g[0] = NothingParsed /\ f[0] = NothingParsed
    BY <1>1, <1>2, <2>1 DEF IsParse
  <2> QED BY <2>1, <2>2
<1>5. ASSUME NEW j \in 1..Len(lines), j - 1 \in T PROVE j \in T
  <2>1. j \in 0..Len(lines) /\ j # 0
    BY <1>3
  <2>2. g[j] = Taken(g[j - 1], lines[j]) /\ f[j] = Taken(f[j - 1], lines[j])
    BY <1>1, <1>2, <2>1 DEF IsParse
  <2>3. g[j - 1] = f[j - 1]
    BY <1>5
  <2> QED BY <2>1, <2>2, <2>3
<1> HIDE DEF T
<1>6. \A j \in 1..Len(lines) : j - 1 \in T => j \in T
  BY <1>5
<1>7. \A j \in 0..Len(lines) : j \in T
  BY <1>3, <1>4, <1>6, BoundedInduction
<1>8. Len(lines) \in 0..Len(lines)
  BY <1>3
<1>9. g[Len(lines)] = f[Len(lines)]
  BY <1>7, <1>8 DEF T
<1>10. Parsed(lines) = f[Len(lines)]
  BY <1>9, ParsedUnfolds DEF g
<1>11. ParseFits(f[Len(lines)], lines, Len(lines))
  BY <1>2, <1>8, ParsesFit
<1> QED BY <1>2, <1>8, <1>10, <1>11

-----------------------------------------------------------------------------
(* What a chunk leaves of its lines.                                          *)
ValueOf(e, texts, at) == IF e.old = 0 THEN e.text ELSE texts[at + e.old]
Shown(new, texts, at) == [i \in DOMAIN new |-> ValueOf(new[i], texts, at)]

LEMMA FunctionIsSeq ==
  ASSUME NEW S, NEW n \in Nat, NEW f \in [1..n -> S]
  PROVE  f \in Seq(S) /\ Len(f) = n /\ DOMAIN f = 1..n
<1>1. f \in Seq(S)
  BY SeqDef
<1>2. DOMAIN f = 1..n /\ DOMAIN f = 1..Len(f) /\ Len(f) \in Nat
  BY <1>1, LenProperties
<1> QED BY <1>1, <1>2

LEMMA ValueType ==
  ASSUME NEW texts \in Seq(Dressed), NEW at \in Nat, NEW e \in NewLine, at + e.old <= Len(texts)
  PROVE  ValueOf(e, texts, at) \in Dressed
<1>1. e.old \in Nat /\ e.text \in Dressed /\ Len(texts) \in Nat
  BY LenProperties DEF NewLine
<1>2. CASE e.old = 0
  BY <1>1, <1>2 DEF ValueOf
<1>3. CASE e.old # 0
  <2>1. at + e.old \in 1..Len(texts)
    BY <1>1, <1>3
  <2>2. texts[at + e.old] \in Dressed
    BY <2>1, ElementOfSeq
  <2> QED BY <1>3, <2>2 DEF ValueOf
<1> QED BY <1>2, <1>3

LEMMA ShownType ==
  ASSUME NEW texts \in Seq(Dressed), NEW at \in Nat, NEW new \in Seq(NewLine),
         \A i \in DOMAIN new : at + new[i].old <= Len(texts)
  PROVE  /\ Shown(new, texts, at) \in Seq(Dressed)
         /\ Len(Shown(new, texts, at)) = Len(new)
         /\ \A i \in 1..Len(new) : Shown(new, texts, at)[i] = ValueOf(new[i], texts, at)
<1>1. Len(new) \in Nat /\ DOMAIN new = 1..Len(new)
  BY LenProperties
<1>2. ASSUME NEW i \in 1..Len(new) PROVE ValueOf(new[i], texts, at) \in Dressed
  <2>1. new[i] \in NewLine
    BY ElementOfSeq
  <2> QED BY <1>1, <2>1, ValueType
<1>3. Shown(new, texts, at) \in [1..Len(new) -> Dressed]
  BY <1>1, <1>2 DEF Shown
<1>4. \A i \in 1..Len(new) : Shown(new, texts, at)[i] = ValueOf(new[i], texts, at)
  BY <1>1 DEF Shown
<1> QED BY <1>1, <1>3, <1>4, FunctionIsSeq

LEMMA ShownAppend ==
  ASSUME NEW texts \in Seq(Dressed), NEW at \in Nat, NEW new \in Seq(NewLine), NEW e \in NewLine,
         \A i \in DOMAIN new : at + new[i].old <= Len(texts), at + e.old <= Len(texts)
  PROVE  Shown(Append(new, e), texts, at) = Shown(new, texts, at) \o <<ValueOf(e, texts, at)>>
<1> DEFINE more == Append(new, e)
           v == ValueOf(e, texts, at)
           n == Len(new)
<1>1. n \in Nat /\ DOMAIN new = 1..n
  BY LenProperties
<1>2. more \in Seq(NewLine) /\ Len(more) = n + 1 /\ (\A i \in 1..n : more[i] = new[i]) /\ more[n + 1] = e
  BY AppendProperties
<1> HIDE DEF more
<1>3. DOMAIN more = 1..(n + 1)
  BY <1>2, LenProperties
<1>4. \A i \in DOMAIN more : at + more[i].old <= Len(texts)
  <2> SUFFICES ASSUME NEW i \in 1..(n + 1) PROVE at + more[i].old <= Len(texts)
    BY <1>3
  <2>1. i \in 1..n \/ i = n + 1
    BY <1>1
  <2> QED BY <1>1, <1>2, <2>1
<1>5. v \in Dressed
  BY ValueType
<1> HIDE DEF v
<1>6. <<v>> \in Seq(Dressed) /\ Len(<<v>>) = 1 /\ <<v>>[1] = v
  BY <1>5
<1>7. /\ Shown(new, texts, at) \in Seq(Dressed) /\ Len(Shown(new, texts, at)) = n
      /\ \A i \in 1..n : Shown(new, texts, at)[i] = ValueOf(new[i], texts, at)
  BY ShownType
<1>8. /\ Shown(more, texts, at) \in Seq(Dressed) /\ Len(Shown(more, texts, at)) = n + 1
      /\ \A i \in 1..(n + 1) : Shown(more, texts, at)[i] = ValueOf(more[i], texts, at)
  BY <1>2, <1>4, ShownType
<1> DEFINE both == Shown(new, texts, at) \o <<v>>
<1>9. /\ both \in Seq(Dressed) /\ Len(both) = n + 1
      /\ \A i \in 1..(n + 1) : both[i] = IF i <= n THEN Shown(new, texts, at)[i] ELSE <<v>>[i - n]
  BY <1>6, <1>7, ConcatProperties
<1> HIDE DEF both
<1>10. ASSUME NEW i \in 1..(n + 1) PROVE Shown(more, texts, at)[i] = both[i]
  <2>1. CASE i \in 1..n
    <3>1. i <= n /\ i \in 1..(n + 1)
      BY <1>1, <2>1
    <3>2. both[i] = Shown(new, texts, at)[i]
      BY <1>9, <3>1
    <3>3. Shown(new, texts, at)[i] = ValueOf(new[i], texts, at)
      BY <1>7, <2>1
    <3>4. Shown(more, texts, at)[i] = ValueOf(more[i], texts, at)
      BY <1>8
    <3>5. more[i] = new[i]
      BY <1>2, <2>1
    <3> QED BY <3>2, <3>3, <3>4, <3>5
  <2>2. CASE i \notin 1..n
    <3>1. i = n + 1 /\ i - n = 1 /\ ~(i <= n)
      BY <1>1, <2>2
    <3>2. both[i] = v
      BY <1>6, <1>9, <3>1
    <3>3. Shown(more, texts, at)[i] = v
      BY <1>2, <1>8, <3>1 DEF v
    <3> QED BY <3>2, <3>3
  <2> QED BY <2>1, <2>2
<1>11. Shown(more, texts, at) = both
  BY <1>8, <1>9, <1>10, SeqEqual
<1> QED BY <1>11 DEF both, more, v

LEMMA SoughtGrows ==
  ASSUME NEW lines \in Seq(ChunkLine), NEW j \in 0..Len(lines)
  PROVE  Sought(lines, j) <= Sought(lines, Len(lines))
<1> DEFINE n == Len(lines)
           UpTo(k) == {i \in 1..k : lines[i].mark # "added"}
<1>1. n \in Nat
  BY DressedLines
<1>2. IsFiniteSet(UpTo(n))
  <2>1. IsFiniteSet(1..n)
    BY <1>1, FS_Interval
  <2> QED BY <2>1, FS_Subset
<1>3. UpTo(j) \subseteq UpTo(n)
  BY <1>1
<1> HIDE DEF UpTo
<1>4. Cardinality(UpTo(j)) <= Cardinality(UpTo(n))
  BY <1>2, <1>3, FS_Subset
<1> QED BY <1>4 DEF Sought, UpTo

LEMMA SoughtStep ==
  ASSUME NEW lines \in Seq(ChunkLine), NEW j \in 1..Len(lines)
  PROVE  /\ Sought(lines, j) \in Nat /\ Sought(lines, j - 1) \in Nat /\ Sought(lines, Len(lines)) \in Nat
         /\ lines[j].mark = "added" => Sought(lines, j) = Sought(lines, j - 1)
         /\ lines[j].mark # "added" => Sought(lines, j) = Sought(lines, j - 1) + 1
         /\ Sought(lines, j) <= Sought(lines, Len(lines))
<1>1. Len(lines) \in Nat
  BY DressedLines
<1>2. j \in 0..Len(lines) /\ j - 1 \in 0..Len(lines) /\ Len(lines) \in 0..Len(lines)
  BY <1>1
<1>3. Sought(lines, j) \in Nat /\ Sought(lines, j - 1) \in Nat /\ Sought(lines, Len(lines)) \in Nat
  BY <1>2, SoughtCounts
<1>4. Sought(lines, j) = Sought(lines, j - 1) + IF lines[j].mark = "added" THEN 0 ELSE 1
  BY SoughtCounts
<1>5. Sought(lines, j) <= Sought(lines, Len(lines))
  BY <1>2, SoughtGrows
<1> QED BY <1>3, <1>4, <1>5

LEMMA LeftTypes ==
  ASSUME NEW texts \in Seq(Dressed), NEW lines \in Seq(ChunkLine), NEW at \in Nat,
         at + Sought(lines, Len(lines)) <= Len(texts)
  PROVE  LET left == Left(texts, lines, at) IN
         /\ left \in Seq(Seq(Dressed)) /\ Len(left) = Len(lines)
         /\ \A j \in 1..Len(lines) :
              /\ lines[j].mark = "kept" => left[j] = <<texts[at + Sought(lines, j)]>>
              /\ lines[j].mark = "added" => left[j] = <<lines[j].text>>
              /\ lines[j].mark = "removed" => left[j] = <<>>
<1> DEFINE n == Len(lines)
           left == Left(texts, lines, at)
<1>1. n \in Nat /\ DOMAIN lines = 1..n /\ Len(texts) \in Nat
  BY DressedLines, LenProperties
<1>2. ASSUME NEW j \in 1..n
      PROVE  /\ lines[j].mark = "kept" => left[j] = <<texts[at + Sought(lines, j)]>>
             /\ lines[j].mark = "added" => left[j] = <<lines[j].text>>
             /\ lines[j].mark = "removed" => left[j] = <<>>
  BY <1>1 DEF Left
<1>3. ASSUME NEW j \in 1..n PROVE left[j] \in Seq(Dressed)
  <2>1. lines[j].mark \in {"kept", "removed", "added"} /\ lines[j].text \in Dressed
    BY DressedLines
  <2>2. ASSUME lines[j].mark = "kept" PROVE texts[at + Sought(lines, j)] \in Dressed
    <3>1. /\ Sought(lines, j) \in Nat /\ Sought(lines, j - 1) \in Nat /\ Sought(lines, n) \in Nat
          /\ Sought(lines, j) = Sought(lines, j - 1) + 1 /\ Sought(lines, j) <= Sought(lines, n)
      BY <2>2, SoughtStep
    <3>2. at + Sought(lines, j) \in 1..Len(texts)
      BY <1>1, <3>1
    <3> QED BY <3>2, ElementOfSeq
  <2>3. CASE lines[j].mark = "kept"
    <3>1. PICK t \in Dressed : left[j] = <<t>>
      BY <1>2, <2>2, <2>3
    <3> QED BY <3>1
  <2>4. CASE lines[j].mark = "added"
    <3>1. PICK t \in Dressed : left[j] = <<t>>
      BY <1>2, <2>1, <2>4
    <3> QED BY <3>1
  <2>5. CASE lines[j].mark = "removed"
    BY <1>2, <2>5, EmptySeq
  <2> QED BY <2>1, <2>3, <2>4, <2>5
<1>4. left \in [1..n -> Seq(Dressed)]
  BY <1>1, <1>3 DEF Left
<1> HIDE DEF left
<1>5. left \in Seq(Seq(Dressed)) /\ Len(left) = n
  BY <1>1, <1>4, FunctionIsSeq
<1> QED BY <1>2, <1>5 DEF left

(* The lines that parsePatch() has a chunk leave are those that the reference  *)
(* takes from it one by one.                                                  *)
LEMMA LeftIsShown ==
  ASSUME NEW texts \in Seq(Dressed), NEW lines \in Seq(ChunkLine), NEW at \in Nat,
         at + Sought(lines, Len(lines)) <= Len(texts)
  PROVE  /\ FlattenSeq(Left(texts, lines, at)) = Shown(Parsed(lines).new, texts, at)
         /\ Shown(Parsed(lines).new, texts, at) \in Seq(Dressed)
<1> DEFINE n == Len(lines)
           left == Left(texts, lines, at)
<1>1. n \in Nat /\ Len(texts) \in Nat /\ Sought(lines, n) \in Nat
  <2>1. n \in Nat /\ Len(texts) \in Nat
    BY DressedLines, LenProperties
  <2>2. n \in 0..n
    BY <2>1
  <2> QED BY <2>1, <2>2, SoughtCounts
<1>2. PICK f \in [0..n -> ParseState] : IsParse(f, lines) /\ Parsed(lines) = f[n]
  BY ParsedOK
<1>3. \A j \in 0..n : f[j] \in ParseState /\ ParseFits(f[j], lines, j)
  BY <1>2, ParsesFit
<1>4. ASSUME NEW j \in 0..n
      PROVE  /\ f[j].new \in Seq(NewLine) /\ \A i \in DOMAIN f[j].new : at + f[j].new[i].old <= Len(texts)
             /\ Shown(f[j].new, texts, at) \in Seq(Dressed)
             /\ Len(Shown(f[j].new, texts, at)) = Len(f[j].new)
  <2>1. f[j].new \in Seq(NewLine)
    BY <1>3 DEF ParseState
  <2>2. Sought(lines, j) <= Sought(lines, n) /\ Sought(lines, j) \in Nat
    BY SoughtGrows, SoughtCounts
  <2>3. ASSUME NEW i \in DOMAIN f[j].new PROVE at + f[j].new[i].old <= Len(texts)
    <3>1. f[j].new[i].old <= Sought(lines, j)
      BY <1>3 DEF ParseFits
    <3>2. f[j].new[i].old \in Nat
      <4>1. i \in 1..Len(f[j].new)
        BY <2>1, LenProperties
      <4>2. f[j].new[i] \in NewLine
        BY <2>1, <4>1, ElementOfSeq
      <4> QED BY <4>2 DEF NewLine
    <3> QED BY <1>1, <2>2, <3>1, <3>2
  <2> QED BY <2>1, <2>3, ShownType
<1> DEFINE F == [j \in 0..n |-> Shown(f[j].new, texts, at)]
<1>5. F \in [0..n -> Seq(Dressed)]
  BY <1>4
<1>6. F[0] = <<>>
  <2>1. 0 \in 0..n
    BY <1>1
  <2>2. f[0].new = <<>>
    BY <1>2, <2>1 DEF IsParse, NothingParsed
  <2>3. Len(F[0]) = 0 /\ F[0] \in Seq(Dressed)
    BY <1>4, <2>1, <2>2, EmptySeq
  <2> HIDE DEF F
  <2> QED BY <2>3, EmptySeq
<1>7. /\ left \in Seq(Seq(Dressed)) /\ Len(left) = n
      /\ \A j \in 1..n : /\ lines[j].mark = "kept" => left[j] = <<texts[at + Sought(lines, j)]>>
                         /\ lines[j].mark = "added" => left[j] = <<lines[j].text>>
                         /\ lines[j].mark = "removed" => left[j] = <<>>
  BY LeftTypes
<1> HIDE DEF left
<1>8. ASSUME NEW j \in 1..n PROVE F[j] = F[j - 1] \o left[j]
  <2> DEFINE p == f[j - 1]
             line == lines[j]
             e == [text |-> line.text, old |-> IF line.mark = "kept" THEN Len(p.old) + 1 ELSE 0]
  <2>1. j \in 0..n /\ j - 1 \in 0..n /\ j # 0
    BY <1>1
  <2>2. f[j] = Taken(p, line) /\ F[j] = Shown(f[j].new, texts, at) /\ F[j - 1] = Shown(p.new, texts, at)
    BY <1>2, <2>1 DEF IsParse
  <2>3. line.text \in Dressed /\ line.mark \in {"kept", "removed", "added"}
    BY DressedLines
  <2>4. /\ p.new \in Seq(NewLine) /\ (\A i \in DOMAIN p.new : at + p.new[i].old <= Len(texts))
        /\ F[j - 1] \in Seq(Dressed)
    BY <1>4, <2>1, <2>2
  <2>5. /\ Len(p.old) = Sought(lines, j - 1) /\ Sought(lines, j - 1) \in Nat
        /\ line.mark # "added" => Sought(lines, j) = Sought(lines, j - 1) + 1
        /\ Sought(lines, j) <= Sought(lines, n) /\ Sought(lines, j) \in Nat
    <3>1. Len(p.old) = Sought(lines, j - 1)
      BY <1>3, <2>1 DEF ParseFits
    <3> QED BY <3>1, SoughtStep
  <2> HIDE DEF F
  <2>6. CASE line.mark = "removed"
    <3>1. f[j].new = p.new
      BY <2>2, <2>6 DEF Taken
    <3>2. left[j] = <<>>
      BY <1>7, <2>6
    <3> QED BY <2>2, <2>4, <3>1, <3>2, ConcatEmptySeq
  <2>7. CASE line.mark # "removed"
    <3>1. f[j].new = Append(p.new, e)
      BY <2>2, <2>7 DEF Taken
    <3>2. e \in NewLine
      BY <2>3, <2>5 DEF NewLine
    <3>3. at + e.old <= Len(texts)
      BY <1>1, <2>3, <2>5, <2>7
    <3>4. left[j] = <<ValueOf(e, texts, at)>>
      <4>1. CASE line.mark = "kept"
        <5>1. e.old = Sought(lines, j) /\ e.old # 0
          BY <2>5, <4>1
        <5>2. left[j] = <<texts[at + Sought(lines, j)]>>
          BY <1>7, <4>1
        <5> HIDE DEF e
        <5> QED BY <5>1, <5>2 DEF ValueOf
      <4>2. CASE line.mark = "added"
        <5>1. e.old = 0 /\ e.text = line.text
          BY <4>2
        <5>2. left[j] = <<line.text>>
          BY <1>7, <4>2
        <5> HIDE DEF e
        <5> QED BY <5>1, <5>2 DEF ValueOf
      <4> QED BY <2>3, <2>7, <4>1, <4>2
    <3> HIDE DEF e
    <3>5. Shown(f[j].new, texts, at) = Shown(p.new, texts, at) \o <<ValueOf(e, texts, at)>>
      BY <2>4, <3>1, <3>2, <3>3, ShownAppend
    <3> QED BY <2>2, <3>4, <3>5
  <2> QED BY <2>6, <2>7
<1>9. F[n] = Shown(Parsed(lines).new, texts, at) /\ F[n] \in Seq(Dressed)
  <2>1. n \in 0..n
    BY <1>1
  <2> QED BY <1>2, <1>4, <2>1
<1> HIDE DEF F
<1>10. FlattenSeq(left) = F[n]
  BY <1>5, <1>6, <1>7, <1>8, FlattenIs
<1> QED BY <1>9, <1>10 DEF left

-----------------------------------------------------------------------------
(* Where lines are found.                                                     *)
LEMMA LooksLater ==
  ASSUME NEW t \in Dressed, NEW u \in Dressed, NEW pass, Looks(t, pass) = Looks(u, pass)
  PROVE  Looks(t, 4) = Looks(u, 4)
<1>1. t.word = u.word
  <2>1. \A x \in Dressed : Looks(x, pass).word = x.word
    BY DEF Looks, Dressed
  <2> QED BY <2>1
<1>2. \A x \in Dressed : Looks(x, 4) = [word |-> x.word, dressing |-> 0]
  BY DEF Looks, Dressed
<1> QED BY <1>1, <1>2

LEMMA ReadsLater ==
  ASSUME NEW texts \in Seq(Dressed), NEW pattern \in Seq(Dressed), NEW i \in Nat, i + Len(pattern) <= Len(texts),
         NEW pass, Reads(texts, pattern, i, pass)
  PROVE  Reads(texts, pattern, i, 4)
<1> SUFFICES ASSUME NEW j \in DOMAIN pattern PROVE Looks(texts[i + j], 4) = Looks(pattern[j], 4)
  BY DEF Reads
<1>1. Len(pattern) \in Nat /\ Len(texts) \in Nat /\ j \in 1..Len(pattern)
  BY LenProperties
<1>2. i + j \in 1..Len(texts)
  BY <1>1
<1>3. texts[i + j] \in Dressed /\ pattern[j] \in Dressed
  BY <1>1, <1>2, ElementOfSeq
<1>4. Looks(texts[i + j], pass) = Looks(pattern[j], pass)
  BY DEF Reads
<1> QED BY <1>3, <1>4, LooksLater

(* seekSequence() finds lines only where they read as the pattern does, at    *)
(* the end if it is told to, and no later than where they read the same       *)
(* character by character.                                                    *)
LEMMA SeekOK ==
  ASSUME NEW texts \in Seq(Dressed), NEW pattern \in Seq(Dressed), pattern # <<>>, NEW start \in Nat, NEW eof \in BOOLEAN
  PROVE  LET r == Seek(texts, pattern, start, eof) IN
         /\ r \in Nat \cup {NotFound}
         /\ r # NotFound => /\ start <= r /\ r + Len(pattern) <= Len(texts) /\ Reads(texts, pattern, r, 4)
                            /\ eof => r + Len(pattern) = Len(texts)
         /\ \A i \in Nat : /\ start <= i /\ i + Len(pattern) <= Len(texts) /\ Reads(texts, pattern, i, 1)
                           /\ eof => i + Len(pattern) = Len(texts)
                           => r # NotFound /\ r <= i
<1> DEFINE n == Len(texts)
           m == Len(pattern)
           first == IF eof THEN Larger(start, n - m) ELSE start
           Places(pass) == {i \in first..(n - m) : Reads(texts, pattern, i, pass)}
           passes == {pass \in 1..4 : Places(pass) # {}}
           r == Seek(texts, pattern, start, eof)
<1>1. n \in Nat /\ m \in Nat /\ NotFound \notin Nat
  BY LenProperties DEF NotFound
<1>2. first \in Nat /\ start <= first /\ (eof => n - m <= first) /\ (~eof => first = start) /\ (eof => first = start \/ first = n - m)
  BY <1>1 DEF Larger
<1>3. r = IF passes = {} THEN NotFound ELSE Min(Places(Min(passes)))
  BY Zenon DEF Seek
<1> HIDE DEF r, first
<1>4. \A pass : Places(pass) \in SUBSET Nat
  BY <1>1, <1>2
<1>5. CASE passes = {}
  <2>1. r = NotFound
    BY <1>3, <1>5
  <2>2. Places(1) = {}
    BY <1>5
  <2>3. ASSUME NEW i \in Nat, start <= i, i + m <= n, Reads(texts, pattern, i, 1), eof => i + m = n PROVE FALSE
    <3>1. i \in first..(n - m)
      BY <1>1, <1>2, <2>3
    <3> QED BY <2>2, <2>3, <3>1
  <2> QED BY <2>1, <2>3 DEF r
<1>6. CASE passes # {}
  <2> DEFINE pass == Min(passes)
  <2>1. passes \in SUBSET Nat
    OBVIOUS
  <2> HIDE DEF passes
  <2>2. pass \in passes /\ \A q \in passes : pass <= q
    BY <1>6, <2>1, FirstOf
  <2>3. Places(pass) # {} /\ pass \in 1..4
    BY <2>2 DEF passes
  <2> HIDE DEF pass, Places
  <2>4. r \in Places(pass) /\ \A i \in Places(pass) : r <= i
    <3>1. PICK P \in SUBSET Nat : P = Places(pass)
      BY <1>4
    <3>2. r = Min(P)
      BY <1>3, <1>6, <3>1 DEF pass
    <3> QED BY <2>3, <3>1, <3>2, FirstOf
  <2>5. r \in first..(n - m) /\ Reads(texts, pattern, r, pass)
    BY <2>4 DEF Places
  <2>6. r \in Nat /\ start <= r /\ r + m <= n /\ (eof => r + m = n)
    BY <1>1, <1>2, <2>5
  <2>7. Reads(texts, pattern, r, 4)
    BY <2>5, <2>6, ReadsLater
  <2>8. ASSUME NEW i \in Nat, start <= i, i + m <= n, Reads(texts, pattern, i, 1), eof => i + m = n PROVE r <= i
    <3>1. i \in first..(n - m)
      BY <1>1, <1>2, <2>8
    <3>2. i \in Places(1)
      BY <2>8, <3>1 DEF Places
    <3>3. 1 \in passes
      BY <3>2 DEF passes
    <3>4. pass = 1
      BY <2>2, <2>3, <3>3
    <3> QED BY <2>4, <3>2, <3>4
  <2>9. r # NotFound
    BY <1>1, <2>6
  <2> QED BY <2>6, <2>7, <2>8, <2>9 DEF r
<1> QED BY <1>5, <1>6

LEMMA ChunkParts ==
  ASSUME NEW chunk \in Chunk
  PROVE  /\ chunk.lines \in Seq(ChunkLine) /\ chunk.eof \in BOOLEAN
         /\ Old(chunk) \in Seq(Dressed) /\ Len(Old(chunk)) = Sought(chunk.lines, Len(chunk.lines)) /\ Len(Old(chunk)) \in Nat
         /\ chunk.context \in Seq(Dressed) /\ (~NoContext(chunk) => chunk.context # <<>> /\ Len(chunk.context) = 1)
<1>1. /\ chunk.lines \in Seq(ChunkLine) /\ chunk.eof \in BOOLEAN
      /\ chunk.context \in {<<>>} \cup {<<t>> : t \in Dressed}
  BY DEF Chunk
<1>2. Old(chunk) \in Seq(Dressed) /\ Len(Old(chunk)) = Sought(chunk.lines, Len(chunk.lines))
  BY <1>1, ParsedOK DEF Old, ParseState, ParseFits
<1>3. Len(Old(chunk)) \in Nat
  BY <1>2, LenProperties
<1>4. CASE chunk.context = <<>>
  BY <1>1, <1>2, <1>3, <1>4, EmptySeq DEF NoContext
<1>5. CASE chunk.context # <<>>
  <2>1. PICK t \in Dressed : chunk.context = <<t>>
    BY <1>1, <1>5
  <2>2. chunk.context \in Seq(Dressed) /\ Len(chunk.context) = 1
    BY <2>1
  <2> QED BY <1>1, <1>2, <1>3, <1>5, <2>2
<1> QED BY <1>4, <1>5

PlaceState == [at : Nat \cup {NotFound}, from : Nat]

(* A chunk goes where it fits, behind the chunk before it, and no later than   *)
(* where it would fit character by character.                                 *)
LEMMA PlaceOfOK ==
  ASSUME NEW texts \in Seq(Dressed), NEW chunk \in Chunk, NEW last \in PlaceState,
         last.at # NotFound => last.from <= Len(texts)
  PROVE  LET r == PlaceOf(texts, chunk, last) IN
         /\ r \in PlaceState
         /\ r.at # NotFound => /\ last.at # NotFound
                               /\ r.from = r.at + Len(Old(chunk)) /\ r.from <= Len(texts)
                               /\ Fits(texts, chunk, last.from, r.at, 4)
         /\ \A start \in Nat, a \in Nat :
              last.at # NotFound /\ last.from <= start /\ Fits(texts, chunk, start, a, 1) => r.at # NotFound /\ r.at <= a
<1> DEFINE n == Len(texts)
           old == Old(chunk)
           m == Len(old)
           context == Seek(texts, chunk.context, last.from, FALSE)
           from == IF NoContext(chunk) THEN last.from ELSE IF context = NotFound THEN NotFound ELSE context + 1
           at == IF from = NotFound THEN NotFound
                 ELSE IF old # <<>> THEN Seek(texts, old, from, chunk.eof) ELSE IF NoContext(chunk) THEN n ELSE from
           r == PlaceOf(texts, chunk, last)
<1>1. /\ n \in Nat /\ NotFound \notin Nat /\ last.at \in Nat \cup {NotFound} /\ last.from \in Nat
      /\ old \in Seq(Dressed) /\ m \in Nat /\ chunk.eof \in BOOLEAN
      /\ chunk.context \in Seq(Dressed) /\ (~NoContext(chunk) => chunk.context # <<>> /\ Len(chunk.context) = 1)
      /\ (old = <<>> => m = 0)
  BY ChunkParts, LenProperties, EmptySeq DEF NotFound, PlaceState
<1>2. r = IF last.at = NotFound \/ at = NotFound THEN Nowhere ELSE [at |-> at, from |-> GoOnAfter(chunk, at)]
  BY DEF PlaceOf
<1> HIDE DEF r, at
<1>3. Nowhere \in PlaceState /\ Nowhere.at = NotFound
  BY DEF Nowhere, PlaceState
(* The context, if there is one.                                               *)
<1>4. ~NoContext(chunk) =>
        /\ context \in Nat \cup {NotFound}
        /\ context # NotFound => /\ last.from <= context /\ context + 1 <= n
                                 /\ Reads(texts, chunk.context, context, 4)
        /\ \A c \in Nat : last.from <= c /\ c + 1 <= n /\ Reads(texts, chunk.context, c, 1) => context # NotFound /\ context <= c
  <2> SUFFICES ASSUME ~NoContext(chunk)
               PROVE  /\ context \in Nat \cup {NotFound}
                      /\ context # NotFound => /\ last.from <= context /\ context + 1 <= n
                                               /\ Reads(texts, chunk.context, context, 4)
                      /\ \A c \in Nat : last.from <= c /\ c + 1 <= n /\ Reads(texts, chunk.context, c, 1)
                                        => context # NotFound /\ context <= c
    OBVIOUS
  <2>1. chunk.context \in Seq(Dressed) /\ chunk.context # <<>> /\ Len(chunk.context) = 1 /\ FALSE \in BOOLEAN
    BY <1>1
  <2>2. /\ context \in Nat \cup {NotFound}
        /\ context # NotFound => /\ last.from <= context /\ context + Len(chunk.context) <= n
                                 /\ Reads(texts, chunk.context, context, 4)
        /\ \A c \in Nat : last.from <= c /\ c + Len(chunk.context) <= n /\ Reads(texts, chunk.context, c, 1)
                          /\ (FALSE => c + Len(chunk.context) = n) => context # NotFound /\ context <= c
    BY <1>1, <2>1, SeekOK
  <2> HIDE DEF context
  <2> QED BY <2>1, <2>2
<1> HIDE DEF context
<1>5. /\ from \in Nat \cup {NotFound}
      /\ from # NotFound => last.from <= from /\ (~NoContext(chunk) => from = context + 1 /\ context \in Nat /\ from <= n)
      /\ NoContext(chunk) => from = last.from
  BY <1>1, <1>4
<1>6. ~NoContext(chunk) /\ from # NotFound => Reads(texts, chunk.context, context, 4) /\ context \in last.from..(from - 1)
  BY <1>1, <1>4
<1>7. ASSUME NEW start \in Nat, NEW a \in Nat, last.from <= start, Fits(texts, chunk, start, a, 1)
      PROVE  from # NotFound /\ from <= a
  <2>1. start <= a /\ a + m <= n /\ (~NoContext(chunk) => \E c \in start..(a - 1) : Reads(texts, chunk.context, c, 1))
    BY <1>7 DEF Fits
  <2>2. CASE NoContext(chunk)
    BY <1>1, <1>7, <2>1, <2>2
  <2>3. CASE ~NoContext(chunk)
    <3>1. PICK c \in start..(a - 1) : Reads(texts, chunk.context, c, 1)
      BY <2>1, <2>3
    <3>2. c \in Nat /\ last.from <= c /\ c + 1 <= n /\ c + 1 <= a
      BY <1>1, <1>7, <2>1, <3>1
    <3>3. context # NotFound /\ context <= c /\ context \in Nat
      BY <1>4, <2>3, <3>1, <3>2
    <3>4. from = context + 1
      BY <2>3, <3>3
    <3> QED BY <1>1, <3>2, <3>3, <3>4
  <2> QED BY <2>2, <2>3
<1> HIDE DEF from
(* Its lines, behind the context.                                              *)
<1>8. at = IF from = NotFound THEN NotFound
           ELSE IF old # <<>> THEN Seek(texts, old, from, chunk.eof) ELSE IF NoContext(chunk) THEN n ELSE from
  BY DEF at
<1>9. from # NotFound /\ old # <<>> =>
        /\ at \in Nat \cup {NotFound}
        /\ at # NotFound => from <= at /\ at + m <= n /\ Reads(texts, old, at, 4) /\ (chunk.eof => at + m = n)
        /\ \A i \in Nat : from <= i /\ i + m <= n /\ Reads(texts, old, i, 1) /\ (chunk.eof => i + m = n)
                          => at # NotFound /\ at <= i
  <2> SUFFICES ASSUME from # NotFound, old # <<>>
               PROVE  /\ at \in Nat \cup {NotFound}
                      /\ at # NotFound => from <= at /\ at + m <= n /\ Reads(texts, old, at, 4) /\ (chunk.eof => at + m = n)
                      /\ \A i \in Nat : from <= i /\ i + m <= n /\ Reads(texts, old, i, 1) /\ (chunk.eof => i + m = n)
                                        => at # NotFound /\ at <= i
    OBVIOUS
  <2>1. at = Seek(texts, old, from, chunk.eof) /\ from \in Nat
    BY <1>5, <1>8
  <2>2. old \in Seq(Dressed) /\ chunk.eof \in BOOLEAN
    BY <1>1
  <2> HIDE DEF old
  <2> QED BY <2>1, <2>2, SeekOK
<1>10. at \in Nat \cup {NotFound}
  BY <1>1, <1>5, <1>8, <1>9
<1>11. ASSUME last.at # NotFound, at # NotFound
       PROVE  at + m <= n /\ Fits(texts, chunk, last.from, at, 4)
  <2>1. from # NotFound /\ from \in Nat /\ at \in Nat /\ last.from <= from
    BY <1>5, <1>8, <1>10, <1>11
  <2>2. from <= at /\ at + m <= n /\ Reads(texts, old, at, 4)
    <3>1. CASE old # <<>>
      BY <1>9, <1>11, <2>1, <3>1
    <3>2. CASE old = <<>>
      <4>1. from <= at /\ at <= n
        <5>1. CASE NoContext(chunk)
          BY <1>1, <1>5, <1>8, <1>11, <2>1, <3>2, <5>1
        <5>2. CASE ~NoContext(chunk)
          BY <1>5, <1>8, <2>1, <3>2, <5>2
        <5> QED BY <5>1, <5>2
      <4>2. Reads(texts, old, at, 4)
        BY <3>2, EmptySeq DEF Reads
      <4> QED BY <1>1, <2>1, <3>2, <4>1, <4>2
    <3> QED BY <3>1, <3>2
  <2>3. ~NoContext(chunk) => \E c \in last.from..(at - 1) : Reads(texts, chunk.context, c, 4)
    <3> SUFFICES ASSUME ~NoContext(chunk) PROVE \E c \in last.from..(at - 1) : Reads(texts, chunk.context, c, 4)
      OBVIOUS
    <3>1. Reads(texts, chunk.context, context, 4) /\ context \in last.from..(from - 1)
      BY <1>6, <2>1
    <3>2. context \in last.from..(at - 1)
      BY <1>1, <2>1, <2>2, <3>1
    <3> QED BY <3>1, <3>2
  <2>4. (IF old = <<>> THEN NoContext(chunk) ELSE chunk.eof) => at + m = n
    <3>1. CASE old # <<>>
      BY <1>9, <1>11, <2>1, <3>1
    <3>2. CASE old = <<>>
      BY <1>1, <1>8, <2>1, <3>2
    <3> QED BY <3>1, <3>2
  <2>5. last.from <= at
    BY <1>1, <2>1, <2>2
  <2> QED BY <2>2, <2>3, <2>4, <2>5 DEF Fits
<1>12. ASSUME NEW start \in Nat, NEW a \in Nat, last.from <= start, Fits(texts, chunk, start, a, 1)
       PROVE  at # NotFound /\ at <= a
  <2>1. from # NotFound /\ from <= a /\ from \in Nat
    BY <1>5, <1>7, <1>12
  <2>2. a + m <= n /\ Reads(texts, old, a, 1) /\ ((IF old = <<>> THEN NoContext(chunk) ELSE chunk.eof) => a + m = n)
    BY <1>12 DEF Fits
  <2>3. CASE old # <<>>
    BY <1>9, <2>1, <2>2, <2>3
  <2>4. CASE old = <<>>
    <3>1. CASE NoContext(chunk)
      <4>1. at = n /\ a + m = n
        BY <1>8, <2>1, <2>2, <2>4, <3>1
      <4> QED BY <1>1, <2>4, <4>1
    <3>2. CASE ~NoContext(chunk)
      <4>1. at = from
        BY <1>8, <2>1, <2>4, <3>2
      <4> QED BY <2>1, <4>1
    <3> QED BY <3>1, <3>2
  <2> QED BY <2>3, <2>4
(* Together.                                                                   *)
<1>13. CASE last.at = NotFound \/ at = NotFound
  <2>1. r = Nowhere
    BY <1>2, <1>13
  <2>2. ASSUME NEW start \in Nat, NEW a \in Nat, last.at # NotFound, last.from <= start, Fits(texts, chunk, start, a, 1)
        PROVE  FALSE
    BY <1>12, <1>13, <2>2
  <2> QED BY <1>3, <2>1, <2>2 DEF r
<1>14. CASE last.at # NotFound /\ at # NotFound
  <2>1. r = [at |-> at, from |-> at + m]
    BY <1>2, <1>14 DEF GoOnAfter
  <2>2. at \in Nat /\ at + m \in Nat /\ at + m <= n /\ Fits(texts, chunk, last.from, at, 4)
    BY <1>1, <1>10, <1>11, <1>14
  <2> HIDE DEF m
  <2>3. r \in PlaceState /\ r.at = at /\ r.from = at + m
    BY <2>1, <2>2 DEF PlaceState
  <2>4. \A start \in Nat, a \in Nat : last.from <= start /\ Fits(texts, chunk, start, a, 1) => at # NotFound /\ at <= a
    BY <1>12
  <2> QED BY <1>14, <2>2, <2>3, <2>4 DEF m, r
<1> QED BY <1>13, <1>14

-----------------------------------------------------------------------------
(* The places of all chunks.                                                 *)
GoodPlace(texts) == {p \in PlaceState : p.at # NotFound => p.from <= Len(texts)}
FirstPlace == [at |-> 0, from |-> 0]
IsPlaced(f, texts, chunks) ==
  f = [k \in 0..Len(chunks) |-> IF k = 0 THEN FirstPlace ELSE PlaceOf(texts, chunks[k], f[k - 1])]

LEMMA PlacedUnfolds ==
  ASSUME NEW texts, NEW chunks
  PROVE  Placed(texts, chunks) = CHOOSE f : IsPlaced(f, texts, chunks)
BY DEF Placed, IsPlaced, FirstPlace

LEMMA PlaceStays ==
  ASSUME NEW texts \in Seq(Dressed), NEW chunk \in Chunk, NEW p \in GoodPlace(texts)
  PROVE  PlaceOf(texts, chunk, p) \in GoodPlace(texts)
<1>1. p \in PlaceState /\ (p.at # NotFound => p.from <= Len(texts))
  BY DEF GoodPlace
<1> DEFINE r == PlaceOf(texts, chunk, p)
<1>2. r \in PlaceState /\ (r.at # NotFound => r.from <= Len(texts))
  BY <1>1, PlaceOfOK
<1> QED BY <1>2 DEF GoodPlace

LEMMA FirstIsGood ==
  ASSUME NEW texts \in Seq(Dressed)
  PROVE  FirstPlace \in GoodPlace(texts) /\ FirstPlace.at = 0 /\ FirstPlace.from = 0
<1>1. Len(texts) \in Nat
  BY LenProperties
<1> QED BY <1>1 DEF FirstPlace, GoodPlace, PlaceState

LEMMA PlacedExists ==
  ASSUME NEW texts \in Seq(Dressed), NEW chunks \in Seq(Chunk)
  PROVE  \E f : IsPlaced(f, texts, chunks)
<1> DEFINE n == Len(chunks)
           S == GoodPlace(texts)
           step == [k \in 1..n |-> [p \in S |-> PlaceOf(texts, chunks[k], p)]]
<1>1. n \in Nat /\ \A k \in 1..n : chunks[k] \in Chunk
  BY LenProperties, ElementOfSeq
<1>2. FirstPlace \in S
  BY FirstIsGood
<1>3. step \in [1..n -> [S -> S]]
  <2>1. \A k \in 1..n : \A p \in S : PlaceOf(texts, chunks[k], p) \in S
    BY <1>1, PlaceStays
  <2> QED BY <2>1
<1>4. \A k \in 1..n : \A p \in S : step[k][p] = PlaceOf(texts, chunks[k], p)
  OBVIOUS
<1> HIDE DEF step, S
<1>5. PICK f \in [0..n -> S] : Follows(f, FirstPlace, step, n)
  BY <1>1, <1>2, <1>3, RecursionExists
<1>6. ASSUME NEW k \in 0..n PROVE f[k] = IF k = 0 THEN FirstPlace ELSE PlaceOf(texts, chunks[k], f[k - 1])
  <2>1. CASE k = 0
    BY <1>5, <2>1 DEF Follows
  <2>2. CASE k # 0
    <3>1. k \in 1..n /\ k - 1 \in 0..n
      BY <1>1, <2>2
    <3>2. f[k - 1] \in S
      BY <1>5, <3>1
    <3>3. f[k] = step[k][f[k - 1]]
      BY <1>5, <3>1 DEF Follows
    <3> QED BY <1>4, <2>2, <3>1, <3>2, <3>3
  <2> QED BY <2>1, <2>2
<1>7. IsPlaced(f, texts, chunks)
  BY <1>5, <1>6 DEF IsPlaced
<1> QED BY <1>7

LEMMA PlacedTypes ==
  ASSUME NEW texts \in Seq(Dressed), NEW chunks \in Seq(Chunk)
  PROVE  LET f == Placed(texts, chunks) IN
         /\ f[0] = FirstPlace
         /\ \A k \in 0..Len(chunks) : f[k] \in GoodPlace(texts)
         /\ \A k \in 1..Len(chunks) : f[k] = PlaceOf(texts, chunks[k], f[k - 1])
<1> DEFINE f == Placed(texts, chunks)
           n == Len(chunks)
           T == {k \in 0..n : f[k] \in GoodPlace(texts)}
<1>1. n \in Nat /\ \A k \in 1..n : chunks[k] \in Chunk
  BY LenProperties, ElementOfSeq
<1>2. IsPlaced(f, texts, chunks)
  <2> DEFINE g == CHOOSE h : IsPlaced(h, texts, chunks)
  <2>1. IsPlaced(g, texts, chunks)
    BY PlacedExists, Zenon
  <2>2. f = g
    BY PlacedUnfolds
  <2> QED BY <2>1, <2>2
<1> HIDE DEF f
<1>3. f[0] = FirstPlace
  BY <1>1, <1>2 DEF IsPlaced
<1>4. ASSUME NEW k \in 1..n PROVE f[k] = PlaceOf(texts, chunks[k], f[k - 1])
  <2>1. k \in 0..n /\ k # 0
    BY <1>1
  <2> QED BY <1>2, <2>1 DEF IsPlaced
<1>5. 0 \in T
  BY <1>1, <1>3, FirstIsGood
<1>6. \A k \in 1..n : k - 1 \in T => k \in T
  <2> SUFFICES ASSUME NEW k \in 1..n, k - 1 \in T PROVE k \in T
    OBVIOUS
  <2>1. f[k - 1] \in GoodPlace(texts) /\ k \in 0..n
    BY <1>1
  <2>2. PlaceOf(texts, chunks[k], f[k - 1]) \in GoodPlace(texts)
    BY <1>1, <2>1, PlaceStays
  <2> QED BY <1>4, <2>1, <2>2
<1> HIDE DEF T
<1>7. \A k \in 0..n : k \in T
  BY <1>1, <1>5, <1>6, BoundedInduction
<1> QED BY <1>3, <1>4, <1>7 DEF T, f

LEMMA PlacedStep ==
  ASSUME NEW texts \in Seq(Dressed), NEW chunks \in Seq(Chunk), NEW k \in 1..Len(chunks)
  PROVE  LET f == Placed(texts, chunks) IN
         /\ chunks[k] \in Chunk
         /\ f[k - 1] \in PlaceState /\ f[k] \in PlaceState
         /\ f[k].at # NotFound => /\ f[k - 1].at # NotFound
                                  /\ f[k].from = f[k].at + Len(Old(chunks[k])) /\ f[k].from <= Len(texts)
                                  /\ Fits(texts, chunks[k], f[k - 1].from, f[k].at, 4)
         /\ \A start \in Nat, a \in Nat :
              f[k - 1].at # NotFound /\ f[k - 1].from <= start /\ Fits(texts, chunks[k], start, a, 1)
                => f[k].at # NotFound /\ f[k].at <= a
<1> DEFINE f == Placed(texts, chunks)
           p == f[k - 1]
<1>1. Len(chunks) \in Nat /\ chunks[k] \in Chunk
  BY LenProperties, ElementOfSeq
<1>2. k - 1 \in 0..Len(chunks) /\ k \in 0..Len(chunks)
  BY <1>1
<1>3. p \in GoodPlace(texts) /\ f[k] \in GoodPlace(texts) /\ f[k] = PlaceOf(texts, chunks[k], p)
  BY <1>2, PlacedTypes
<1> HIDE DEF f, p
<1>4. p \in PlaceState /\ f[k] \in PlaceState /\ (p.at # NotFound => p.from <= Len(texts))
  BY <1>3 DEF GoodPlace
<1>5. LET r == PlaceOf(texts, chunks[k], p) IN
         /\ r.at # NotFound => /\ p.at # NotFound
                               /\ r.from = r.at + Len(Old(chunks[k])) /\ r.from <= Len(texts)
                               /\ Fits(texts, chunks[k], p.from, r.at, 4)
         /\ \A start \in Nat, a \in Nat :
              p.at # NotFound /\ p.from <= start /\ Fits(texts, chunks[k], start, a, 1) => r.at # NotFound /\ r.at <= a
  BY <1>1, <1>4, PlaceOfOK
<1> QED BY <1>1, <1>3, <1>4, <1>5 DEF f, p

Found(texts, chunks) == [k \in DOMAIN chunks |-> Placed(texts, chunks)[k].at]

LEMMA AllFound ==
  ASSUME NEW texts \in Seq(Dressed), NEW chunks \in Seq(Chunk), Placed(texts, chunks)[Len(chunks)].at # NotFound
  PROVE  \A k \in 0..Len(chunks) : Placed(texts, chunks)[k].at # NotFound
<1> DEFINE f == Placed(texts, chunks)
           n == Len(chunks)
           T == {j \in 0..n : f[n - j].at # NotFound}
<1>1. n \in Nat
  BY LenProperties
<1>2. 0 \in T
  <2>1. n - 0 = n /\ 0 \in 0..n
    BY <1>1
  <2> QED BY <2>1
<1>3. \A j \in 1..n : j - 1 \in T => j \in T
  <2> SUFFICES ASSUME NEW j \in 1..n, j - 1 \in T PROVE j \in T
    OBVIOUS
  <2>1. (n - j) + 1 \in 1..n /\ ((n - j) + 1) - 1 = n - j /\ n - (j - 1) = (n - j) + 1 /\ j \in 0..n
    BY <1>1
  <2>2. f[(n - j) + 1].at # NotFound
    BY <2>1
  <2>3. f[((n - j) + 1) - 1].at # NotFound
    BY <2>1, <2>2, PlacedStep
  <2> QED BY <2>1, <2>3
<1> HIDE DEF T
<1>4. \A j \in 0..n : j \in T
  BY <1>1, <1>2, <1>3, BoundedInduction
<1>5. ASSUME NEW k \in 0..n PROVE f[k].at # NotFound
  <2>1. n - k \in 0..n /\ n - (n - k) = k
    BY <1>1
  <2>2. n - k \in T
    BY <1>4, <2>1
  <2> QED BY <2>1, <2>2 DEF T
<1> QED BY <1>5

LEMMA FoundPlaces ==
  ASSUME NEW texts \in Seq(Dressed), NEW chunks \in Seq(Chunk), Placed(texts, chunks)[Len(chunks)].at # NotFound
  PROVE  LET f == Placed(texts, chunks)
             at == Found(texts, chunks) IN
         /\ at \in Placements(texts, chunks, 4)
         /\ \A k \in 1..(Len(chunks) + 1) : EndBefore(chunks, at, k) = f[k - 1].from
         /\ \A k \in 1..Len(chunks) : /\ at[k] = f[k].at /\ f[k].at \in Nat /\ f[k - 1].from \in Nat /\ f[k].from \in Nat
                                      /\ f[k - 1].from <= f[k].at
                                      /\ f[k].from = f[k].at + Len(Old(chunks[k])) /\ f[k].from <= Len(texts)
<1> DEFINE f == Placed(texts, chunks)
           at == Found(texts, chunks)
           n == Len(chunks)
<1>1. n \in Nat /\ DOMAIN chunks = 1..n /\ Len(texts) \in Nat
  BY LenProperties
<1>2. \A k \in 0..n : f[k].at # NotFound
  BY AllFound
<1>3. \A k \in 1..n : at[k] = f[k].at
  BY <1>1 DEF Found
<1>4. at \in [DOMAIN chunks -> {f[k].at : k \in DOMAIN chunks}]
  BY DEF Found
<1>5. f[0] = FirstPlace
  BY PlacedTypes
<1>6. f[0].from = 0
  BY <1>5, FirstIsGood
<1>7. ASSUME NEW k \in 1..n
      PROVE  /\ f[k].at \in Nat /\ f[k - 1].from \in Nat /\ f[k].from \in Nat
             /\ f[k].from = f[k].at + Len(Old(chunks[k])) /\ f[k].from <= Len(texts)
             /\ Fits(texts, chunks[k], f[k - 1].from, f[k].at, 4)
             /\ Len(Old(chunks[k])) \in Nat
  <2>1. k \in 0..n
    BY <1>1
  <2>2. f[k].at # NotFound
    BY <1>2, <2>1
  <2>3. /\ chunks[k] \in Chunk /\ f[k - 1] \in PlaceState /\ f[k] \in PlaceState
        /\ f[k].from = f[k].at + Len(Old(chunks[k])) /\ f[k].from <= Len(texts)
        /\ Fits(texts, chunks[k], f[k - 1].from, f[k].at, 4)
    BY <2>2, PlacedStep
  <2>4. f[k].at \in Nat \cup {NotFound} /\ f[k].from \in Nat /\ f[k - 1].from \in Nat
    BY <2>3 DEF PlaceState
  <2> QED BY <2>2, <2>3, <2>4, ChunkParts
<1> HIDE DEF f, at
<1>8. \A k \in 1..n : f[k - 1].from <= f[k].at
  BY <1>7 DEF Fits
<1>9. ASSUME NEW k \in 1..(n + 1) PROVE EndBefore(chunks, at, k) = f[k - 1].from
  <2>1. CASE k = 1
    BY <1>6, <2>1 DEF EndBefore
  <2>2. CASE k # 1
    <3>1. k - 1 \in 1..n
      BY <1>1, <2>2
    <3>2. EndBefore(chunks, at, k) = at[k - 1] + Len(Old(chunks[k - 1]))
      BY <2>2 DEF EndBefore
    <3> QED BY <1>3, <1>7, <3>1, <3>2
  <2> QED BY <2>1, <2>2
<1>10. ASSUME NEW k \in 1..n PROVE at[k] \in 0..Len(texts)
  <2>1. /\ f[k].at \in Nat /\ f[k].from = f[k].at + Len(Old(chunks[k])) /\ f[k].from <= Len(texts)
        /\ Len(Old(chunks[k])) \in Nat
    BY <1>7
  <2>2. f[k].at \in 0..Len(texts)
    BY <1>1, <2>1
  <2> QED BY <1>3, <2>2
<1>11. at \in [DOMAIN chunks -> 0..Len(texts)]
  BY <1>1, <1>4, <1>10
<1>12. ASSUME NEW k \in DOMAIN chunks PROVE Fits(texts, chunks[k], EndBefore(chunks, at, k), at[k], 4)
  <2>1. k \in 1..n /\ k \in 1..(n + 1)
    BY <1>1
  <2> QED BY <1>3, <1>7, <1>9, <2>1
<1>13. at \in Placements(texts, chunks, 4)
  BY <1>11, <1>12 DEF Placements
<1> QED BY <1>3, <1>7, <1>8, <1>9, <1>13 DEF f, at

(* A patch whose lines are those of the file finds its places.                *)
LEMMA NeverRefused ==
  ASSUME NEW texts \in Seq(Dressed), NEW chunks \in Seq(Chunk), NEW a \in Placements(texts, chunks, 1)
  PROVE  Placed(texts, chunks)[Len(chunks)].at # NotFound
<1> DEFINE f == Placed(texts, chunks)
           n == Len(chunks)
           T == {k \in 0..n : f[k].at # NotFound /\ f[k].from <= EndBefore(chunks, a, k + 1)}
<1>1. n \in Nat /\ DOMAIN chunks = 1..n /\ Len(texts) \in Nat
  BY LenProperties
<1>2. ASSUME NEW k \in 1..n
      PROVE  a[k] \in Nat /\ Fits(texts, chunks[k], EndBefore(chunks, a, k), a[k], 1) /\ Len(Old(chunks[k])) \in Nat
  <2>1. a \in [DOMAIN chunks -> 0..Len(texts)] /\ \A i \in DOMAIN chunks : Fits(texts, chunks[i], EndBefore(chunks, a, i), a[i], 1)
    BY DEF Placements
  <2>2. a[k] \in 0..Len(texts)
    BY <1>1, <2>1
  <2>3. chunks[k] \in Chunk
    BY ElementOfSeq
  <2> QED BY <1>1, <2>1, <2>2, <2>3, ChunkParts
<1>3. ASSUME NEW k \in 1..(n + 1) PROVE EndBefore(chunks, a, k) \in Nat
  <2>1. CASE k = 1
    BY <2>1 DEF EndBefore
  <2>2. CASE k # 1
    <3>1. k - 1 \in 1..n
      BY <1>1, <2>2
    <3>2. a[k - 1] \in Nat /\ Len(Old(chunks[k - 1])) \in Nat
      BY <1>2, <3>1
    <3>3. EndBefore(chunks, a, k) = a[k - 1] + Len(Old(chunks[k - 1]))
      BY <2>2 DEF EndBefore
    <3> QED BY <3>2, <3>3
  <2> QED BY <2>1, <2>2
<1>4. 0 \in T
  <2>1. f[0] = FirstPlace
    BY PlacedTypes
  <2>2. f[0].at = 0 /\ f[0].from = 0
    BY <2>1, FirstIsGood
  <2>3. EndBefore(chunks, a, 0 + 1) = 0
    BY DEF EndBefore
  <2> HIDE DEF f
  <2> QED BY <1>1, <2>2, <2>3 DEF NotFound
<1>5. \A k \in 1..n : k - 1 \in T => k \in T
  <2> SUFFICES ASSUME NEW k \in 1..n, k - 1 \in T PROVE k \in T
    OBVIOUS
  <2>1. k - 1 \in 0..n /\ k \in 0..n /\ (k - 1) + 1 = k /\ k \in 1..(n + 1) /\ (k + 1) - 1 = k /\ k + 1 # 1
    BY <1>1
  <2>2. f[k - 1].at # NotFound /\ f[k - 1].from <= EndBefore(chunks, a, k)
    BY <2>1
  <2>3. EndBefore(chunks, a, k) \in Nat /\ a[k] \in Nat
    BY <1>2, <1>3, <2>1
  <2>4. Fits(texts, chunks[k], EndBefore(chunks, a, k), a[k], 1)
    BY <1>2
  <2>5. f[k].at # NotFound /\ f[k].at <= a[k]
    BY <2>2, <2>3, <2>4, PlacedStep
  <2>6. f[k].from = f[k].at + Len(Old(chunks[k])) /\ f[k] \in PlaceState
    BY <2>5, PlacedStep
  <2>7. f[k].at \in Nat
    BY <2>5, <2>6 DEF PlaceState
  <2>8. EndBefore(chunks, a, k + 1) = a[k] + Len(Old(chunks[k]))
    BY <2>1 DEF EndBefore
  <2>9. Len(Old(chunks[k])) \in Nat
    BY <1>2
  <2> HIDE DEF f
  <2>10. f[k].from <= EndBefore(chunks, a, k + 1)
    BY <2>3, <2>5, <2>6, <2>7, <2>8, <2>9
  <2> QED BY <2>1, <2>5, <2>10
<1> HIDE DEF T
<1>6. \A k \in 0..n : k \in T
  BY <1>1, <1>4, <1>5, BoundedInduction
<1>7. n \in T
  BY <1>1, <1>6
<1> QED BY <1>7 DEF T

-----------------------------------------------------------------------------
(* Lines and their texts.                                                    *)
LEMMA LineParts ==
  ASSUME NEW lines \in Seq(Line)
  PROVE  /\ Len(lines) \in Nat /\ DOMAIN lines = 1..Len(lines)
         /\ \A i \in 1..Len(lines) : /\ lines[i] \in Line /\ lines[i].text \in Dressed
                                     /\ lines[i].eol \in {"lf", "crlf", ""}
<1>1. \A l \in Line : l.text \in Dressed /\ l.eol \in {"lf", "crlf", ""}
  BY DEF Line
<1>2. \A i \in 1..Len(lines) : lines[i] \in Line
  BY ElementOfSeq
<1> QED BY <1>1, <1>2, LenProperties

LEMMA TextsType ==
  ASSUME NEW lines \in Seq(Line)
  PROVE  /\ TextsOf(lines) \in Seq(Dressed) /\ Len(TextsOf(lines)) = Len(lines)
         /\ DOMAIN TextsOf(lines) = 1..Len(lines)
         /\ \A i \in 1..Len(lines) : TextsOf(lines)[i] = lines[i].text
<1>1. Len(lines) \in Nat /\ DOMAIN lines = 1..Len(lines) /\ \A i \in 1..Len(lines) : lines[i].text \in Dressed
  BY LineParts
<1>2. TextsOf(lines) \in [1..Len(lines) -> Dressed] /\ \A i \in 1..Len(lines) : TextsOf(lines)[i] = lines[i].text
  BY <1>1 DEF TextsOf
<1> HIDE DEF TextsOf
<1> QED BY <1>1, <1>2, FunctionIsSeq

LEMMA TextsConcat ==
  ASSUME NEW a \in Seq(Line), NEW b \in Seq(Line)
  PROVE  a \o b \in Seq(Line) /\ TextsOf(a \o b) = TextsOf(a) \o TextsOf(b)
<1> DEFINE c == a \o b
           t == TextsOf(c)
           u == TextsOf(a) \o TextsOf(b)
<1>1. /\ c \in Seq(Line) /\ Len(c) = Len(a) + Len(b)
      /\ \A i \in 1..(Len(a) + Len(b)) : c[i] = IF i <= Len(a) THEN a[i] ELSE b[i - Len(a)]
  BY ConcatProperties
<1>2. /\ TextsOf(a) \in Seq(Dressed) /\ TextsOf(b) \in Seq(Dressed) /\ Len(TextsOf(a)) = Len(a) /\ Len(TextsOf(b)) = Len(b)
      /\ \A i \in 1..Len(a) : TextsOf(a)[i] = a[i].text
      /\ \A i \in 1..Len(b) : TextsOf(b)[i] = b[i].text
      /\ Len(a) \in Nat /\ Len(b) \in Nat
  BY TextsType, LenProperties
<1> HIDE DEF c
<1>3. t \in Seq(Dressed) /\ Len(t) = Len(c) /\ \A i \in 1..Len(c) : t[i] = c[i].text
  BY <1>1, TextsType
<1>4. /\ u \in Seq(Dressed) /\ Len(u) = Len(a) + Len(b)
      /\ \A i \in 1..(Len(a) + Len(b)) : u[i] = IF i <= Len(a) THEN TextsOf(a)[i] ELSE TextsOf(b)[i - Len(a)]
  <2> DEFINE p == TextsOf(a)
             q == TextsOf(b)
  <2>1. p \in Seq(Dressed) /\ q \in Seq(Dressed) /\ Len(p) = Len(a) /\ Len(q) = Len(b)
    BY <1>2
  <2> HIDE DEF p, q
  <2>2. /\ p \o q \in Seq(Dressed) /\ Len(p \o q) = Len(p) + Len(q)
        /\ \A i \in 1..(Len(p) + Len(q)) : (p \o q)[i] = IF i <= Len(p) THEN p[i] ELSE q[i - Len(p)]
    BY <2>1, ConcatProperties
  <2> QED BY <2>1, <2>2 DEF p, q
<1> HIDE DEF t, u
<1>5. ASSUME NEW i \in 1..Len(t) PROVE t[i] = u[i]
  <2>1. i \in 1..(Len(a) + Len(b)) /\ t[i] = c[i].text
    BY <1>1, <1>3
  <2>2. CASE i <= Len(a)
    <3>1. i \in 1..Len(a)
      BY <1>2, <2>1, <2>2
    <3> QED BY <1>1, <1>2, <1>4, <2>1, <2>2, <3>1
  <2>3. CASE ~(i <= Len(a))
    <3>1. i - Len(a) \in 1..Len(b)
      BY <1>2, <2>1, <2>3
    <3> QED BY <1>1, <1>2, <1>4, <2>1, <2>3, <3>1
  <2> QED BY <2>2, <2>3
<1>6. t = u
  BY <1>1, <1>3, <1>4, <1>5, SeqEqual
<1> QED BY <1>1, <1>6 DEF c, t, u

LEMMA TextsSub ==
  ASSUME NEW lines \in Seq(Line), NEW m \in Nat, NEW n \in Nat, 1 <= m, n <= Len(lines)
  PROVE  /\ SubSeq(lines, m, n) \in Seq(Line)
         /\ SubSeq(TextsOf(lines), m, n) \in Seq(Dressed)
         /\ TextsOf(SubSeq(lines, m, n)) = SubSeq(TextsOf(lines), m, n)
<1> DEFINE t == TextsOf(lines)
           s == SubSeq(lines, m, n)
           u == SubSeq(t, m, n)
           l == IF m <= n THEN n - m + 1 ELSE 0
<1>1. Len(lines) \in Nat /\ m \in Int /\ n \in Int /\ n - m + 1 \in Int
  BY LenProperties
<1>2. \A i \in m..n : i \in 1..Len(lines)
  BY <1>1
<1>3. \A i \in m..n : lines[i] \in Line
  BY <1>2, ElementOfSeq
<1>4. \A i \in m..n : t[i] = lines[i].text /\ t[i] \in Dressed
  BY <1>2, LineParts, TextsType
<1>5. s \in Seq(Line) /\ Len(s) = l /\ \A i \in 1..(n - m + 1) : s[i] = lines[m + i - 1]
  BY <1>1, <1>3, SubSeqProperties
<1>6. u \in Seq(Dressed) /\ Len(u) = l /\ \A i \in 1..(n - m + 1) : u[i] = t[m + i - 1]
  BY <1>1, <1>4, SubSeqProperties
<1> HIDE DEF s, u, t
<1>7. TextsOf(s) \in Seq(Dressed) /\ Len(TextsOf(s)) = Len(s) /\ \A i \in 1..Len(s) : TextsOf(s)[i] = s[i].text
  BY <1>5, TextsType
<1>8. ASSUME NEW i \in 1..Len(TextsOf(s)) PROVE TextsOf(s)[i] = u[i]
  <2>1. i \in 1..l /\ i \in 1..Len(s)
    BY <1>5, <1>7
  <2>2. i \in 1..(n - m + 1) /\ m + i - 1 \in m..n
    BY <1>1, <2>1
  <2> QED BY <1>4, <1>5, <1>6, <1>7, <2>1, <2>2
<1>9. TextsOf(s) = u
  BY <1>5, <1>6, <1>7, <1>8, SeqEqual
<1> QED BY <1>5, <1>6, <1>9 DEF s, u, t

(* New lines end as most of the file's do.                                     *)
LEMMA EolOfFile ==
  ASSUME NEW source \in Seq(Line)
  PROVE  DefaultEol(source) \in {"lf", "crlf"}
<1> DEFINE Of(e) == {i \in DOMAIN source : source[i].eol = e}
           used == {e \in {"lf", "crlf"} : Of(e) # {}}
           Before(e, f) == \/ Cardinality(Of(e)) > Cardinality(Of(f))
                           \/ Cardinality(Of(e)) = Cardinality(Of(f)) /\ Min(Of(e)) <= Min(Of(f))
<1>1. Len(source) \in Nat /\ DOMAIN source = 1..Len(source)
  BY LenProperties
<1>2. ASSUME NEW e PROVE Cardinality(Of(e)) \in Nat
  <2>1. IsFiniteSet(DOMAIN source)
    BY <1>1, FS_Interval
  <2>2. IsFiniteSet(Of(e))
    BY <2>1, FS_Subset
  <2> QED BY <2>2, FS_CardinalityType
<1>3. ASSUME NEW e \in used PROVE Min(Of(e)) \in Nat
  <2>1. Of(e) \in SUBSET Nat /\ Of(e) # {}
    BY <1>1
  <2>2. Min(Of(e)) \in Of(e)
    BY <2>1, FirstOf
  <2> QED BY <2>1, <2>2
<1>4. DefaultEol(source) = IF used = {} THEN "lf" ELSE CHOOSE e \in used : \A f \in used : Before(e, f)
  BY DEF DefaultEol
<1>5. \A e \in used : e \in {"lf", "crlf"}
  OBVIOUS
<1>6. \A e, f \in used : /\ Cardinality(Of(e)) \in Nat /\ Cardinality(Of(f)) \in Nat
                         /\ Min(Of(e)) \in Nat /\ Min(Of(f)) \in Nat
  BY <1>2, <1>3
<1> HIDE DEF used, Of
<1>7. \A e, f \in used : Before(e, e) /\ (Before(e, f) \/ Before(f, e))
  BY <1>6
<1> HIDE DEF Before
<1>8. ASSUME used # {} PROVE \E e \in used : \A f \in used : Before(e, f)
  <2>1. PICK e \in used : TRUE
    BY <1>8
  <2>2. CASE \A f \in used : Before(e, f)
    BY <2>2
  <2>3. CASE ~(\A f \in used : Before(e, f))
    <3>1. PICK f \in used : ~Before(e, f)
      BY <2>3
    <3>2. Before(f, e) /\ Before(f, f) /\ e # f
      BY <1>7, <3>1
    <3>3. \A g \in used : g = e \/ g = f
      BY <1>5, <3>2
    <3> QED BY <3>2, <3>3
  <2> QED BY <2>2, <2>3
<1>9. used # {} => (CHOOSE e \in used : \A f \in used : Before(e, f)) \in used
  BY <1>8, Zenon
<1> QED BY <1>4, <1>5, <1>9

(* What takes the place of a chunk.                                            *)
LEMMA ReplacementOK ==
  ASSUME NEW source \in Seq(Line), NEW chunk \in Chunk, NEW at \in Nat, at + Len(Old(chunk)) <= Len(source)
  PROVE  LET new == Replacement(source, chunk, at)
             left == FlattenSeq(Left(TextsOf(source), chunk.lines, at)) IN
         new \in Seq(Line) /\ left \in Seq(Dressed) /\ TextsOf(new) = left
<1> DEFINE lines == chunk.lines
           texts == TextsOf(source)
           parsed == Parsed(lines)
           new == parsed.new
           n == Len(new)
           r == Replacement(source, chunk, at)
           s == Shown(new, texts, at)
<1>1. /\ lines \in Seq(ChunkLine) /\ Len(Old(chunk)) = Sought(lines, Len(lines)) /\ Len(Old(chunk)) \in Nat
      /\ parsed \in ParseState /\ ParseFits(parsed, lines, Len(lines))
  BY ChunkParts, ParsedOK
<1>2. /\ texts \in Seq(Dressed) /\ Len(texts) = Len(source) /\ Len(source) \in Nat
      /\ \A i \in 1..Len(source) : texts[i] = source[i].text
  BY TextsType, LenProperties
<1>3. FlattenSeq(Left(texts, lines, at)) = s /\ s \in Seq(Dressed)
  <2> HIDE DEF texts, lines
  <2>1. at + Sought(lines, Len(lines)) <= Len(texts)
    BY <1>1, <1>2
  <2> QED BY <1>1, <1>2, <2>1, LeftIsShown
<1>4. new \in Seq(NewLine) /\ \A i \in DOMAIN new : new[i].old <= Len(Old(chunk))
  BY <1>1 DEF ParseState, ParseFits
<1>5. n \in Nat /\ DOMAIN new = 1..n
  BY <1>4, LenProperties
<1>6. r = [i \in DOMAIN new |-> IF new[i].old = 0 THEN [text |-> new[i].text, eol |-> DefaultEol(source)]
                                ELSE source[at + new[i].old]]
  BY DEF Replacement
<1> HIDE DEF texts, lines, parsed, new, r
<1>7. ASSUME NEW i \in 1..n
      PROVE  new[i].old \in Nat /\ new[i].text \in Dressed /\ at + new[i].old \in Nat
             /\ (new[i].old # 0 => at + new[i].old \in 1..Len(source))
  <2>1. new[i] \in NewLine
    BY <1>4, ElementOfSeq
  <2>2. new[i].old \in Nat /\ new[i].text \in Dressed
    BY <2>1 DEF NewLine
  <2>3. new[i].old <= Len(Old(chunk))
    BY <1>4, <1>5
  <2> QED BY <1>1, <1>2, <2>2, <2>3
<1>8. ASSUME NEW i \in 1..n PROVE r[i] \in Line /\ r[i].text = ValueOf(new[i], texts, at)
  <2>1. CASE new[i].old = 0
    <3>1. r[i] = [text |-> new[i].text, eol |-> DefaultEol(source)]
      BY <1>5, <1>6, <2>1
    <3>2. DefaultEol(source) \in {"lf", "crlf", ""}
      BY EolOfFile
    <3>3. r[i] \in Line /\ r[i].text = new[i].text
      <4>1. \A t \in Dressed : \A e \in {"lf", "crlf", ""} :
               [text |-> t, eol |-> e] \in Line /\ [text |-> t, eol |-> e].text = t
        BY DEF Line
      <4>2. new[i].text \in Dressed
        BY <1>7
      <4> QED BY <3>1, <3>2, <4>1, <4>2
    <3> QED BY <2>1, <3>3 DEF ValueOf
  <2>2. CASE new[i].old # 0
    <3>1. r[i] = source[at + new[i].old]
      BY <1>5, <1>6, <2>2
    <3>2. source[at + new[i].old] \in Line /\ source[at + new[i].old].text = texts[at + new[i].old]
      BY <1>2, <1>7, <2>2, ElementOfSeq
    <3> QED BY <2>2, <3>1, <3>2 DEF ValueOf
  <2> QED BY <2>1, <2>2
<1>9. r \in Seq(Line) /\ Len(r) = n
  <2>1. r \in [1..n -> Line]
    BY <1>5, <1>6, <1>8
  <2> QED BY <1>5, <2>1, FunctionIsSeq
<1>10. Len(s) = n /\ \A i \in 1..n : s[i] = ValueOf(new[i], texts, at)
  <2>1. \A i \in DOMAIN new : at + new[i].old <= Len(texts)
    <3> SUFFICES ASSUME NEW i \in 1..n PROVE at + new[i].old <= Len(texts)
      BY <1>5
    <3>1. new[i].old <= Len(Old(chunk)) /\ new[i].old \in Nat
      BY <1>4, <1>5, <1>7
    <3> QED BY <1>1, <1>2, <3>1
  <2> QED BY <1>2, <1>4, <2>1, ShownType
<1>11. TextsOf(r) \in Seq(Dressed) /\ Len(TextsOf(r)) = n /\ \A i \in 1..n : TextsOf(r)[i] = r[i].text
  BY <1>9, TextsType
<1> HIDE DEF s
<1>12. TextsOf(r) = s
  <2>1. \A i \in 1..Len(TextsOf(r)) : TextsOf(r)[i] = s[i]
    BY <1>8, <1>10, <1>11
  <2> QED BY <1>3, <1>10, <1>11, <2>1, SeqEqual
<1> QED BY <1>3, <1>9, <1>12 DEF r, texts, lines

(* The endings of the new text.                                                *)
LEMMA EndingsOK ==
  ASSUME NEW lines \in Seq(Line), NEW source \in Seq(Line)
  PROVE  LET result == WithEndings(lines, source) IN
         /\ TextsOf(result) = TextsOf(lines)
         /\ \A i \in DOMAIN result : result[i].eol = "" <=> i = Len(result) /\ source # <<>> /\ Last(source).eol = ""
<1> DEFINE result == WithEndings(lines, source)
           n == Len(lines)
           open == source # <<>> /\ Last(source).eol = ""
           eol == DefaultEol(source)
<1>1. /\ n \in Nat /\ DOMAIN lines = 1..n
      /\ \A i \in 1..n : lines[i] \in Line /\ lines[i].text \in Dressed /\ lines[i].eol \in {"lf", "crlf", ""}
  BY LineParts
<1>2. eol \in {"lf", "crlf"} /\ eol # ""
  BY EolOfFile
<1>3. result = [i \in DOMAIN lines |-> IF i = n /\ open THEN [lines[i] EXCEPT !.eol = ""] ELSE WithEol(lines[i], eol)]
  BY DEF WithEndings
<1> HIDE DEF result, open, eol
<1>4. ASSUME NEW i \in 1..n
      PROVE  result[i] \in Line /\ result[i].text = lines[i].text /\ (result[i].eol = "" <=> i = n /\ open)
  <2>1. \A l \in Line : /\ [l EXCEPT !.eol = ""] \in Line /\ [l EXCEPT !.eol = ""].text = l.text
                        /\ [l EXCEPT !.eol = ""].eol = ""
    BY DEF Line
  <2>2. \A l \in Line : WithEol(l, eol) \in Line /\ WithEol(l, eol).text = l.text /\ WithEol(l, eol).eol # ""
    BY <1>2 DEF Line, WithEol
  <2>3. CASE i = n /\ open
    <3>1. result[i] = [lines[i] EXCEPT !.eol = ""]
      BY <1>1, <1>3, <2>3
    <3> QED BY <1>1, <2>1, <2>3, <3>1
  <2>4. CASE ~(i = n /\ open)
    <3>1. result[i] = WithEol(lines[i], eol)
      BY <1>1, <1>3, <2>4
    <3> QED BY <1>1, <2>2, <2>4, <3>1
  <2> QED BY <2>3, <2>4
<1>5. result \in Seq(Line) /\ Len(result) = n /\ DOMAIN result = 1..n
  <2>1. result \in [1..n -> Line]
    BY <1>1, <1>3, <1>4
  <2> QED BY <1>1, <2>1, FunctionIsSeq
<1>6. TextsOf(result) = TextsOf(lines)
  BY <1>1, <1>4, <1>5 DEF TextsOf
<1>7. \A i \in DOMAIN result : result[i].eol = "" <=> i = Len(result) /\ open
  BY <1>4, <1>5
<1> QED BY <1>6, <1>7 DEF result, open

-----------------------------------------------------------------------------
(* The new text: what is left alone before each chunk, then what stands in its *)
(* place.                                                                      *)
SourceGap(source, chunks, k) ==
  SubSeq(source, Placed(TextsOf(source), chunks)[k - 1].from + 1, Placed(TextsOf(source), chunks)[k].at)
NewPart(source, chunks, k) == Replacement(source, chunks[k], Placed(TextsOf(source), chunks)[k].at)
IsJoined(g, source, chunks) ==
  g = [k \in 0..Len(chunks) |-> IF k = 0 THEN <<>> ELSE g[k - 1] \o SourceGap(source, chunks, k) \o NewPart(source, chunks, k)]
JoinedOf(source, chunks) == CHOOSE g : IsJoined(g, source, chunks)
LastGap(source, chunks) == SubSeq(source, Placed(TextsOf(source), chunks)[Len(chunks)].from + 1, Len(source))
TextEdit(texts, chunks, at, k) ==
  SubSeq(texts, EndBefore(chunks, at, k) + 1, at[k]) \o FlattenSeq(Left(texts, chunks[k].lines, at[k]))
LastTexts(texts, chunks, at) == SubSeq(texts, EndBefore(chunks, at, Len(chunks) + 1) + 1, Len(texts))

LEMMA UpdateUnfolds ==
  ASSUME NEW source, NEW chunks
  PROVE  UpdateText(source, chunks) = WithEndings(JoinedOf(source, chunks)[Len(chunks)] \o LastGap(source, chunks), source)
BY DEF UpdateText, JoinedOf, IsJoined, SourceGap, NewPart, LastGap

LEMMA EditedUnfolds ==
  ASSUME NEW texts, NEW chunks, NEW at
  PROVE  Edited(texts, chunks, at)
           = FlattenSeq([k \in DOMAIN chunks |-> TextEdit(texts, chunks, at, k)]) \o LastTexts(texts, chunks, at)
BY DEF Edited, TextEdit, LastTexts

LEMMA PartsOK ==
  ASSUME NEW source \in Seq(Line), NEW chunks \in Seq(Chunk), ~Mismatch(source, chunks), NEW k \in 1..Len(chunks)
  PROVE  LET gap == SourceGap(source, chunks, k)
             new == NewPart(source, chunks, k)
             texts == TextsOf(source)
             edit == TextEdit(texts, chunks, Found(texts, chunks), k) IN
         /\ gap \in Seq(Line) /\ new \in Seq(Line)
         /\ edit \in Seq(Dressed) /\ edit = TextsOf(gap) \o TextsOf(new)
<1> DEFINE texts == TextsOf(source)
           n == Len(chunks)
           f == Placed(texts, chunks)
           at == Found(texts, chunks)
           from == f[k - 1].from
           to == f[k].at
           gap == SourceGap(source, chunks, k)
           new == NewPart(source, chunks, k)
           left == FlattenSeq(Left(texts, chunks[k].lines, to))
           sub == SubSeq(texts, from + 1, to)
<1>1. texts \in Seq(Dressed) /\ Len(texts) = Len(source) /\ Len(source) \in Nat /\ n \in Nat
  BY TextsType, LenProperties
<1>2. f[n].at # NotFound
  BY DEF Mismatch
<1>3. k \in 1..(n + 1) /\ chunks[k] \in Chunk
  BY <1>1, ElementOfSeq
<1>4. /\ at[k] = to /\ to \in Nat /\ from \in Nat /\ f[k].from \in Nat
      /\ from <= to /\ f[k].from = to + Len(Old(chunks[k])) /\ f[k].from <= Len(texts)
      /\ EndBefore(chunks, at, k) = from
  BY <1>1, <1>2, <1>3, FoundPlaces
<1>5. Len(Old(chunks[k])) \in Nat
  BY <1>3, ChunkParts
<1>6. gap = SubSeq(source, from + 1, to) /\ new = Replacement(source, chunks[k], to)
  BY DEF SourceGap, NewPart
<1>7. TextEdit(texts, chunks, at, k) = sub \o left
  BY <1>4 DEF TextEdit
<1> HIDE DEF f, at, from, to, gap, new
<1>8. to + Len(Old(chunks[k])) <= Len(source) /\ to <= Len(source) /\ from + 1 \in Nat /\ 1 <= from + 1
  BY <1>1, <1>4, <1>5
<1>9. new \in Seq(Line) /\ left \in Seq(Dressed) /\ TextsOf(new) = left
  BY <1>3, <1>4, <1>6, <1>8, ReplacementOK
<1>10. gap \in Seq(Line) /\ sub \in Seq(Dressed) /\ TextsOf(gap) = sub
  BY <1>4, <1>6, <1>8, TextsSub
<1> HIDE DEF left, sub, texts
<1>11. sub \o left \in Seq(Dressed)
  BY <1>9, <1>10, ConcatProperties
<1> QED BY <1>7, <1>9, <1>10, <1>11 DEF at, gap, new, texts

LEMMA LastPartOK ==
  ASSUME NEW source \in Seq(Line), NEW chunks \in Seq(Chunk), ~Mismatch(source, chunks)
  PROVE  LET texts == TextsOf(source) IN
         /\ LastGap(source, chunks) \in Seq(Line)
         /\ TextsOf(LastGap(source, chunks)) = LastTexts(texts, chunks, Found(texts, chunks))
<1> DEFINE texts == TextsOf(source)
           n == Len(chunks)
           f == Placed(texts, chunks)
           at == Found(texts, chunks)
           from == f[n].from
<1>1. texts \in Seq(Dressed) /\ Len(texts) = Len(source) /\ Len(source) \in Nat /\ n \in Nat
  BY TextsType, LenProperties
<1>2. f[n].at # NotFound
  BY DEF Mismatch
<1>3. n + 1 \in 1..(n + 1) /\ (n + 1) - 1 = n /\ n \in 0..n
  BY <1>1
<1>4. EndBefore(chunks, at, n + 1) = from
  <2>1. EndBefore(chunks, at, n + 1) = f[(n + 1) - 1].from
    BY <1>1, <1>2, <1>3, FoundPlaces
  <2> QED BY <1>3, <2>1
<1>5. f[n] \in GoodPlace(texts)
  BY <1>1, <1>3, PlacedTypes
<1> HIDE DEF f, at
<1>6. from \in Nat
  BY <1>5 DEF GoodPlace, PlaceState
<1>7. LastGap(source, chunks) = SubSeq(source, from + 1, Len(source))
  BY DEF LastGap, f
<1>8. LastTexts(texts, chunks, at) = SubSeq(texts, from + 1, Len(source))
  BY <1>1, <1>4 DEF LastTexts
<1> HIDE DEF from
<1>9. from + 1 \in Nat /\ 1 <= from + 1 /\ Len(source) <= Len(source)
  BY <1>1, <1>6
<1>10. /\ SubSeq(source, from + 1, Len(source)) \in Seq(Line)
       /\ TextsOf(SubSeq(source, from + 1, Len(source))) = SubSeq(texts, from + 1, Len(source))
  BY <1>1, <1>9, TextsSub
<1> QED BY <1>7, <1>8, <1>10 DEF at

LEMMA JoinedOK ==
  ASSUME NEW source \in Seq(Line), NEW chunks \in Seq(Chunk), ~Mismatch(source, chunks)
  PROVE  LET g == JoinedOf(source, chunks) IN
         /\ g[0] = <<>>
         /\ \A k \in 0..Len(chunks) : g[k] \in Seq(Line)
         /\ \A k \in 1..Len(chunks) : g[k] = g[k - 1] \o SourceGap(source, chunks, k) \o NewPart(source, chunks, k)
<1> DEFINE n == Len(chunks)
           S == Seq(Line)
           Gap(k) == SourceGap(source, chunks, k)
           New(k) == NewPart(source, chunks, k)
           step == [k \in 1..n |-> [x \in S |-> x \o Gap(k) \o New(k)]]
           g == JoinedOf(source, chunks)
<1>1. n \in Nat
  BY LenProperties
<1>2. \A k \in 1..n : Gap(k) \in S /\ New(k) \in S
  BY PartsOK
<1>3. <<>> \in S
  BY EmptySeq
<1> HIDE DEF Gap, New
<1>4. ASSUME NEW k \in 1..n, NEW x \in S PROVE x \o Gap(k) \o New(k) \in S
  <2>1. x \o Gap(k) \in S
    BY <1>2, ConcatProperties
  <2> QED BY <1>2, <2>1, ConcatProperties
<1>5. step \in [1..n -> [S -> S]] /\ \A k \in 1..n : \A x \in S : step[k][x] = x \o Gap(k) \o New(k)
  BY <1>4
<1> HIDE DEF step, S
<1>6. PICK f \in [0..n -> S] : Follows(f, <<>>, step, n)
  BY <1>1, <1>3, <1>5, RecursionExists
<1>7. ASSUME NEW k \in 0..n PROVE f[k] = IF k = 0 THEN <<>> ELSE f[k - 1] \o Gap(k) \o New(k)
  <2>1. CASE k = 0
    BY <1>6, <2>1 DEF Follows
  <2>2. CASE k # 0
    <3>1. k \in 1..n /\ k - 1 \in 0..n
      BY <1>1, <2>2
    <3>2. f[k - 1] \in S
      BY <1>6, <3>1
    <3>3. f[k] = step[k][f[k - 1]]
      BY <1>6, <3>1 DEF Follows
    <3> QED BY <1>5, <2>2, <3>1, <3>2, <3>3
  <2> QED BY <2>1, <2>2
<1>8. IsJoined(f, source, chunks)
  BY <1>6, <1>7 DEF IsJoined, Gap, New
<1>9. IsJoined(g, source, chunks)
  BY <1>8, Zenon DEF JoinedOf
<1> HIDE DEF g
<1>10. g[0] = <<>>
  BY <1>1, <1>9 DEF IsJoined
<1>11. ASSUME NEW k \in 1..n PROVE g[k] = g[k - 1] \o Gap(k) \o New(k)
  <2>1. k \in 0..n /\ k # 0
    BY <1>1
  <2> QED BY <1>9, <2>1 DEF IsJoined, Gap, New
<1> DEFINE T == {k \in 0..n : g[k] \in S}
<1>12. 0 \in T
  BY <1>1, <1>3, <1>10
<1>13. \A k \in 1..n : k - 1 \in T => k \in T
  <2> SUFFICES ASSUME NEW k \in 1..n, k - 1 \in T PROVE k \in T
    OBVIOUS
  <2>1. g[k - 1] \in S /\ k \in 0..n
    BY <1>1
  <2>2. g[k - 1] \o Gap(k) \o New(k) \in S
    BY <1>4, <2>1
  <2> QED BY <1>11, <2>1, <2>2
<1> HIDE DEF T
<1>14. \A k \in 0..n : k \in T
  BY <1>1, <1>12, <1>13, BoundedInduction
<1> QED BY <1>10, <1>11, <1>14 DEF T, S, g, Gap, New

LEMMA JoinedTexts ==
  ASSUME NEW source \in Seq(Line), NEW chunks \in Seq(Chunk), ~Mismatch(source, chunks)
  PROVE  LET texts == TextsOf(source)
             g == JoinedOf(source, chunks)
             at == Found(texts, chunks) IN
         TextsOf(g[Len(chunks)]) = FlattenSeq([k \in DOMAIN chunks |-> TextEdit(texts, chunks, at, k)])
<1> DEFINE n == Len(chunks)
           texts == TextsOf(source)
           g == JoinedOf(source, chunks)
           at == Found(texts, chunks)
           Gap(k) == SourceGap(source, chunks, k)
           New(k) == NewPart(source, chunks, k)
           PartAt(k) == TextEdit(texts, chunks, at, k)
           parts == [k \in DOMAIN chunks |-> PartAt(k)]
           F == [k \in 0..n |-> TextsOf(g[k])]
<1>1. n \in Nat /\ DOMAIN chunks = 1..n
  BY LenProperties
<1>2. \A k \in 1..n : Gap(k) \in Seq(Line) /\ New(k) \in Seq(Line) /\ PartAt(k) \in Seq(Dressed)
                      /\ PartAt(k) = TextsOf(Gap(k)) \o TextsOf(New(k))
  BY PartsOK
<1>3. /\ g[0] = <<>>
      /\ \A k \in 0..n : g[k] \in Seq(Line)
      /\ \A k \in 1..n : g[k] = g[k - 1] \o Gap(k) \o New(k)
  BY JoinedOK
<1> HIDE DEF Gap, New, PartAt, g
<1>4. parts \in Seq(Seq(Dressed)) /\ Len(parts) = n /\ \A k \in 1..n : parts[k] = PartAt(k)
  <2>1. parts \in [1..n -> Seq(Dressed)] /\ \A k \in 1..n : parts[k] = PartAt(k)
    BY <1>1, <1>2
  <2> HIDE DEF parts
  <2> QED BY <1>1, <2>1, FunctionIsSeq
<1>5. \A k \in 0..n : F[k] = TextsOf(g[k])
  OBVIOUS
<1>6. \A k \in 0..n : TextsOf(g[k]) \in Seq(Dressed)
  BY <1>3, TextsType
<1>7. F \in [0..n -> Seq(Dressed)]
  BY <1>6
<1>8. F[0] = <<>>
  <2>1. TextsOf(<<>>) = <<>>
    <3>1. <<>> \in Seq(Line) /\ Len(<<>>) = 0
      BY EmptySeq
    <3>2. TextsOf(<<>>) \in Seq(Dressed) /\ Len(TextsOf(<<>>)) = 0
      BY <3>1, TextsType
    <3> QED BY <3>2, EmptySeq
  <2> QED BY <1>1, <1>3, <1>5, <2>1
<1> HIDE DEF F, parts
<1>9. ASSUME NEW k \in 1..n PROVE F[k] = F[k - 1] \o parts[k]
  <2> DEFINE x == g[k - 1]
             p == TextsOf(x)
             q == TextsOf(Gap(k))
             r == TextsOf(New(k))
  <2>1. k \in 0..n /\ k - 1 \in 0..n
    BY <1>1
  <2>2. x \in Seq(Line) /\ Gap(k) \in Seq(Line) /\ New(k) \in Seq(Line)
    BY <1>2, <1>3, <2>1
  <2>3. g[k] = (x \o Gap(k)) \o New(k)
    BY <1>3
  <2>4. F[k] = TextsOf(g[k]) /\ F[k - 1] = p /\ parts[k] = q \o r
    BY <1>2, <1>4, <1>5, <2>1
  <2> HIDE DEF x
  <2>5. x \o Gap(k) \in Seq(Line) /\ TextsOf(x \o Gap(k)) = p \o q
    BY <2>2, TextsConcat
  <2>6. TextsOf((x \o Gap(k)) \o New(k)) = TextsOf(x \o Gap(k)) \o r
    BY <2>2, <2>5, TextsConcat
  <2>7. p \in Seq(Dressed) /\ q \in Seq(Dressed) /\ r \in Seq(Dressed)
    BY <2>2, TextsType
  <2> HIDE DEF p, q, r
  <2>8. (p \o q) \o r = p \o (q \o r)
    BY <2>7, ConcatAssociative
  <2> QED BY <2>3, <2>4, <2>5, <2>6, <2>8
<1>10. FlattenSeq(parts) = F[n]
  <2>1. \A k \in 1..Len(parts) : F[k] = F[k - 1] \o parts[k]
    BY <1>4, <1>9
  <2>2. F \in [0..Len(parts) -> Seq(Dressed)]
    BY <1>4, <1>7
  <2>3. FlattenSeq(parts) = F[Len(parts)]
    BY <1>4, <1>8, <2>1, <2>2, FlattenIs
  <2> QED BY <1>4, <2>3
<1>11. F[n] = TextsOf(g[n])
  <2>1. n \in 0..n
    BY <1>1
  <2> QED BY <1>5, <2>1
<1> QED BY <1>10, <1>11 DEF parts, PartAt, g

(* Whatever the file and the chunks, the update that updateText() makes is the *)
(* edit that the chunks describe, and it refuses none whose lines are there    *)
(* character by character (seekSequence() and updateText() of patch-parser.ts).*)
THEOREM EveryUpdateIsAnEdit ==
  \A source \in Seq(Line), chunks \in Seq(Chunk) : IsAnEdit(source, chunks)
<1> SUFFICES ASSUME NEW source \in Seq(Line), NEW chunks \in Seq(Chunk) PROVE IsAnEdit(source, chunks)
  OBVIOUS
<1> DEFINE texts == TextsOf(source)
           result == UpdateText(source, chunks)
           at == Found(texts, chunks)
           n == Len(chunks)
           body == JoinedOf(source, chunks)[n]
           gap == LastGap(source, chunks)
           whole == body \o gap
<1>1. texts \in Seq(Dressed) /\ n \in Nat
  BY TextsType, LenProperties
<1>2. CASE Mismatch(source, chunks)
  <2>1. Placed(texts, chunks)[n].at = NotFound
    BY <1>2 DEF Mismatch
  <2>2. \A a \in Placements(texts, chunks, 1) : FALSE
    BY <1>1, <2>1, NeverRefused
  <2>3. Placements(texts, chunks, 1) = {}
    BY <2>2
  <2> QED BY <1>2, <2>3 DEF IsAnEdit
<1>3. CASE ~Mismatch(source, chunks)
  <2>1. Placed(texts, chunks)[n].at # NotFound
    BY <1>3 DEF Mismatch
  <2>2. at \in Placements(texts, chunks, 4)
    BY <1>1, <2>1, FoundPlaces
  <2>3. body \in Seq(Line)
    <3>1. n \in 0..n
      BY <1>1
    <3> QED BY <1>3, <3>1, JoinedOK
  <2>4. gap \in Seq(Line) /\ TextsOf(gap) = LastTexts(texts, chunks, at)
    BY <1>3, LastPartOK
  <2>5. TextsOf(body) = FlattenSeq([k \in DOMAIN chunks |-> TextEdit(texts, chunks, at, k)])
    BY <1>3, JoinedTexts
  <2>6. Edited(texts, chunks, at) = TextsOf(body) \o TextsOf(gap)
    BY <2>4, <2>5, EditedUnfolds
  <2>7. result = WithEndings(whole, source)
    BY UpdateUnfolds
  <2> HIDE DEF body, gap, at, result
  <2>8. whole \in Seq(Line) /\ TextsOf(whole) = TextsOf(body) \o TextsOf(gap)
    BY <2>3, <2>4, TextsConcat
  <2> HIDE DEF whole
  <2>9. /\ TextsOf(result) = TextsOf(whole)
        /\ \A i \in DOMAIN result : result[i].eol = "" <=> i = Len(result) /\ source # <<>> /\ Last(source).eol = ""
    BY <2>7, <2>8, EndingsOK
  <2>10. \E a \in Placements(texts, chunks, 4) : TextsOf(result) = Edited(texts, chunks, a)
    BY <2>2, <2>6, <2>8, <2>9
  <2> QED BY <1>3, <2>9, <2>10 DEF IsAnEdit, result
<1> QED BY <1>2, <1>3

(* At most once an update has changed a file does it matter; but no update ever *)
(* misedits one (updateText() of patch-parser.ts).                             *)
THEOREM UpdateIsAnEditHolds == Spec => []UpdateIsAnEdit
<1>1. Misedits = {}
  <2> SUFFICES ASSUME NEW e \in Sources \X ChunkLists PROVE IsAnEdit(e[1], e[2])
    BY DEF Misedits
  <2>1. e[1] \in Seq(Line) /\ e[2] \in Seq(Chunk)
    BY TextAssumption
  <2> QED BY <2>1, EveryUpdateIsAnEdit
<1>2. UpdateIsAnEdit
  BY <1>1 DEF UpdateIsAnEdit
<1> QED BY <1>2, PTL
=============================================================================
