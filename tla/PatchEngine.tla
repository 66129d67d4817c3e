---------------------------- MODULE PatchEngine ----------------------------
(***************************************************************************)
(* apply_patch (src/runtime/patch-engine.ts): calls prepare their hunks    *)
(* from the files as they find them, then one call at a time verifies and  *)
(* commits under the mutex, while editors outside the server change the    *)
(* same files.  A step is one file operation.  A snapshot is one step: a   *)
(* change between its stat and its read makes the signatures differ, as if *)
(* it had come just after.                                                 *)
(***************************************************************************)
EXTENDS PatchText

CONSTANTS Calls,      \* the apply_patch calls
          Paths,      \* regular files, existing or not: none is a link or lies below another
          DirOf,      \* the directory each path lies in
          Patches,    \* the patches clients send: sequences of hunks
          MaxEdits,   \* bound: changes by editors outside
          MaxFaults,  \* bound: file operations that fail
          Absent

Dirs == {DirOf[p] : p \in Paths}
HunkType == [operation : {"add", "update", "delete", "move"}, path : Paths, target : Paths]

ASSUME PatchAssumption == /\ Absent \notin Nat
                          /\ \A patch \in Patches : patch \in Seq(HunkType) /\ patch # <<>>
                          /\ \A patch \in Patches : \A k \in DOMAIN patch :
                               patch[k].operation # "move" => patch[k].target = patch[k].path

VARIABLES file,      \* each path's signature (a fresh number for every write), or Absent
          dirs,      \* the directories that exist
          stamps,    \* the last signature given out
          call,      \* the calls
          mutex,     \* the calls that hold or await the mutex, in order
          edits, faults,
          raced,     \* history: paths changed outside since the holder last verified them
          disturbed  \* history: calls during whose commit an editor or a fault intervened

disk == <<file, dirs, stamps>>
history == <<edits, faults, raced, disturbed>>
vars == <<disk, call, mutex, history>>

Steps == {"idle", "prepare", "wait", "verify_all", "verify", "parent", "write", "link", "clean_up",
          "recheck", "unlink", "ended"}
Results == {"none", "applied", "refused", "failed", "partial"}
Effect == {"add", "update", "delete", "copy"} \X Paths
(* patch, snapshots: the hunks and what was read of their sources          *)
(* k: the hunk at work       changes, created: what the answer will list   *)
(* did: history, what the call really did to the disk                      *)
NoCall == [at |-> "idle", patch |-> <<>>, snapshots |-> <<>>, k |-> 1, changes |-> {}, created |-> {},
           did |-> {}, result |-> "none"]

Init == /\ file \in [Paths -> {0, Absent}]
        /\ dirs \in SUBSET Dirs
        /\ \A p \in Paths : file[p] # Absent => DirOf[p] \in dirs
        /\ stamps = 0
        /\ call = [c \in Calls |-> NoCall]
        /\ mutex = <<>>
        /\ edits = 0 /\ faults = 0
        /\ raced = {} /\ disturbed = {}

Committing(c) == call[c].at \in {"verify_all", "verify", "parent", "write", "link", "clean_up", "recheck", "unlink"}

TypeOK == /\ file \in [Paths -> 0..stamps \cup {Absent}]
          /\ dirs \subseteq Dirs
          /\ \A p \in Paths : file[p] # Absent => DirOf[p] \in dirs
          /\ mutex \in Seq(Calls)
          /\ raced \subseteq Paths
          /\ disturbed \subseteq Calls
          /\ \A c \in Calls : LET a == call[c] IN
               /\ a.at \in Steps /\ a.result \in Results
               /\ a.patch \in Patches \cup {<<>>}
               /\ a.k \in 1..(Len(a.patch) + 1)
               /\ Len(a.snapshots) <= Len(a.patch)
               /\ a.changes \cup a.did \subseteq Effect
               /\ a.created \subseteq Dirs
               /\ (a.result = "none") = (a.at # "ended")
               /\ Cardinality({j \in DOMAIN mutex : mutex[j] = c}) = IF Committing(c) \/ a.at = "wait" THEN 1 ELSE 0
               /\ Committing(c) => Head(mutex) = c
-----------------------------------------------------------------------------
At(c, step) == call[c].at = step
Hunk(c) == call[c].patch[call[c].k]
Set(c, a) == call' = [call EXCEPT ![c] = a]
Creates(h) == h.operation \in {"add", "move"}
MoreHunks(c) == call[c].k < Len(call[c].patch)

Begin(c) == /\ At(c, "idle")
            /\ \E patch \in Patches : Set(c, [NoCall EXCEPT !.at = "prepare", !.patch = patch])
            /\ UNCHANGED <<disk, mutex, history>>

\* The path keys of a hunk may not occur in an earlier one.
Touched(h) == {h.path, h.target}
Untouched(c) == TRUE
NotTouched(c) == \A j \in 1..(call[c].k - 1) : Touched(call[c].patch[j]) \cap Touched(Hunk(c)) = {}
Preparable(c) == /\ Hunk(c).operation # "add" => file[Hunk(c).path] # Absent
                 /\ Creates(Hunk(c)) => file[Hunk(c).target] = Absent
                 /\ NotTouched(c)

\* Mutex.run queues the call when its last hunk is prepared.
Prepare(c) ==
  /\ At(c, "prepare")
  /\ LET a == call[c]
         b == [a EXCEPT !.snapshots = Append(@, file[Hunk(c).path])]
     IN  IF ~Preparable(c)
           THEN Set(c, [a EXCEPT !.at = "ended", !.result = "refused"]) /\ UNCHANGED mutex
           ELSE IF MoreHunks(c)
             THEN Set(c, [b EXCEPT !.k = @ + 1]) /\ UNCHANGED mutex
             ELSE Set(c, [b EXCEPT !.k = 1, !.at = "wait"]) /\ mutex' = Append(mutex, c)
  /\ UNCHANGED <<disk, history>>

Holds(c) == mutex # <<>> /\ Head(mutex) = c
Enter(c) == /\ At(c, "wait") /\ Holds(c)
            /\ Set(c, [call[c] EXCEPT !.at = "verify_all"])
            /\ UNCHANGED <<disk, mutex, history>>

\* The finally of Mutex.run.
KeepMutex == mutex
Unlocked == Tail(mutex)

\* The catch around the commit: partial or not.
Partial(a) == a.changes # {} \/ a.created # {}
Fail(c, a) == /\ Set(c, [a EXCEPT !.at = "ended", !.result = IF Partial(a) THEN "partial" ELSE "failed"])
              /\ mutex' = Unlocked
Proceed(c, a) ==
  IF MoreHunks(c) THEN Set(c, [a EXCEPT !.at = "verify", !.k = @ + 1]) /\ UNCHANGED mutex
                  ELSE Set(c, [a EXCEPT !.at = "ended", !.result = "applied"]) /\ mutex' = Unlocked

TargetFree(h) == Creates(h) => file[h.target] = Absent
Unchanged(c) == Hunk(c).operation # "add" => file[Hunk(c).path] = call[c].snapshots[call[c].k]
TargetOnly(c) == TargetFree(Hunk(c))
Verified(c) == Unchanged(c) /\ TargetFree(Hunk(c))

\* Every hunk is verified before the first is committed, and each again at its turn.
VerifyAll(c) ==
  /\ At(c, "verify_all")
  /\ IF ~Verified(c) THEN Fail(c, call[c])
     ELSE /\ Set(c, IF MoreHunks(c) THEN [call[c] EXCEPT !.k = @ + 1]
                                    ELSE [call[c] EXCEPT !.k = 1, !.at = "verify"])
          /\ UNCHANGED mutex
  /\ UNCHANGED <<disk, history>>
FirstStep(h) == CASE h.operation = "delete" -> "unlink"
                  [] h.operation = "update" -> "write"
                  [] OTHER -> "parent"
VerifyAgain(c) ==
  /\ At(c, "verify")
  /\ IF ~Verified(c) THEN Fail(c, call[c]) /\ UNCHANGED raced
     ELSE /\ Set(c, [call[c] EXCEPT !.at = FirstStep(Hunk(c))])
          /\ raced' = raced \ Touched(Hunk(c))
          /\ UNCHANGED mutex
  /\ UNCHANGED <<disk, edits, faults, disturbed>>

\* ensureParent(): what it creates is remembered at once.
EnsureParent(c) ==
  /\ At(c, "parent")
  /\ LET d == DirOf[Hunk(c).target] IN
     /\ Set(c, [call[c] EXCEPT !.at = "write", !.created = @ \cup ({d} \ dirs)])
     /\ dirs' = dirs \cup {d}
  /\ UNCHANGED <<file, stamps, mutex, history>>

\* writeAtomic(): a temporary file is written, then renamed over an updated file or linked
\* as a new one, which fails on EEXIST, then removed; only then is the change recorded.
WriteTemporary(c) == /\ At(c, "write")
                     /\ Set(c, [call[c] EXCEPT !.at = "link"])
                     /\ UNCHANGED <<disk, mutex, history>>

ChangeOf(h) == <<IF h.operation = "move" THEN "copy" ELSE h.operation, h.target>>
LinkPossible(h) == Creates(h) => file[h.target] = Absent
Link(c) ==
  /\ At(c, "link")
  /\ LET h == Hunk(c) IN
     IF ~LinkPossible(h)
       THEN Fail(c, call[c]) /\ UNCHANGED disk
       ELSE /\ stamps' = stamps + 1
            /\ file' = [file EXCEPT ![h.target] = stamps']
            /\ Set(c, [call[c] EXCEPT !.at = "clean_up", !.did = @ \cup {ChangeOf(h)}])
            /\ UNCHANGED <<dirs, mutex>>
  /\ UNCHANGED history

Record(c) == LET a == [call[c] EXCEPT !.changes = @ \cup {ChangeOf(Hunk(c))}]
             IN  IF Hunk(c).operation = "move" THEN Set(c, [a EXCEPT !.at = "recheck"]) /\ UNCHANGED mutex
                                               ELSE Proceed(c, a)
CleanUp(c) == /\ At(c, "clean_up")
              /\ Record(c)
              /\ UNCHANGED <<disk, history>>

\* A moved file's source is compared once more before it is removed.
Recheck(c) ==
  /\ At(c, "recheck")
  /\ IF ~Unchanged(c) THEN Fail(c, call[c]) /\ UNCHANGED raced
     ELSE /\ Set(c, [call[c] EXCEPT !.at = "unlink"])
          /\ raced' = raced \ {Hunk(c).path}
          /\ UNCHANGED mutex
  /\ UNCHANGED <<disk, edits, faults, disturbed>>

\* unlink() of a deleted file or of a move's source: source_removed is set after it.
Unlink(c) ==
  /\ At(c, "unlink")
  /\ LET p == Hunk(c).path
         a == [call[c] EXCEPT !.changes = @ \cup {<<"delete", p>>}, !.did = @ \cup {<<"delete", p>>}]
     IN  IF file[p] = Absent THEN Fail(c, call[c]) /\ UNCHANGED file
                             ELSE Proceed(c, a) /\ file' = [file EXCEPT ![p] = Absent]
  /\ UNCHANGED <<dirs, stamps, history>>

\* A file operation of the commit fails (disk full, permissions); one of the clean-up only
\* adds a warning.
FailAnywhere(c) == Fail(c, call[c])
FailStep(c) == IF At(c, "clean_up") THEN Record(c) ELSE Fail(c, call[c])
Fault(c) == /\ Committing(c) /\ faults < MaxFaults
            /\ FailStep(c)
            /\ faults' = faults + 1
            /\ disturbed' = disturbed \cup {c}
            /\ UNCHANGED <<disk, edits, raced>>

\* An editor or another program saves, creates or removes a file.
Edit(p) == /\ edits < MaxEdits
           /\ edits' = edits + 1
           /\ \/ /\ DirOf[p] \in dirs
                 /\ stamps' = stamps + 1
                 /\ file' = [file EXCEPT ![p] = stamps']
              \/ /\ file[p] # Absent
                 /\ file' = [file EXCEPT ![p] = Absent]
                 /\ UNCHANGED stamps
           /\ raced' = raced \cup {p}
           /\ disturbed' = disturbed \cup {c \in Calls : Committing(c)}
           /\ UNCHANGED <<dirs, call, mutex, faults>>

Step(c) == \/ Begin(c)
           \/ Prepare(c)
           \/ Enter(c)
           \/ VerifyAll(c)
           \/ VerifyAgain(c)
           \/ EnsureParent(c)
           \/ WriteTemporary(c)
           \/ Link(c)
           \/ CleanUp(c)
           \/ Recheck(c)
           \/ Unlink(c)
Next == \/ \E c \in Calls : Step(c) \/ Fault(c)
        \/ \E p \in Paths : Edit(p)

Spec == Init /\ [][Next]_vars

\* File operations return, so a call that has begun goes on.
FairSpec == Spec /\ \A c \in Calls : WF_vars(Step(c) /\ ~At(c, "idle"))
-----------------------------------------------------------------------------
(* The answer is exact: what a call lists as changed is what it did to the   *)
(* disk, and one that says it changed nothing has changed nothing.           *)
Demanded(patch) == UNION {{ChangeOf(h)} \cup (IF h.operation = "move" THEN {<<"delete", h.path>>} ELSE {})
                            : h \in {patch[k] : k \in DOMAIN patch}}
ReportIsExact ==
  \A c \in Calls : LET a == call[c] IN
    /\ a.at = "ended" => a.changes = a.did
    /\ a.result \in {"refused", "failed"} => a.did = {} /\ a.created = {}
    /\ a.result = "applied" => a.did = Demanded(a.patch)

(* Hunks of one patch and patches of several calls do not get into each      *)
(* other's way: a partial result needs a failure or an editor outside.       *)
PartialOnlyIfDisturbed == \A c \in Calls : call[c].result = "partial" => c \in disturbed

(* What the server replaces or removes is what the patch was made from,      *)
(* whoever saved it: the one exception is a change outside that slips in     *)
(* between the last comparison and the write.                                *)
NothingUnreadIsLost ==
  [][\A c \in Calls, p \in Paths :
       (Committing(c) /\ call'[c] # call[c] /\ file[p] # Absent /\ file'[p] # file[p])
         => p \in raced \/ \E k \in DOMAIN call[c].patch :
              call[c].patch[k].path = p /\ call[c].snapshots[k] = file[p]]_vars

(* Every call ends and gives the mutex back, whatever fails.                 *)
CallsEnd == \A c \in Calls : (call[c].at = "prepare") ~> (call[c].at = "ended")

Updated(c) == \E p \in Paths : <<"update", p>> \in call[c].changes
(* What a call reports as an update of a file is the edit its patch describes: *)
(* updateText() makes no other of any text and chunks, or refuses the patch.   *)
UpdateIsAnEdit == (\E c \in Calls : Updated(c)) => Misedits = {}
=============================================================================
