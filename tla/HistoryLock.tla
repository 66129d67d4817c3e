---------------------------- MODULE HistoryLock ----------------------------
(***************************************************************************)
(* The writer lock of the history directory (src/runtime/history-store.ts, *)
(* initialize() and close()), as several server processes use it.  The     *)
(* lock is a directory, .writer-lock, holding a file owner.json with the   *)
(* owner's pid and token.  Every action is one system call of a process or *)
(* the synchronous code between two of them.                               *)
(***************************************************************************)
EXTENDS Naturals, FiniteSets

CONSTANTS Procs,   \* the server processes ever started, each with its own pid
          Nobody   \* not a process

ASSUME LockAssumption == Nobody \notin Procs

VARIABLES pc,      \* what each process does next
          dir,     \* the lock directory exists
          owner,   \* the process that created the owner.json in it, or Nobody
          signed,  \* that file has been written, not only created
          seen,    \* the owner each process read before it reclaims
          locked,  \* this.locked
          died,    \* the processes that have exited or crashed
          overlap  \* history: two processes have been removing a lock at the same time

lockVars == <<pc, dir, owner, signed, seen, locked, died, overlap>>

(* off         not started                    own, sign   create and write owner.json *)
(* mkdir       try to create the directory    open        the store is in use         *)
(* inspect     read the owner found           failed      initialize() threw          *)
(* probe       is that process alive?         read        close(): whose lock is it?  *)
(* unlink, rmdir, remake     reclaim          release, drop   remove file, directory  *)
Steps == {"off", "mkdir", "inspect", "probe", "unlink", "rmdir", "remake", "own", "sign",
          "open", "failed", "read", "release", "drop", "closed"}

LockTypeOK == /\ pc \in [Procs -> Steps]
              /\ dir \in BOOLEAN
              /\ owner \in Procs \cup {Nobody}
              /\ signed \in BOOLEAN
              /\ seen \in [Procs -> Procs \cup {Nobody}]
              /\ locked \in [Procs -> BOOLEAN]
              /\ died \in SUBSET Procs
              /\ overlap \in BOOLEAN
              /\ owner # Nobody => dir
              /\ signed => owner # Nobody

LockInit == /\ pc = [p \in Procs |-> "off"]
            /\ dir = FALSE
            /\ owner = Nobody
            /\ signed = FALSE
            /\ seen = [p \in Procs |-> Nobody]
            /\ locked = [p \in Procs |-> FALSE]
            /\ died = {}
            /\ overlap = FALSE

-----------------------------------------------------------------------------
Doing(p, step) == p \notin died /\ pc[p] = step
GoTo(p, step) == pc' = [pc EXCEPT ![p] = step]
DiskUnchanged == UNCHANGED <<dir, owner, signed>>

\* process.kill(pid, 0)
Alive(p) == pc[p] # "off" /\ p \notin died

StartServer(p) == /\ Doing(p, "off")
                  /\ GoTo(p, "mkdir")
                  /\ DiskUnchanged /\ UNCHANGED <<seen, locked, died>>

\* mkdir of the lock, by a newcomer (EEXIST: look at it) or by one that has just removed
\* a dead owner's (EEXIST: give up); this.locked is set in the same stretch.
MakeDirectory(p) == /\ Doing(p, "mkdir") \/ Doing(p, "remake")
                    /\ IF dir THEN /\ GoTo(p, IF pc[p] = "mkdir" THEN "inspect" ELSE "failed")
                                   /\ UNCHANGED <<dir, locked>>
                              ELSE /\ GoTo(p, "own")
                                   /\ dir' = TRUE
                                   /\ locked' = [locked EXCEPT ![p] = TRUE]
                    /\ UNCHANGED <<owner, signed, seen, died>>

\* lstat and readFile: a missing or blank owner.json is an unverifiable lock.
Inspect(p) == /\ Doing(p, "inspect")
              /\ IF signed THEN GoTo(p, "probe") /\ seen' = [seen EXCEPT ![p] = owner]
                           ELSE GoTo(p, "failed") /\ UNCHANGED seen
              /\ DiskUnchanged /\ UNCHANGED <<locked, died>>

Unprobed(p) == FALSE
NeverDead(p) == TRUE
HeldByLiving(p) == Alive(seen[p])
Probe(p) == /\ Doing(p, "probe")
            /\ GoTo(p, IF HeldByLiving(p) THEN "failed" ELSE "unlink")
            /\ DiskUnchanged /\ UNCHANGED <<seen, locked, died>>

\* unlink(owner.json), whosever it is by now, when reclaiming and when closing.
UnlinkOwner(p) == /\ Doing(p, "unlink") \/ Doing(p, "release")
                  /\ IF owner # Nobody
                       THEN GoTo(p, IF pc[p] = "unlink" THEN "rmdir" ELSE "drop")
                       ELSE GoTo(p, IF pc[p] = "unlink" THEN "failed" ELSE "closed")
                  /\ owner' = Nobody
                  /\ signed' = FALSE
                  /\ UNCHANGED <<dir, seen, locked, died>>

\* rmdir fails when the directory is gone or not empty.
RemoveDirectory(p) == /\ Doing(p, "rmdir") \/ Doing(p, "drop")
                      /\ IF dir /\ owner = Nobody
                           THEN /\ dir' = FALSE
                                /\ GoTo(p, IF pc[p] = "rmdir" THEN "remake" ELSE "closed")
                           ELSE /\ UNCHANGED dir
                                /\ GoTo(p, IF pc[p] = "rmdir" THEN "failed" ELSE "closed")
                      /\ UNCHANGED <<owner, signed, seen, locked, died>>

\* writeFile with flag wx: the file is created, then written, through its handle.
CreateOwner(p) == /\ Doing(p, "own")
                  /\ IF dir /\ owner = Nobody THEN GoTo(p, "sign") /\ owner' = p
                                              ELSE GoTo(p, "failed") /\ UNCHANGED owner
                  /\ UNCHANGED <<dir, signed, seen, locked, died>>
SignedAfter(p) == signed \/ owner = p
SignOwner(p) == /\ Doing(p, "sign")
                /\ signed' = SignedAfter(p)
                /\ GoTo(p, "open")
                /\ UNCHANGED <<dir, owner, seen, locked, died>>

\* close(): also of a store whose initialisation failed.
CloseStore(p) == /\ Doing(p, "open") \/ Doing(p, "failed")
                 /\ GoTo(p, IF locked[p] THEN "read" ELSE "closed")
                 /\ DiskUnchanged /\ UNCHANGED <<seen, locked, died>>

OwnToken(p) == signed /\ owner = p
ReadOwner(p) == /\ Doing(p, "read")
                /\ GoTo(p, IF OwnToken(p) THEN "release" ELSE "closed")
                /\ DiskUnchanged /\ UNCHANGED <<seen, locked, died>>

\* The process dies between any two of its steps, or exits after the last.
Die(p) == /\ Alive(p)
          /\ died' = died \cup {p}
          /\ UNCHANGED <<pc, dir, owner, signed, seen, locked>>

Step(p) == \/ StartServer(p)
           \/ MakeDirectory(p)
           \/ Inspect(p)
           \/ Probe(p)
           \/ UnlinkOwner(p)
           \/ RemoveDirectory(p)
           \/ CreateOwner(p)
           \/ SignOwner(p)
           \/ CloseStore(p)
           \/ ReadOwner(p)
           \/ Die(p)

\* The stretch in which a process acts on what it read of a lock: from the reading of a
\* foreign one to the directory of its own, and the removal in close().
Removing == {p \in Procs : p \notin died /\
                 pc[p] \in {"probe", "unlink", "rmdir", "remake", "release", "drop"}}
Overlapping == \E p, q \in Removing : p # q

LockNext == /\ \E p \in Procs : Step(p)
            /\ overlap' = (overlap \/ Overlapping')

LockSpec == LockInit /\ [][LockNext]_lockVars

\* System calls return: a process that is initialising or closing goes on.
Continue(p) == /\ MakeDirectory(p) \/ Inspect(p) \/ Probe(p) \/ UnlinkOwner(p) \/ RemoveDirectory(p)
                     \/ CreateOwner(p) \/ SignOwner(p) \/ ReadOwner(p)
               /\ overlap' = (overlap \/ Overlapping')
FairLockSpec == LockSpec /\ \A p \in Procs : WF_lockVars(Continue(p))
-----------------------------------------------------------------------------
Open(p) == Doing(p, "open")

(* One writer at a time: no two live servers ever have the same history       *)
(* directory open (docs/HISTORY_AND_RECOVERY.md).                             *)
SingleWriter == \A p, q \in Procs : Open(p) /\ Open(q) => p = q

(* What the code does achieve: as long as no two processes have been removing *)
(* a lock at the same time there is one writer, and the lock on disk is its   *)
(* own, so whoever comes next finds it.                                       *)
OneWriterUnlessOverlap ==
  ~overlap => \A p \in Procs : Open(p) => owner = p /\ signed

(* The lock of a process that is gone does not keep a server out: one that    *)
(* finds it while it is alone opens the store, unless it dies itself or       *)
(* another one starts meanwhile.                                              *)
Alone(p) == \A q \in Procs \ {p} : ~Alive(q)
DeadLockIsReclaimed ==
  \A p \in Procs : Doing(p, "mkdir") /\ Alone(p) /\ (dir => signed) ~> Open(p) \/ p \in died \/ ~Alone(p)
=============================================================================
