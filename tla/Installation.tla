---------------------------- MODULE Installation ----------------------------
(***************************************************************************)
(* Installing and uninstalling the precompiled bundle: install.mjs and      *)
(* uninstall.mjs under scripts/release, with uninstall-lib.mjs.  Any number *)
(* of them run at once, over the command files they share with a source     *)
(* checkout, while the managed service starts and ends; each may die or     *)
(* fail at any step.  An action is one change of the disk with the looks    *)
(* that decide it.  The five roots the uninstaller removes are the prefix,  *)
(* one entry at a time, and the rest, called home.                          *)
(***************************************************************************)
EXTENDS CommandFiles, FiniteSets

CONSTANTS Versions,
          MaxPrograms,  \* bound: programs started
          MaxStarts,    \* bound: starts of the service
          MaxMeddles    \* bound: commands put there by others

ASSUME InstallationAssumption == /\ Versions # {}
                                 /\ {MaxPrograms, MaxStarts, MaxMeddles} \subseteq Nat

VARIABLES job,          \* locals of install.mjs and uninstall.mjs
          there,        \* the prefix, its marker and its lock directory, as far as they exist
          version,      \* the version directories
          staging,      \* each installer's staging directory
          current,      \* where the link points
          record,       \* the run the state directory names, 0 for none
          live,         \* the run whose process lives, 0 for none
          starts, programs, meddles,
          torn,         \* history: a removal of the prefix has begun and none has ended since
          looted        \* history: a removal took the lock of an installer at work

prefix == <<there, version, staging, current, torn, looted>>
runtime == <<record, live, starts>>
bounds == <<programs, meddles>>
vars == <<command, work, job, prefix, runtime, bounds>>

Content == {"absent", "whole", "damaged"}
Labels == {"start", "mark", "lock", "inspect", "copy", "place", "swap", "look", "stat", "compare",
           "link", "rename", "unlink", "cleanup", "marker", "stop", "await", "remove"}
Roots == {"prefix", "config", "state"}     \* logs and cache go the same way
NoJob == [target |-> None, run |-> 0, left |-> {}, began |-> 0]

Init == /\ command = [n \in Files |-> None]
        /\ work = [p \in Programs |-> Resting]
        /\ job = [p \in Programs |-> NoJob]
        /\ there = {}
        /\ version = [v \in Versions |-> "absent"]
        /\ staging = [p \in Programs |-> "absent"]
        /\ current = None
        /\ record = 0 /\ live = 0 /\ starts = 0 /\ programs = 0 /\ meddles = 0
        /\ torn = FALSE /\ looted = FALSE

-----------------------------------------------------------------------------
(* The steps of a program.  A step is at its label, and goes to another.     *)

End(p) == Go(p, Resting) /\ job' = [job EXCEPT ![p] = NoJob]
Step(p, from, to) == At(p, from) /\ To(p, to)
\* What the try block of install.mjs holds the lock for.
Working == {"inspect", "copy", "place", "swap", "look", "stat", "compare", "link",
            "rename"}
Holding(p) == work[p].role \in Installers /\ work[p].at \in Working \cup {"cleanup"}

Begin(p, role, v, nth) ==
  /\ At(p, "idle") /\ programs < MaxPrograms
  /\ programs' = programs + 1
  /\ Go(p, [Resting EXCEPT !.role = role, !.nth = nth,
                           !.at = IF role \in Installers THEN "start" ELSE IF role = "uninstall" THEN "marker" ELSE "look"])
  /\ job' = [job EXCEPT ![p].target = IF role \in Installers THEN v ELSE None,
                         ![p].left = IF role = "uninstall" THEN Roots ELSE {}]
  /\ staging' = [staging EXCEPT ![p] = "absent"]      \* another random name: what a dead installer left is never read
  /\ UNCHANGED <<command, there, version, current, torn, looted, runtime, meddles>>

Crash(p) == /\ ~At(p, "idle") /\ End(p)
            /\ UNCHANGED <<command, prefix, runtime, bounds>>
\* A step of the try block fails; a failure outside of it is like a crash.
Fails(p) == /\ Holding(p) /\ work[p].at \in Working /\ Throw(p)
            /\ UNCHANGED <<command, job, prefix, runtime, bounds>>

-----------------------------------------------------------------------------
(* install.mjs                                                               *)

\* The canonical command must not be another owner's; then the prefix is made.
Start(p) == /\ At(p, "start")
            /\ IF work[p].role = "install" /\ command["mcp-dev-runtime"] \notin {None, "bundle"}
               THEN End(p) /\ UNCHANGED there
               ELSE To(p, "mark") /\ there' = there \cup {"prefix"} /\ UNCHANGED job
            /\ UNCHANGED <<command, version, staging, current, torn, looted, runtime, bounds>>

Mark(p) == /\ Step(p, "mark", "lock") /\ "prefix" \in there
           /\ there' = there \cup {"marker"}
           /\ UNCHANGED <<command, job, version, staging, current, torn, looted, runtime, bounds>>

\* mkdir of .install.lock; EEXIST is the end, a lock left by a dead installer included.
TakeLock(p) == /\ At(p, "lock")
               /\ IF "prefix" \in there /\ "lock" \notin there
                  THEN To(p, "inspect") /\ there' = there \cup {"lock"} /\ UNCHANGED job
                  ELSE End(p) /\ UNCHANGED there
Lock(p) == TakeLock(p) /\ UNCHANGED <<command, version, staging, current, torn, looted, runtime, bounds>>

\* current(): no service may be active.  A version directory that is there is reused if it verifies, and never written to.
Active == record # 0 /\ record = live
Inspect(p) == LET v == job[p].target IN
  /\ At(p, "inspect")
  /\ IF Active \/ version[v] = "damaged" THEN Throw(p) /\ UNCHANGED job
     ELSE /\ To(p, IF version[v] = "absent" THEN "copy" ELSE "swap")
          /\ job' = [job EXCEPT ![p].began = starts]
  /\ UNCHANGED <<command, prefix, runtime, bounds>>

AnyCopy(copy) == TRUE
Verified(copy) == copy = "whole"
\* cp() makes the directories above when they are gone; the copy may turn out damaged, and is verified.
Copy(p) == /\ At(p, "copy")
           /\ there' = there \cup {"prefix"}
           /\ \E c \in {"whole", "damaged"} : /\ staging' = [staging EXCEPT ![p] = c]
                                              /\ IF Verified(c) THEN To(p, "place") ELSE Throw(p)
           /\ UNCHANGED <<command, job, version, current, torn, looted, runtime, bounds>>

\* rename() of a directory: not over one that has entries.
Place(p) == LET v == job[p].target IN
  /\ At(p, "place")
  /\ IF staging[p] # "absent" /\ version[v] = "absent"
     THEN /\ To(p, "swap")
          /\ version' = [version EXCEPT ![v] = staging[p]]
          /\ staging' = [staging EXCEPT ![p] = "absent"]
     ELSE Throw(p) /\ UNCHANGED <<version, staging>>
  /\ UNCHANGED <<command, job, there, current, torn, looted, runtime, bounds>>

\* initializeUser() keeps what is there; then the link is replaced by a rename.
Swap(p) == /\ At(p, "swap")
           /\ IF "prefix" \in there
              THEN current' = job[p].target /\ Go(p, [work[p] EXCEPT !.at = "look", !.nth = 1])
              ELSE Throw(p) /\ UNCHANGED current
           /\ UNCHANGED <<command, job, there, version, staging, torn, looted, runtime, bounds>>

\* finally: the staging directory goes, and the lock, whoever made it.
Unlock(p) == /\ At(p, "cleanup") /\ End(p)
             /\ there' = there \ {"lock"}
             /\ staging' = [staging EXCEPT ![p] = "absent"]
             /\ UNCHANGED <<command, version, current, torn, looted, runtime, bounds>>

-----------------------------------------------------------------------------
(* uninstall.mjs                                                             *)

\* A prefix without the marker is nobody's to delete; the user may say no.
Confirm(p) == /\ At(p, "marker")
              /\ \/ ("prefix" \in there => "marker" \in there) /\ To(p, "stop") /\ UNCHANGED job
                 \/ End(p)
              /\ UNCHANGED <<command, prefix, runtime, bounds>>

\* stopManagedState(): nothing to stop, a dead run, or a request to stop and the wait for the record to go.
Stopped(p) == /\ Go(p, [work[p] EXCEPT !.at = "look"])
              /\ job' = [job EXCEPT ![p].began = starts, ![p].run = 0]
Stop(p) == /\ At(p, "stop")
           /\ \/ ~Active /\ Stopped(p)
              \/ Active /\ To(p, "await") /\ job' = [job EXCEPT ![p].run = record]
           /\ UNCHANGED <<command, prefix, runtime, bounds>>
AwaitBriefly(p) == At(p, "await") /\ Stopped(p)
AwaitEnd(p) == /\ At(p, "await")
               /\ \/ record = 0 /\ Stopped(p)
                  \/ record # job[p].run /\ record # 0 /\ End(p)
Await(p) == AwaitEnd(p) /\ UNCHANGED <<command, prefix, runtime, bounds>>

\* rm of the prefix takes its entries away one by one, a version directory file by file.
RemoveEntry(p) ==
  /\ At(p, "remove") /\ "prefix" \in job[p].left
  /\ \/ \E e \in there \ {"prefix"} : /\ there' = there \ {e}
                                      /\ looted' = (looted \/ (e = "lock" /\ \E q \in Programs : Holding(q)))
                                      /\ UNCHANGED <<version, staging, current>>
     \/ \E v \in Versions : /\ version[v] # "absent"
                            /\ version' = [version EXCEPT ![v] = IF @ = "whole" THEN "damaged" ELSE "absent"]
                            /\ UNCHANGED <<there, staging, current, looted>>
     \/ \E q \in Programs : /\ staging[q] # "absent"
                            /\ staging' = [staging EXCEPT ![q] = "absent"]
                            /\ UNCHANGED <<there, version, current, looted>>
     \/ current # None /\ current' = None /\ UNCHANGED <<there, version, staging, looted>>
  /\ torn' = TRUE
  /\ UNCHANGED <<command, work, job, runtime, bounds>>

Empty == /\ there \subseteq {"prefix"} /\ current = None
         /\ \A v \in Versions : version[v] = "absent"
         /\ \A q \in Programs : staging[q] = "absent"
RemoveRoot(p, root) ==
  /\ At(p, "remove") /\ root \in job[p].left
  /\ IF job[p].left = {root} THEN End(p) ELSE job' = [job EXCEPT ![p].left = @ \ {root}] /\ UNCHANGED work
  /\ CASE root = "prefix" -> Empty /\ there' = {} /\ torn' = FALSE /\ UNCHANGED <<command, record>>
       [] root = "config" -> command' = [command EXCEPT ![Script] = None] /\ UNCHANGED <<there, torn, record>>
       [] root = "state" -> record' = 0 /\ UNCHANGED <<command, there, torn>>
  /\ UNCHANGED <<version, staging, current, looted, live, starts, bounds>>

-----------------------------------------------------------------------------
(* The service, started through the link, and the others in the bin          *)
(* directory.                                                                *)

StartService == /\ starts < MaxStarts /\ live = 0
                /\ current # None /\ version[current] = "whole"
                /\ starts' = starts + 1 /\ live' = starts' /\ record' = starts'
                /\ UNCHANGED <<command, work, job, prefix, bounds>>
\* It ends and takes its record with it, or dies and leaves it.
EndService == /\ live # 0 /\ live' = 0
              /\ record' \in {record, IF record = live THEN 0 ELSE record}
              /\ UNCHANGED <<command, work, job, prefix, starts, bounds>>

Others == /\ meddles < MaxMeddles /\ meddles' = meddles + 1
          /\ \E n \in Commands : Meddle(n)
          /\ UNCHANGED <<job, prefix, runtime, programs>>

Commanding(p) == /\ CommandStep(p)
                 /\ job' = IF work'[p] = Resting THEN [job EXCEPT ![p] = NoJob] ELSE job
                 /\ UNCHANGED <<prefix, runtime, bounds>>
Install(p) == \/ Start(p) \/ Mark(p) \/ Lock(p) \/ Inspect(p) \/ Copy(p) \/ Place(p)
              \/ Swap(p) \/ Unlock(p)
Uninstall(p) == \/ Confirm(p) \/ Stop(p) \/ Await(p) \/ RemoveEntry(p)
                \/ \E root \in Roots : RemoveRoot(p, root)
Program(p) == \/ \E role \in Roles, v \in Versions, nth \in 1..2 : (nth = 1 \/ role = "remove") /\ Begin(p, role, v, nth)
              \/ Crash(p) \/ Fails(p) \/ Commanding(p) \/ Install(p) \/ Uninstall(p)
Next == (\E p \in Programs : Program(p)) \/ StartService \/ EndService \/ Others

Spec == Init /\ [][Next]_vars

-----------------------------------------------------------------------------
TypeOK == /\ command \in [Files -> Owners \cup {None}]
          /\ work \in [Programs -> [role : Roles, at : Labels \cup {"idle"}, nth : 1..3, own : BOOLEAN, same : BOOLEAN]]
          /\ \A p \in Programs : work[p].nth <= Len(Names(work[p].role))
          /\ job \in [Programs -> [target : Versions \cup {None}, run : 0..MaxStarts, left : SUBSET Roots,
                                    began : 0..MaxStarts]]
          /\ there \subseteq {"prefix", "marker", "lock"} /\ (there # {} => "prefix" \in there)
          /\ version \in [Versions -> Content] /\ staging \in [Programs -> Content]
          /\ current \in Versions \cup {None}
          /\ {record, live} \subseteq 0..starts /\ starts \in 0..MaxStarts
          /\ programs \in 0..MaxPrograms /\ meddles \in 0..MaxMeddles
          /\ {torn, looted} \subseteq BOOLEAN

\* The link leads to a whole version directory, wherever installers stopped, failed or met each other; only a removal
\* that has begun and not ended, or that went on under an installer, can leave it otherwise.
CurrentIsComplete == current # None /\ version[current] # "whole" => torn \/ looted

\* The link moves, files go and the record is dropped under no service that is on record, unless it was started after
\* the program had found none running (it looks once).
Disturbs == \/ current' # current
            \/ \E v \in Versions : version[v] = "whole" /\ version'[v] # "whole"
            \/ live' = live /\ record' = 0
ServiceIsSpared ==
  [][Active /\ Disturbs => \E p \in Programs : work[p].at \in {"swap", "remove"} /\ live > job[p].began]_vars
=============================================================================
