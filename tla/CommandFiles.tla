---------------------------- MODULE CommandFiles ----------------------------
(***************************************************************************)
(* The small files that point at an installation: the stable uninstaller    *)
(* and the commands mcp-dev-runtime and mdr.  Several programs create,      *)
(* replace and remove them without a lock, each recognising its own by the  *)
(* header: the bundle's install.mjs (register, installStableUninstaller and *)
(* --unregister) and uninstall.mjs (removeOwnedCommand), and the checkout's *)
(* global-command.mjs (installCommand, removeCommand).  An action is one    *)
(* look at the file or one change of it.                                    *)
(***************************************************************************)
EXTENDS Naturals, Sequences, SequencesExt

CONSTANTS Programs,     \* the processes
          None

Script == "uninstall.sh"
Commands == {"mcp-dev-runtime", "mdr"}
Files == {Script} \cup Commands
Owners == {"bundle", "checkout", "foreign"}
\* What a process may be running; "install_only" is --no-global-command.
Installers == {"install", "install_only"}
Registering == Installers \cup {"register"}
Removing == {"unregister", "uninstall", "remove"}
Roles == Registering \cup Removing

VARIABLES command,      \* whose file is under each name
          work          \* what each process runs and its locals; own, what its last look saw, is history

Header(w) == IF w.role \in {"register", "remove"} THEN "checkout" ELSE "bundle"
\* The names a program works through, in order; removeCommand() takes one.
Names(role) == CASE role = "install" -> <<Script, "mcp-dev-runtime", "mdr">>
                 [] role = "install_only" -> <<Script>>
                 [] OTHER -> <<"mcp-dev-runtime", "mdr">>
Name(p) == Names(work[p].role)[work[p].nth]
At(p, label) == work[p].at = label
\* Process p goes on with the locals w.
Go(p, w) == work' = [work EXCEPT ![p] = w]
To(p, label) == Go(p, [work[p] EXCEPT !.at = label])

Resting == [role |-> "remove", at |-> "idle", nth |-> 1, own |-> FALSE, same |-> FALSE]
\* The name is done with: the next one, or what follows the last.
NextName(w) ==
  IF w.nth < Len(Names(w.role)) /\ w.role # "remove"
  THEN [w EXCEPT !.at = "look", !.nth = @ + 1, !.own = FALSE, !.same = FALSE]
  ELSE IF w.role \in Installers THEN [w EXCEPT !.at = "cleanup", !.own = FALSE, !.same = FALSE]
  ELSE IF w.role = "uninstall" THEN [w EXCEPT !.at = "remove", !.own = FALSE, !.same = FALSE]
  ELSE Resting
\* An error is thrown: install.mjs still has its finally to run.
Thrown(w) == IF w.role \in Installers THEN [w EXCEPT !.at = "cleanup", !.own = FALSE, !.same = FALSE] ELSE Resting
Skip(p) == Go(p, NextName(work[p]))
Throw(p) == Go(p, Thrown(work[p]))
\* The short command is optional where registration goes through the others.
Optional(p) == work[p].role \in Registering /\ Name(p) = "mdr"

\* p puts `owner' under the name; whoever had looked at it finds another file there.
Write(p, owner) ==
  /\ command' = [command EXCEPT ![Name(p)] = owner]
  /\ work' = [q \in Programs |-> IF q = p THEN NextName(work[p])
                                 ELSE IF Name(q) = Name(p) THEN [work[q] EXCEPT !.same = FALSE] ELSE work[q]]

\* ownedCommand() finds a file that is not this program's, or another mdr on the PATH.
Conflict(p) == IF Optional(p) \/ work[p].role = "uninstall" THEN Skip(p) ELSE Throw(p)

\* ownedCommand(): absent, owned, or a conflict.
Look(p) ==
  LET w == work[p]
      seen == command[Name(p)]
      after == IF w.role \in Installers /\ Name(p) # Script THEN "stat"
               ELSE IF w.role = "unregister" THEN "unlink" ELSE "compare"
  IN /\ At(p, "look")
     /\ \/ seen = None /\ w.role \in Registering /\ To(p, "link")
        \/ seen = None /\ w.role \in Removing /\ Skip(p)
        \/ seen = Header(w) /\ Go(p, [w EXCEPT !.at = after, !.own = TRUE, !.same = TRUE])
        \/ seen \notin {None, Header(w)} /\ Conflict(p)
        \/ Optional(p) /\ Conflict(p)
     /\ UNCHANGED command

\* install.mjs takes the identity it will compare with by a second lstat().
Stat(p) == /\ At(p, "stat")
           /\ IF command[Name(p)] = None THEN Throw(p) ELSE Go(p, [work[p] EXCEPT !.at = "compare", !.same = TRUE])
           /\ UNCHANGED command

\* The temporary file is written; the file there must still be the one looked at.  register() also reads it again.
Compare(p) ==
  LET w == work[p]
      goOn == Go(p, [w EXCEPT !.at = IF w.role \in Registering THEN "rename" ELSE "unlink",
                              !.own = command[Name(p)] = Header(w)])
  IN /\ At(p, "compare")
     /\ IF ~w.same THEN Throw(p)
        ELSE IF w.role \in Installers /\ Name(p) # Script /\ command[Name(p)] # Header(w) THEN Conflict(p)
        ELSE goOn \/ (w.role = "register" /\ Skip(p))    \* the text is the same: only the mode is repaired
     /\ UNCHANGED command

\* link() is exclusive: a file that appeared since is not overwritten.
RenameOver(p) == At(p, "link") /\ Write(p, Header(work[p]))
Link(p) == /\ At(p, "link")
           /\ \/ command[Name(p)] = None /\ Write(p, Header(work[p]))
              \/ /\ command[Name(p)] # None
                 /\ IF Optional(p) /\ work[p].role = "install" THEN Skip(p) ELSE Throw(p)
                 /\ UNCHANGED command
Rename(p) == At(p, "rename") /\ Write(p, Header(work[p]))
Unlink(p) == /\ At(p, "unlink")
             /\ \/ command[Name(p)] # None /\ Write(p, None)
                \/ command[Name(p)] = None /\ Throw(p) /\ UNCHANGED command

CommandStep(p) == Look(p) \/ Stat(p) \/ Compare(p) \/ Link(p) \/ Rename(p) \/ Unlink(p)

\* Another program puts its own file under a command's name, whatever was there.
Meddle(n) == /\ command' = [command EXCEPT ![n] = "foreign"]
             /\ work' = [q \in Programs |-> IF Name(q) = n THEN [work[q] EXCEPT !.same = FALSE] ELSE work[q]]

-----------------------------------------------------------------------------
(* The file of another owner disappears, or is replaced, only under a        *)
(* program whose last look there, the comparison just before the change      *)
(* where it makes one, had seen its own file: where it saw nothing it never  *)
(* overwrites, and where it saw another file it never touches it.            *)
Takes(p) == \E n \in Commands :
              /\ command[n] \notin {None, Header(work[p])}
              /\ command'[n] # command[n]
              /\ work'[p].at # work[p].at
OthersAreKept == [][\A p \in Programs : Takes(p) => work[p].own]_<<command, work>>
=============================================================================
