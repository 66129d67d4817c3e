------------------------ MODULE Installation_proofs ------------------------
(***************************************************************************)
(* Proofs about Installation for any programs, versions and bounds: the     *)
(* lock as far as it can be relied on, the link that leads to a whole       *)
(* version, the service that is spared, and the files of other owners.      *)
(***************************************************************************)
EXTENDS Installation, TLAPS

WorkType == [role : Roles, at : Labels \cup {"idle"}, nth : 1..3, own : BOOLEAN, same : BOOLEAN]
JobType == [target : Versions \cup {None}, run : 0..MaxStarts, left : SUBSET Roots, began : 0..MaxStarts]

(* Which program can be at which label: install.mjs's own, uninstall.mjs's   *)
(* own, and the removal of a command.                                        *)
InstallerLabels == {"start", "mark", "lock", "inspect", "copy", "place", "swap", "stat", "cleanup"}
UninstallerLabels == {"marker", "stop", "await", "remove"}
Placed(w) == /\ w.nth <= Len(Names(w.role))
             /\ w.at \in InstallerLabels => w.role \in Installers
             /\ w.at \in UninstallerLabels => w.role = "uninstall"
             /\ w.at = "unlink" => w.role \in Removing
             /\ w.at = "idle" => w.role = "remove"
Staged == \A p \in Programs : /\ Placed(work[p])
                              /\ work[p].role \in Installers => job[p].target \in Versions
                              /\ work[p].at = "place" => staging[p] \in {"absent", "whole"}

(* As long as no removal took it, the lock keeps one installer at work.      *)
LockOK == looted \/ (/\ \A p \in Programs : Holding(p) => "lock" \in there
                     /\ \A p, q \in Programs : Holding(p) /\ Holding(q) => p = q)

(* The version the link leads to, or is about to lead to, is whole.          *)
LinkOK == torn \/ looted \/ (/\ current # None => version[current] = "whole"
                             /\ \A p \in Programs : work[p].at = "swap" => version[job[p].target] = "whole")

(* Who has found no service running knows that any that is active now has    *)
(* been started since.                                                       *)
HasLooked(w) == \/ w.at \in {"copy", "place", "swap"}
                \/ w.role = "uninstall" /\ w.at \notin {"marker", "stop", "await"}
SpareOK == \A p \in Programs : /\ job[p].began <= starts
                               /\ HasLooked(work[p]) /\ Active => live > job[p].began

(* Who is about to replace or remove a command has seen its own file there.  *)
NameOf(w) == Names(w.role)[w.nth]
OwnRecord(files, w) == /\ w.at \in {"rename", "unlink"} => w.own \/ NameOf(w) = Script
                       /\ w.at = "compare" /\ w.same /\ w.role \notin Installers => files[NameOf(w)] = Header(w)
OwnOK == \A p \in Programs : OwnRecord(command, work[p])

IInv == TypeOK /\ Staged /\ LockOK /\ LinkOK /\ SpareOK /\ OwnOK

-----------------------------------------------------------------------------
(* A program's locals.                                                       *)

Locals(v, role, at, nth, own, same) ==
  v \in WorkType /\ v.role = role /\ v.at = at /\ v.nth = nth /\ v.own = own /\ v.same = same

LEMMA NamesSize ==
  ASSUME NEW role \in Roles
  PROVE  /\ Len(Names(role)) \in 1..3
         /\ role \notin Installers => /\ Len(Names(role)) = 2
                                      /\ \A i \in 1..2 : Names(role)[i] \in Commands /\ Names(role)[i] # Script
         /\ \A i \in 1..Len(Names(role)) : Names(role)[i] \in Files
<1>1. CASE role = "install"
  BY <1>1 DEF Names, Installers, Files, Commands
<1>2. CASE role = "install_only"
  BY <1>2 DEF Names, Installers, Files, Commands
<1>3. CASE role \notin Installers
  BY <1>3 DEF Names, Installers, Files, Commands, Script
<1> QED BY <1>1, <1>2, <1>3 DEF Installers

LEMMA RestingLocals == Locals(Resting, "remove", "idle", 1, FALSE, FALSE)
<1>1. "remove" \in Roles /\ "idle" \in Labels \cup {"idle"} /\ 1 \in 1..3
  BY DEF Roles, Removing
<1> QED BY <1>1 DEF Locals, Resting, WorkType

LEMMA Relabelled ==
  ASSUME NEW w \in WorkType, NEW at \in Labels \cup {"idle"}
  PROVE  Locals([w EXCEPT !.at = at], w.role, at, w.nth, w.own, w.same)
BY DEF Locals, WorkType

LEMMA Renumbered ==
  ASSUME NEW w \in WorkType, NEW at \in Labels \cup {"idle"}, NEW nth \in 1..3
  PROVE  Locals([w EXCEPT !.at = at, !.nth = nth], w.role, at, nth, w.own, w.same)
BY DEF Locals, WorkType

LEMMA Seen ==
  ASSUME NEW w \in WorkType, NEW at \in Labels \cup {"idle"}, NEW own \in BOOLEAN, NEW same \in BOOLEAN
  PROVE  /\ Locals([w EXCEPT !.at = at, !.own = own, !.same = same], w.role, at, w.nth, own, same)
         /\ Locals([w EXCEPT !.at = at, !.own = own], w.role, at, w.nth, own, w.same)
         /\ Locals([w EXCEPT !.at = at, !.same = same], w.role, at, w.nth, w.own, same)
<1>1. Locals([w EXCEPT !.at = at, !.own = own, !.same = same], w.role, at, w.nth, own, same)
  BY DEF Locals, WorkType
<1>2. Locals([w EXCEPT !.at = at, !.own = own], w.role, at, w.nth, own, w.same)
  BY DEF Locals, WorkType
<1>3. Locals([w EXCEPT !.at = at, !.same = same], w.role, at, w.nth, w.own, same)
  BY DEF Locals, WorkType
<1> QED BY <1>1, <1>2, <1>3

LEMMA Forgotten ==
  ASSUME NEW w \in WorkType
  PROVE  Locals([w EXCEPT !.same = FALSE], w.role, w.at, w.nth, w.own, FALSE)
BY DEF Locals, WorkType

LEMMA RolesApart ==
  /\ Roles = {"install", "install_only", "register", "unregister", "uninstall", "remove"}
  /\ \A r \in Installers : r \in Registering /\ r \notin Removing /\ r # "uninstall" /\ r # "remove"
  /\ Installers \subseteq Roles
BY DEF Roles, Registering, Removing, Installers

(* What a program goes on to after a name, or after an error.                *)
Onward(w, v) == /\ v \in WorkType /\ Placed(v) /\ v.own = FALSE /\ v.same = FALSE
                /\ \/ v.role = w.role /\ v.at = "look"
                   \/ v.role = w.role /\ w.role \in Installers /\ v.at = "cleanup"
                   \/ v.role = w.role /\ w.role = "uninstall" /\ v.at = "remove"
                   \/ v = Resting /\ w.role \notin Installers

LEMMA RestingOnward ==
  ASSUME NEW w, w.role \notin Installers
  PROVE  Onward(w, Resting)
<1>1. Locals(Resting, "remove", "idle", 1, FALSE, FALSE)
  BY RestingLocals
<1>2. Len(Names("remove")) = 2
  BY DEF Names
<1> QED BY <1>1, <1>2, RolesApart DEF Onward, Locals, Placed, InstallerLabels, UninstallerLabels

LEMMA NextOnward ==
  ASSUME NEW w \in WorkType, Placed(w)
  PROVE  Onward(w, NextName(w))
<1>1. w.role \in Roles /\ w.nth \in 1..3 /\ Len(Names(w.role)) \in 1..3
  BY NamesSize DEF WorkType
<1>2. {"look", "cleanup", "remove"} \subseteq Labels
  BY DEF Labels
<1>3. CASE w.nth < Len(Names(w.role)) /\ w.role # "remove"
  <2>1. PICK n : n = w.nth + 1
    OBVIOUS
  <2>2. n \in 1..3 /\ n <= Len(Names(w.role))
    <3>1. PICK size \in 1..3 : size = Len(Names(w.role))
      BY <1>1
    <3>2. PICK m \in 1..3 : m = w.nth
      BY <1>1
    <3>3. m < size
      BY <3>1, <3>2, <1>3
    <3>4. m + 1 \in 1..3 /\ m + 1 <= size
      BY <3>3
    <3> QED BY <2>1, <3>1, <3>2, <3>4
  <2>3. NextName(w) = [w EXCEPT !.at = "look", !.nth = n, !.own = FALSE, !.same = FALSE]
    BY <1>3, <2>1 DEF NextName
  <2>4. Locals([w EXCEPT !.at = "look", !.nth = n, !.own = FALSE, !.same = FALSE], w.role, "look", n, FALSE, FALSE)
    BY <1>2, <2>2 DEF Locals, WorkType
  <2>5. Locals(NextName(w), w.role, "look", n, FALSE, FALSE)
    BY <2>3, <2>4
  <2> HIDE DEF NextName
  <2> QED BY <2>2, <2>5 DEF Onward, Locals, Placed, InstallerLabels, UninstallerLabels
<1>4. CASE ~(w.nth < Len(Names(w.role)) /\ w.role # "remove") /\ w.role \in Installers
  <2>1. NextName(w) = [w EXCEPT !.at = "cleanup", !.own = FALSE, !.same = FALSE]
    BY <1>4 DEF NextName
  <2>2. Locals([w EXCEPT !.at = "cleanup", !.own = FALSE, !.same = FALSE], w.role, "cleanup", w.nth, FALSE, FALSE)
    BY <1>2, Seen
  <2>3. Locals(NextName(w), w.role, "cleanup", w.nth, FALSE, FALSE)
    BY <2>1, <2>2
  <2> QED BY <1>4, <2>3 DEF Onward, Locals, Placed, InstallerLabels, UninstallerLabels
<1>5. CASE ~(w.nth < Len(Names(w.role)) /\ w.role # "remove") /\ w.role \notin Installers /\ w.role = "uninstall"
  <2>1. NextName(w) = [w EXCEPT !.at = "remove", !.own = FALSE, !.same = FALSE]
    BY <1>5 DEF NextName
  <2>2. Locals([w EXCEPT !.at = "remove", !.own = FALSE, !.same = FALSE], w.role, "remove", w.nth, FALSE, FALSE)
    BY <1>2, Seen
  <2>3. Locals(NextName(w), w.role, "remove", w.nth, FALSE, FALSE)
    BY <2>1, <2>2
  <2> QED BY <1>5, <2>3 DEF Onward, Locals, Placed, InstallerLabels, UninstallerLabels
<1>6. CASE ~(w.nth < Len(Names(w.role)) /\ w.role # "remove") /\ w.role \notin Installers /\ w.role # "uninstall"
  <2>1. NextName(w) = Resting
    BY <1>6 DEF NextName
  <2> QED BY <1>6, <2>1, RestingOnward
<1> QED BY <1>3, <1>4, <1>5, <1>6

LEMMA ThrownOnward ==
  ASSUME NEW w \in WorkType, Placed(w)
  PROVE  Onward(w, Thrown(w))
<1>1. CASE w.role \in Installers
  <2>1. Thrown(w) = [w EXCEPT !.at = "cleanup", !.own = FALSE, !.same = FALSE]
    BY <1>1 DEF Thrown
  <2>2. "cleanup" \in Labels \cup {"idle"}
    BY DEF Labels
  <2>3. Locals([w EXCEPT !.at = "cleanup", !.own = FALSE, !.same = FALSE], w.role, "cleanup", w.nth, FALSE, FALSE)
    BY <2>2, Seen
  <2>4. Locals(Thrown(w), w.role, "cleanup", w.nth, FALSE, FALSE)
    BY <2>1, <2>3
  <2> QED BY <1>1, <2>4 DEF Onward, Locals, Placed, InstallerLabels, UninstallerLabels
<1>2. CASE w.role \notin Installers
  <2>1. Thrown(w) = Resting
    BY <1>2 DEF Thrown
  <2> QED BY <1>2, <2>1, RestingOnward
<1> QED BY <1>1, <1>2

-----------------------------------------------------------------------------
(* The steps at the command files.                                           *)

CommandLabels == {"look", "stat", "compare", "link", "rename", "unlink"}
CommandType == [Files -> Owners \cup {None}]

LEMMA NamePlaced ==
  ASSUME NEW w \in WorkType, Placed(w)
  PROVE  /\ NameOf(w) \in Files
         /\ w.role \notin Installers => NameOf(w) \in Commands /\ NameOf(w) # Script
<1>1. w.role \in Roles /\ w.nth \in 1..3
  BY DEF WorkType
<1>2. PICK size \in 1..3 : size = Len(Names(w.role))
  BY <1>1, NamesSize
<1>3. w.nth \in 1..size
  BY <1>1, <1>2 DEF Placed
<1> QED BY <1>1, <1>2, <1>3, NamesSize DEF NameOf

(* What another program's step may do to the locals: its file was replaced.  *)
Peer(w, v) == /\ v \in WorkType /\ v.role = w.role /\ v.at = w.at /\ v.nth = w.nth /\ v.own = w.own
              /\ v.same => w.same

LEMMA PeerRefl ==
  ASSUME NEW w \in WorkType
  PROVE  Peer(w, w) /\ Peer(w, [w EXCEPT !.same = FALSE]) /\ [w EXCEPT !.same = FALSE].same = FALSE
BY Forgotten DEF Peer, Locals

LEMMA PeerOwn ==
  ASSUME NEW w, NEW v, NEW files, NEW later, Peer(w, v), OwnRecord(files, w),
         v.same => later[NameOf(v)] = files[NameOf(v)]
  PROVE  OwnRecord(later, v)
<1>1. NameOf(v) = NameOf(w) /\ Header(v) = Header(w)
  BY DEF Peer, NameOf, Header
<1> QED BY <1>1 DEF OwnRecord, Peer

LEMMA PeerPlaced ==
  ASSUME NEW w, NEW v, Peer(w, v), Placed(w)
  PROVE  Placed(v)
BY DEF Peer, Placed

LEMMA OnwardOwn ==
  ASSUME NEW w, NEW v, Onward(w, v), NEW files
  PROVE  OwnRecord(files, v)
<1>1. v.at \in {"look", "cleanup", "remove", "idle"}
  BY RestingLocals DEF Onward, Locals
<1> QED BY <1>1 DEF OwnRecord

LEMMA Writes ==
  ASSUME work = [q \in Programs |-> work[q]], \A q \in Programs : work[q] \in WorkType,
         command \in CommandType, NEW p \in Programs, NEW owner \in Owners \cup {None}, Write(p, owner)
  PROVE  /\ work' = [q \in Programs |-> work'[q]] /\ work'[p] = NextName(work[p])
         /\ \A q \in Programs : q # p => /\ Peer(work[q], work'[q])
                                         /\ NameOf(work[q]) = NameOf(work[p]) => work'[q].same = FALSE
         /\ command' \in CommandType
         /\ \A n \in Files : n # NameOf(work[p]) => command'[n] = command[n]
<1>1. Name(p) = NameOf(work[p]) /\ \A q \in Programs : Name(q) = NameOf(work[q])
  BY DEF Name, NameOf
<1>2. command' = [command EXCEPT ![NameOf(work[p])] = owner]
  BY <1>1 DEF Write
<1>3. \A q \in Programs :
        work'[q] = IF q = p THEN NextName(work[p])
                   ELSE IF NameOf(work[q]) = NameOf(work[p]) THEN [work[q] EXCEPT !.same = FALSE] ELSE work[q]
  BY <1>1 DEF Write
<1>4. work' = [q \in Programs |-> work'[q]]
  BY DEF Write
<1>5. command' \in CommandType /\ \A n \in Files : n # NameOf(work[p]) => command'[n] = command[n]
  BY <1>2 DEF CommandType
<1>6. \A q \in Programs : q # p => /\ Peer(work[q], work'[q])
                                   /\ NameOf(work[q]) = NameOf(work[p]) => work'[q].same = FALSE
  <2> SUFFICES ASSUME NEW q \in Programs, q # p
               PROVE  /\ Peer(work[q], work'[q])
                      /\ NameOf(work[q]) = NameOf(work[p]) => work'[q].same = FALSE
    OBVIOUS
  <2>1. work'[q] = IF NameOf(work[q]) = NameOf(work[p]) THEN [work[q] EXCEPT !.same = FALSE] ELSE work[q]
    BY <1>3
  <2>2. work[q] \in WorkType
    OBVIOUS
  <2> QED BY <2>1, <2>2, PeerRefl
<1> QED BY <1>3, <1>4, <1>5, <1>6

(* What a program's own step makes of its locals.                            *)
Follows(w, v) == /\ v \in WorkType /\ Placed(v)
                 /\ \/ Onward(w, v)
                    \/ v.role = w.role /\ v.nth = w.nth /\ v.at \in CommandLabels
WorkOK == /\ work = [q \in Programs |-> work[q]]
          /\ \A q \in Programs : work[q] \in WorkType /\ Placed(work[q])
          /\ command \in CommandType
OthersPeers(p) == /\ work' = [q \in Programs |-> work'[q]]
                  /\ \A q \in Programs : q # p => Peer(work[q], work'[q])
                  /\ command' \in CommandType

LEMMA Goes ==
  ASSUME WorkOK, NEW p \in Programs, NEW v, Go(p, v), command' = command
  PROVE  OthersPeers(p) /\ work'[p] = v /\ \A q \in Programs : q # p => work'[q] = work[q]
<1>1. work' = [work EXCEPT ![p] = v]
  BY DEF Go
<1>2. work' = [q \in Programs |-> work'[q]] /\ work'[p] = v /\ \A q \in Programs : q # p => work'[q] = work[q]
  BY <1>1 DEF WorkOK
<1> QED BY <1>2, PeerRefl DEF WorkOK, OthersPeers

LEMMA OnwardStep ==
  ASSUME WorkOK, NEW p \in Programs, Skip(p) \/ Throw(p), command' = command, OwnOK
  PROVE  OthersPeers(p) /\ Follows(work[p], work'[p]) /\ OwnOK'
<1>1. PICK v : v \in {NextName(work[p]), Thrown(work[p])} /\ Go(p, v)
  BY DEF Skip, Throw
<1>2. Onward(work[p], v)
  BY <1>1, NextOnward, ThrownOnward DEF WorkOK
<1>3. OthersPeers(p) /\ work'[p] = v /\ \A q \in Programs : q # p => work'[q] = work[q]
  BY <1>1, Goes
<1>4. Follows(work[p], work'[p])
  BY <1>2, <1>3 DEF Follows, Onward
<1>5. OwnOK'
  BY <1>2, <1>3, OnwardOwn DEF OwnOK
<1> QED BY <1>3, <1>4, <1>5

LEMMA WriteStep ==
  ASSUME WorkOK, NEW p \in Programs, NEW owner \in Owners \cup {None}, Write(p, owner), OwnOK
  PROVE  OthersPeers(p) /\ Follows(work[p], work'[p]) /\ OwnOK'
<1>1. /\ work' = [q \in Programs |-> work'[q]] /\ work'[p] = NextName(work[p])
      /\ \A q \in Programs : q # p => /\ Peer(work[q], work'[q])
                                      /\ NameOf(work[q]) = NameOf(work[p]) => work'[q].same = FALSE
      /\ command' \in CommandType
      /\ \A n \in Files : n # NameOf(work[p]) => command'[n] = command[n]
  BY Writes DEF WorkOK
<1>2. Onward(work[p], work'[p])
  BY <1>1, NextOnward DEF WorkOK
<1>3. OwnOK'
  <2> SUFFICES ASSUME NEW q \in Programs PROVE OwnRecord(command', work'[q])
    BY DEF OwnOK
  <2>1. CASE q = p
    BY <2>1, <1>2, OnwardOwn
  <2>2. CASE q # p
    <3>1. Peer(work[q], work'[q]) /\ OwnRecord(command, work[q])
      BY <2>2, <1>1 DEF OwnOK
    <3>2. NameOf(work'[q]) = NameOf(work[q]) /\ NameOf(work[q]) \in Files
      BY <3>1, NamePlaced DEF Peer, NameOf, WorkOK
    <3>3. work'[q].same => command'[NameOf(work'[q])] = command[NameOf(work'[q])]
      BY <2>2, <1>1, <3>2
    <3> QED BY <3>1, <3>3, PeerOwn
  <2> QED BY <2>1, <2>2
<1>4. OthersPeers(p)
  BY <1>1 DEF OthersPeers
<1>5. Follows(work[p], work'[p])
  BY <1>2 DEF Follows, Onward
<1> QED BY <1>3, <1>4, <1>5

(* A step that only moves on to the label at.                                *)
LEMMA LabelStep ==
  ASSUME WorkOK, NEW p \in Programs, NEW at \in CommandLabels, NEW own, NEW same, NEW v, Go(p, v),
         Locals(v, work[p].role, at, work[p].nth, own, same),
         at = "stat" => work[p].role \in Installers, at = "unlink" => work[p].role \in Removing,
         command' = command, OwnOK, OwnRecord(command, v)
  PROVE  OthersPeers(p) /\ Follows(work[p], work'[p]) /\ OwnOK'
<1>1. OthersPeers(p) /\ work'[p] = v /\ \A q \in Programs : q # p => work'[q] = work[q]
  BY Goes
<1>2. v.role = work[p].role /\ v.nth = work[p].nth /\ v.at = at /\ v \in WorkType
  BY DEF Locals
<1>3. Placed(v)
  BY <1>2 DEF WorkOK, Placed, CommandLabels, InstallerLabels, UninstallerLabels
<1>4. Follows(work[p], work'[p])
  BY <1>1, <1>2, <1>3 DEF Follows
<1>5. OwnOK'
  BY <1>1 DEF OwnOK
<1> QED BY <1>1, <1>4, <1>5

LEMMA ConflictStep ==
  ASSUME WorkOK, NEW p \in Programs, Conflict(p), command' = command, OwnOK
  PROVE  OthersPeers(p) /\ Follows(work[p], work'[p]) /\ OwnOK'
BY OnwardStep DEF Conflict

LEMMA HeaderOwner ==
  ASSUME NEW w
  PROVE  Header(w) \in Owners
BY DEF Header, Owners

LEMMA CommandLabelsTyped == CommandLabels \subseteq Labels \cup {"idle"}
BY DEF CommandLabels, Labels

LEMMA LookStep ==
  ASSUME WorkOK, NEW p \in Programs, Look(p), OwnOK
  PROVE  OthersPeers(p) /\ Follows(work[p], work'[p]) /\ OwnOK'
<1>1. work[p] \in WorkType /\ Name(p) = NameOf(work[p]) /\ command' = command
  BY DEF WorkOK, Name, NameOf, Look
<1>2. PICK after : after = IF work[p].role \in Installers /\ Name(p) # Script THEN "stat"
                           ELSE IF work[p].role = "unregister" THEN "unlink" ELSE "compare"
  OBVIOUS
<1>3. \/ work[p].role \in Registering /\ To(p, "link")
      \/ Skip(p)
      \/ command[Name(p)] = Header(work[p]) /\ Go(p, [work[p] EXCEPT !.at = after, !.own = TRUE, !.same = TRUE])
      \/ Conflict(p)
  BY <1>2 DEF Look
<1>4. CASE To(p, "link")
  <2>1. PICK v : v = [work[p] EXCEPT !.at = "link"]
    OBVIOUS
  <2>2. Go(p, v) /\ "link" \in CommandLabels
    BY <1>4, <2>1 DEF To, CommandLabels
  <2>3. Locals(v, work[p].role, "link", work[p].nth, work[p].own, work[p].same)
    BY <1>1, <2>1, <2>2, CommandLabelsTyped, Relabelled
  <2>4. OwnRecord(command, v)
    BY <2>3 DEF Locals, OwnRecord
  <2> QED BY <1>1, <2>2, <2>3, <2>4, LabelStep
<1>5. CASE /\ command[Name(p)] = Header(work[p])
           /\ Go(p, [work[p] EXCEPT !.at = after, !.own = TRUE, !.same = TRUE])
  <2>1. PICK v : v = [work[p] EXCEPT !.at = after, !.own = TRUE, !.same = TRUE]
    OBVIOUS
  <2>2. Go(p, v) /\ after \in CommandLabels
    BY <1>2, <1>5, <2>1 DEF CommandLabels
  <2>3. Locals(v, work[p].role, after, work[p].nth, TRUE, TRUE)
    BY <1>1, <2>1, <2>2, CommandLabelsTyped, Seen
  <2>4. after = "stat" => work[p].role \in Installers
    BY <1>2
  <2>5. after = "unlink" => work[p].role \in Removing
    BY <1>2 DEF Removing
  <2>6. NameOf(v) = NameOf(work[p]) /\ Header(v) = Header(work[p])
    BY <2>3 DEF Locals, NameOf, Header
  <2>7. OwnRecord(command, v)
    BY <1>1, <1>5, <2>3, <2>6 DEF Locals, OwnRecord
  <2> QED BY <1>1, <2>2, <2>3, <2>4, <2>5, <2>7, LabelStep
<1> QED BY <1>1, <1>3, <1>4, <1>5, OnwardStep, ConflictStep

LEMMA StatStep ==
  ASSUME WorkOK, NEW p \in Programs, Stat(p), OwnOK
  PROVE  OthersPeers(p) /\ Follows(work[p], work'[p]) /\ OwnOK'
<1>1. work[p] \in WorkType /\ command' = command /\ work[p].at = "stat" /\ work[p].role \in Installers
  BY DEF WorkOK, Stat, At, Placed, InstallerLabels
<1>2. CASE Throw(p)
  BY <1>1, <1>2, OnwardStep
<1>3. CASE Go(p, [work[p] EXCEPT !.at = "compare", !.same = TRUE])
  <2>1. PICK v : v = [work[p] EXCEPT !.at = "compare", !.same = TRUE]
    OBVIOUS
  <2>2. Go(p, v) /\ "compare" \in CommandLabels
    BY <1>3, <2>1 DEF CommandLabels
  <2>3. Locals(v, work[p].role, "compare", work[p].nth, work[p].own, TRUE)
    BY <1>1, <2>1, <2>2, CommandLabelsTyped, Seen DEF WorkType
  <2>4. OwnRecord(command, v)
    BY <1>1, <2>3 DEF Locals, OwnRecord
  <2> QED BY <1>1, <2>2, <2>3, <2>4, LabelStep
<1> QED BY <1>2, <1>3 DEF Stat

LEMMA CompareStep ==
  ASSUME WorkOK, NEW p \in Programs, Compare(p), OwnOK
  PROVE  OthersPeers(p) /\ Follows(work[p], work'[p]) /\ OwnOK'
<1>1. /\ work[p] \in WorkType /\ command' = command /\ work[p].at = "compare" /\ work[p].role \in Roles
      /\ Name(p) = NameOf(work[p]) /\ OwnRecord(command, work[p])
  BY DEF WorkOK, WorkType, Compare, At, Name, NameOf, OwnOK
<1>2. PICK to : to = IF work[p].role \in Registering THEN "rename" ELSE "unlink"
  OBVIOUS
<1>3. PICK own \in BOOLEAN : own = (command[Name(p)] = Header(work[p]))
  OBVIOUS
<1>4. \/ Throw(p) \/ Conflict(p) \/ Skip(p)
      \/ /\ Go(p, [work[p] EXCEPT !.at = to, !.own = own]) /\ work[p].same
         /\ ~(work[p].role \in Installers /\ Name(p) # Script /\ command[Name(p)] # Header(work[p]))
  BY <1>2, <1>3 DEF Compare
<1>5. CASE /\ Go(p, [work[p] EXCEPT !.at = to, !.own = own]) /\ work[p].same
           /\ ~(work[p].role \in Installers /\ Name(p) # Script /\ command[Name(p)] # Header(work[p]))
  <2>1. PICK v : v = [work[p] EXCEPT !.at = to, !.own = own]
    OBVIOUS
  <2>2. Go(p, v) /\ to \in CommandLabels
    BY <1>2, <1>5, <2>1 DEF CommandLabels
  <2>3. Locals(v, work[p].role, to, work[p].nth, own, work[p].same)
    BY <1>1, <2>1, <2>2, CommandLabelsTyped, Seen
  <2>4. to = "unlink" => work[p].role \in Removing
    BY <1>1, <1>2 DEF Roles
  <2>5. NameOf(v) = NameOf(work[p])
    BY <2>3 DEF Locals, NameOf
  <2>6. own \/ NameOf(work[p]) = Script
    BY <1>1, <1>3, <1>5 DEF OwnRecord
  <2>7. to # "stat" /\ to # "compare"
    BY <1>2
  <2>8. OwnRecord(command, v)
    BY <2>3, <2>5, <2>6, <2>7 DEF Locals, OwnRecord
  <2> QED BY <1>1, <2>2, <2>3, <2>4, <2>7, <2>8, LabelStep
<1> QED BY <1>1, <1>4, <1>5, OnwardStep, ConflictStep

(* Every step at a command file keeps the invariant of the looks.            *)
LEMMA CommandSteps ==
  ASSUME WorkOK, NEW p \in Programs, CommandStep(p), OwnOK
  PROVE  /\ work[p].at \in CommandLabels
         /\ OthersPeers(p) /\ Follows(work[p], work'[p]) /\ OwnOK'
<1>1. work[p].at \in CommandLabels
  BY DEF CommandStep, Look, Stat, Compare, Link, Rename, Unlink, At, CommandLabels
<1>2. Header(work[p]) \in Owners \cup {None} /\ None \in Owners \cup {None}
  BY HeaderOwner
<1>3. CASE Look(p)
  BY <1>1, <1>3, LookStep
<1>4. CASE Stat(p)
  BY <1>1, <1>4, StatStep
<1>5. CASE Compare(p)
  BY <1>1, <1>5, CompareStep
<1>6. CASE Link(p)
  <2>1. \/ Write(p, Header(work[p]))
        \/ (Skip(p) \/ Throw(p)) /\ command' = command
    BY <1>6 DEF Link
  <2> QED BY <2>1, <1>1, <1>2, WriteStep, OnwardStep
<1>7. CASE Rename(p)
  BY <1>1, <1>2, <1>7, WriteStep DEF Rename
<1>8. CASE Unlink(p)
  <2>1. Write(p, None) \/ (Throw(p) /\ command' = command)
    BY <1>8 DEF Unlink
  <2> QED BY <2>1, <1>1, <1>2, WriteStep, OnwardStep
<1> QED BY <1>3, <1>4, <1>5, <1>6, <1>7, <1>8 DEF CommandStep

LEMMA MeddleStep ==
  ASSUME WorkOK, NEW n \in Commands, Meddle(n), OwnOK
  PROVE  /\ work' = [q \in Programs |-> work'[q]]
         /\ \A q \in Programs : Peer(work[q], work'[q])
         /\ command' \in CommandType /\ OwnOK'
<1>1. \A q \in Programs : Name(q) = NameOf(work[q]) /\ work[q] \in WorkType /\ NameOf(work[q]) \in Files
  BY NamePlaced DEF WorkOK, Name, NameOf
<1>2. \A q \in Programs : work'[q] = IF NameOf(work[q]) = n THEN [work[q] EXCEPT !.same = FALSE] ELSE work[q]
  BY <1>1 DEF Meddle
<1>3. work' = [q \in Programs |-> work'[q]]
  BY DEF Meddle
<1>4. \A q \in Programs : Peer(work[q], work'[q]) /\ (NameOf(work[q]) = n => work'[q].same = FALSE)
  BY <1>1, <1>2, PeerRefl
<1>5. command' \in CommandType /\ \A m \in Files : m # n => command'[m] = command[m]
  BY DEF Meddle, WorkOK, CommandType, Owners
<1>6. OwnOK'
  <2> SUFFICES ASSUME NEW q \in Programs PROVE OwnRecord(command', work'[q])
    BY DEF OwnOK
  <2>1. OwnRecord(command, work[q]) /\ Peer(work[q], work'[q])
    BY <1>4 DEF OwnOK
  <2>2. NameOf(work'[q]) = NameOf(work[q])
    BY <2>1 DEF Peer, NameOf
  <2>3. work'[q].same => command'[NameOf(work'[q])] = command[NameOf(work'[q])]
    BY <1>1, <1>4, <1>5, <2>2
  <2> QED BY <2>1, <2>3, PeerOwn
<1> QED BY <1>3, <1>4, <1>5, <1>6

-----------------------------------------------------------------------------
(* A step of one program, in general: what each part of the invariant needs  *)
(* from it.                                                                  *)

Holds(w) == w.role \in Installers /\ w.at \in Working \cup {"cleanup"}
DiskTyped == /\ there \subseteq {"prefix", "marker", "lock"} /\ (there # {} => "prefix" \in there)
             /\ version \in [Versions -> Content] /\ staging \in [Programs -> Content]
             /\ current \in Versions \cup {None} /\ {torn, looted} \subseteq BOOLEAN
RunsTyped == /\ {record, live} \subseteq 0..starts /\ starts \in 0..MaxStarts
             /\ programs \in 0..MaxPrograms /\ meddles \in 0..MaxMeddles

Mover(p) == /\ OthersPeers(p) /\ work'[p] \in WorkType /\ Placed(work'[p])
            /\ job' \in [Programs -> JobType] /\ \A q \in Programs : q # p => job'[q] = job[q]
            /\ work'[p].role \in Installers => job'[p].target \in Versions
            /\ job'[p].began <= starts
\* p knows no more after the step than before.
Learns(p) == HasLooked(work'[p]) /\ ~(HasLooked(work[p]) /\ job'[p].began = job[p].began)

LEMMA Parts ==
  ASSUME IInv
  PROVE  WorkOK /\ job \in [Programs -> JobType] /\ DiskTyped /\ RunsTyped /\ OwnOK
<1>1. TypeOK /\ Staged /\ OwnOK
  BY DEF IInv
<1>2. work \in [Programs -> WorkType] /\ job \in [Programs -> JobType]
  BY <1>1 DEF TypeOK, WorkType, JobType
<1>3. WorkOK
  BY <1>1, <1>2 DEF WorkOK, Staged, TypeOK, CommandType
<1>4. DiskTyped /\ RunsTyped
  BY <1>1 DEF TypeOK, DiskTyped, RunsTyped
<1> QED BY <1>1, <1>2, <1>3, <1>4

LEMMA HoldsIsHolding == \A q \in Programs : Holding(q) <=> Holds(work[q])
BY DEF Holding, Holds

LEMMA AllWork ==
  ASSUME WorkOK, NEW p \in Programs, Mover(p)
  PROVE  /\ work' \in [Programs -> WorkType] /\ \A q \in Programs : Placed(work'[q])
         /\ \A q \in Programs : q # p => /\ work'[q].role = work[q].role /\ work'[q].at = work[q].at
                                         /\ Holds(work'[q]) = Holds(work[q])
                                         /\ HasLooked(work'[q]) = HasLooked(work[q])
<1>1. \A q \in Programs : q # p => Peer(work[q], work'[q])
  BY DEF Mover, OthersPeers
<1>2. \A q \in Programs : Placed(work'[q]) /\ work'[q] \in WorkType
  BY <1>1, PeerPlaced DEF Mover, WorkOK, Peer
<1>3. work' = [q \in Programs |-> work'[q]]
  BY DEF Mover, OthersPeers
<1>4. \A q \in Programs : q # p => work'[q].role = work[q].role /\ work'[q].at = work[q].at
  BY <1>1 DEF Peer
<1>5. \A q \in Programs : q # p => Holds(work'[q]) = Holds(work[q])
  BY <1>4 DEF Holds
<1>6. \A q \in Programs : q # p => HasLooked(work'[q]) = HasLooked(work[q])
  BY <1>4 DEF HasLooked
<1> QED BY <1>2, <1>3, <1>4, <1>5, <1>6

LEMMA TypeStep ==
  ASSUME IInv, NEW p \in Programs, Mover(p), DiskTyped', RunsTyped'
  PROVE  TypeOK'
<1>1. work' \in [Programs -> WorkType] /\ \A q \in Programs : work'[q].nth <= Len(Names(work'[q].role))
  BY Parts, AllWork DEF Placed
<1>2. job' \in [Programs -> JobType] /\ command' \in CommandType
  BY DEF Mover, OthersPeers
<1> QED BY <1>1, <1>2 DEF TypeOK, DiskTyped, RunsTyped, WorkType, JobType, CommandType

LEMMA StagedStep ==
  ASSUME IInv, NEW p \in Programs, Mover(p),
         \A q \in Programs : q # p => staging'[q] \in {staging[q], "absent"},
         work'[p].at = "place" => staging'[p] \in {"absent", "whole"}
  PROVE  Staged'
<1> SUFFICES ASSUME NEW q \in Programs
             PROVE  /\ Placed(work'[q])
                    /\ work'[q].role \in Installers => job'[q].target \in Versions
                    /\ work'[q].at = "place" => staging'[q] \in {"absent", "whole"}
  BY DEF Staged
<1>1. Placed(work'[q])
  BY Parts, AllWork
<1>2. CASE q = p
  BY <1>1, <1>2 DEF Mover
<1>3. CASE q # p
  BY <1>1, <1>3, Parts, AllWork DEF IInv, Staged, Mover
<1> QED BY <1>2, <1>3

LEMMA LockStep ==
  ASSUME IInv, NEW p \in Programs, Mover(p), Holds(work'[p]) => Holds(work[p]),
         "lock" \in there => "lock" \in there', looted => looted'
  PROVE  LockOK'
<1>1. \A q \in Programs : Holds(work'[q]) => Holds(work[q])
  BY Parts, AllWork
<1>2. looted \/ (/\ \A q \in Programs : Holds(work[q]) => "lock" \in there
                 /\ \A q, r \in Programs : Holds(work[q]) /\ Holds(work[r]) => q = r)
  BY HoldsIsHolding DEF IInv, LockOK
<1>3. \A q \in Programs : Holding(q)' <=> Holds(work'[q])
  BY DEF Holding, Holds
<1> QED BY <1>1, <1>2, <1>3 DEF LockOK

LEMMA LinkStep ==
  ASSUME IInv, NEW p \in Programs, Mover(p), work'[p].at # "swap",
         torn => torn', looted => looted', current' = current, version' = version
  PROVE  LinkOK'
<1>1. \A q \in Programs : work'[q].at = "swap" => work[q].at = "swap" /\ job'[q] = job[q]
  BY Parts, AllWork DEF Mover
<1> QED BY <1>1 DEF IInv, LinkOK

LEMMA SpareStep ==
  ASSUME IInv, NEW p \in Programs, Mover(p), ~Learns(p), UNCHANGED runtime
  PROVE  SpareOK'
<1>1. Active' = Active /\ live' = live /\ starts' = starts
  BY DEF runtime, Active
<1> SUFFICES ASSUME NEW q \in Programs
             PROVE  /\ job'[q].began <= starts
                    /\ HasLooked(work'[q]) /\ Active => live > job'[q].began
  BY <1>1 DEF SpareOK
<1>2. /\ job[q].began <= starts
      /\ HasLooked(work[q]) /\ Active => live > job[q].began
  BY DEF IInv, SpareOK
<1>3. CASE q = p
  BY <1>2, <1>3 DEF Mover, Learns
<1>4. CASE q # p
  BY <1>2, <1>4, Parts, AllWork DEF Mover
<1> QED BY <1>3, <1>4

(* A step that takes nothing on: no lock, no version to install or link to,  *)
(* no look at the service.                                                   *)
LEMMA CalmStep ==
  ASSUME IInv, NEW p \in Programs, Mover(p), OwnOK', ~Learns(p), Holds(work'[p]) => Holds(work[p]),
         work'[p].at \notin {"place", "swap"}, "lock" \in there => "lock" \in there',
         \A q \in Programs : q # p => staging'[q] \in {staging[q], "absent"},
         UNCHANGED <<version, current, torn, looted, runtime>>, DiskTyped', RunsTyped'
  PROVE  IInv'
<1>1. TypeOK'
  BY TypeStep
<1>2. Staged'
  BY StagedStep
<1>3. LockOK'
  BY LockStep
<1>4. LinkOK'
  BY LinkStep
<1>5. SpareOK'
  BY SpareStep
<1> QED BY <1>1, <1>2, <1>3, <1>4, <1>5 DEF IInv

-----------------------------------------------------------------------------
(* The ways a step moves its program.                                        *)

LEMMA NoJobTyped ==
  /\ NoJob \in JobType /\ NoJob.began = 0
  /\ ~HasLooked(Resting) /\ ~Holds(Resting) /\ Resting.at = "idle" /\ Resting.role \notin Installers
<1>1. NoJob \in JobType /\ NoJob.began = 0
  BY InstallationAssumption DEF NoJob, JobType
<1>2. Resting.role = "remove" /\ Resting.at = "idle"
  BY DEF Resting
<1> QED BY <1>1, <1>2 DEF HasLooked, Holds, Working, Installers

LEMMA JobKept ==
  ASSUME IInv, NEW p \in Programs, job' = job
  PROVE  /\ job' \in [Programs -> JobType] /\ \A q \in Programs : q # p => job'[q] = job[q]
         /\ job'[p].began = job[p].began /\ job'[p].began <= starts
         /\ work[p].role \in Installers => job'[p].target \in Versions
BY Parts DEF IInv, Staged, SpareOK

LEMMA JobGone ==
  ASSUME IInv, NEW p \in Programs, job' = [job EXCEPT ![p] = NoJob]
  PROVE  /\ job' \in [Programs -> JobType] /\ \A q \in Programs : q # p => job'[q] = job[q]
         /\ job'[p].began = 0 /\ job'[p].began <= starts
BY Parts, NoJobTyped DEF RunsTyped

LEMMA Ends ==
  ASSUME IInv, NEW p \in Programs, End(p), command' = command
  PROVE  /\ Mover(p) /\ OwnOK' /\ ~Learns(p) /\ ~Holds(work'[p]) /\ work'[p] = Resting
         /\ work'[p].at \notin {"place", "swap"}
<1>1. OthersPeers(p) /\ work'[p] = Resting /\ \A q \in Programs : q # p => work'[q] = work[q]
  BY Parts, Goes DEF End
<1>2. Resting \in WorkType /\ Placed(Resting) /\ \A files : OwnRecord(files, Resting)
  <2>1. PICK w \in WorkType : w = Resting
    BY RestingLocals DEF Locals
  <2>2. Onward(w, Resting)
    BY <2>1, NoJobTyped, RestingOnward
  <2> QED BY <2>2, OnwardOwn DEF Onward
<1>3. Mover(p)
  BY <1>1, <1>2, JobGone, NoJobTyped DEF End, Mover
<1>4. OwnOK'
  BY <1>1, <1>2 DEF OwnOK, IInv
<1> QED BY <1>1, <1>3, <1>4, NoJobTyped DEF Learns

LEMMA ThrownLocals ==
  ASSUME NEW w \in WorkType, Placed(w)
  PROVE  /\ ~HasLooked(Thrown(w)) /\ Thrown(w).at \notin {"place", "swap"}
         /\ Thrown(w).role \in Installers => w.role \in Installers
<1>1. CASE w.role \in Installers
  <2>1. Thrown(w) = [w EXCEPT !.at = "cleanup", !.own = FALSE, !.same = FALSE]
    BY <1>1 DEF Thrown
  <2>2. Thrown(w).at = "cleanup" /\ Thrown(w).role = w.role
    BY <2>1 DEF WorkType
  <2> QED BY <1>1, <2>2, RolesApart DEF HasLooked
<1>2. CASE w.role \notin Installers
  <2>1. Thrown(w) = Resting
    BY <1>2 DEF Thrown
  <2> QED BY <2>1, NoJobTyped
<1> QED BY <1>1, <1>2

LEMMA Throws ==
  ASSUME IInv, NEW p \in Programs, Throw(p), UNCHANGED <<command, job>>
  PROVE  Mover(p) /\ OwnOK' /\ ~Learns(p) /\ work'[p].at \notin {"place", "swap"}
<1>1. WorkOK /\ work[p] \in WorkType /\ Placed(work[p]) /\ OwnOK
  BY Parts DEF WorkOK
<1>2. OthersPeers(p) /\ OwnOK'
  BY <1>1, OnwardStep
<1>3. work'[p] = Thrown(work[p])
  BY <1>1, Goes DEF Throw
<1>4. Onward(work[p], work'[p])
  BY <1>1, <1>3, ThrownOnward
<1>5. /\ ~HasLooked(work'[p]) /\ work'[p].at \notin {"place", "swap"}
      /\ work'[p].role \in Installers => work[p].role \in Installers
  BY <1>1, <1>3, ThrownLocals
<1>6. Mover(p)
  BY <1>2, <1>4, <1>5, JobKept DEF Mover, Onward
<1> QED BY <1>2, <1>5, <1>6 DEF Learns

(* To another label, none of a command file's comparisons.                   *)
LEMMA Moves ==
  ASSUME IInv, NEW p \in Programs, NEW at \in Labels, NEW nth \in 1..3, NEW own, NEW same, NEW v, Go(p, v),
         Locals(v, work[p].role, at, nth, own, same), nth <= Len(Names(work[p].role)),
         at \notin {"compare", "rename", "unlink"}, command' = command,
         at \in InstallerLabels => work[p].role \in Installers,
         at \in UninstallerLabels => work[p].role = "uninstall"
  PROVE  /\ OthersPeers(p) /\ work'[p] \in WorkType /\ Placed(work'[p]) /\ OwnOK'
         /\ work'[p].role = work[p].role /\ work'[p].at = at
<1>1. OthersPeers(p) /\ work'[p] = v /\ \A q \in Programs : q # p => work'[q] = work[q]
  BY Parts, Goes
<1>2. v \in WorkType /\ v.role = work[p].role /\ v.at = at /\ v.nth = nth
  BY DEF Locals
<1>3. at # "idle"
  BY DEF Labels
<1>4. Placed(v)
  BY <1>2, <1>3 DEF Placed
<1>5. OwnOK'
  BY <1>1, <1>2 DEF OwnOK, OwnRecord, IInv
<1> QED BY <1>1, <1>2, <1>4, <1>5

LEMMA MovesTo ==
  ASSUME IInv, NEW p \in Programs, NEW at \in Labels, To(p, at),
         at \notin {"compare", "rename", "unlink"}, command' = command,
         at \in InstallerLabels => work[p].role \in Installers,
         at \in UninstallerLabels => work[p].role = "uninstall"
  PROVE  /\ OthersPeers(p) /\ work'[p] \in WorkType /\ Placed(work'[p]) /\ OwnOK'
         /\ work'[p].role = work[p].role /\ work'[p].at = at
<1>1. work[p] \in WorkType /\ Placed(work[p])
  BY Parts DEF WorkOK
<1>2. PICK v : v = [work[p] EXCEPT !.at = at]
  OBVIOUS
<1>3. Go(p, v)
  BY <1>2 DEF To
<1>4. Locals(v, work[p].role, at, work[p].nth, work[p].own, work[p].same)
  BY <1>1, <1>2, Relabelled
<1>5. work[p].nth \in 1..3 /\ work[p].nth <= Len(Names(work[p].role))
  BY <1>1 DEF WorkType, Placed
<1> QED BY <1>3, <1>4, <1>5, Moves

LEMMA MovesOn ==
  ASSUME IInv, NEW p \in Programs, NEW at \in Labels, To(p, at), at \notin CommandLabels,
         UNCHANGED <<command, job>>,
         at \in InstallerLabels => work[p].role \in Installers,
         at \in UninstallerLabels => work[p].role = "uninstall"
  PROVE  Mover(p) /\ OwnOK' /\ work'[p].role = work[p].role /\ work'[p].at = at
<1>1. /\ OthersPeers(p) /\ work'[p] \in WorkType /\ Placed(work'[p]) /\ OwnOK'
      /\ work'[p].role = work[p].role /\ work'[p].at = at
  BY MovesTo DEF CommandLabels
<1>2. Mover(p)
  BY <1>1, JobKept DEF Mover
<1> QED BY <1>1, <1>2

-----------------------------------------------------------------------------
(* The steps of install.mjs.                                                 *)

LEMMA InstallerAt ==
  ASSUME IInv, NEW p \in Programs
  PROVE  /\ work[p].at \in InstallerLabels => work[p].role \in Installers /\ job[p].target \in Versions
         /\ work[p].at \in UninstallerLabels => work[p].role = "uninstall"
         /\ work[p].at \in InstallerLabels \ {"start", "mark", "lock"} => Holds(work[p])
<1>1. Placed(work[p]) /\ (work[p].role \in Installers => job[p].target \in Versions)
  BY DEF IInv, Staged
<1> QED BY <1>1 DEF Placed, InstallerLabels, Holds, Working

LEMMA SameDisk ==
  ASSUME IInv, UNCHANGED prefix
  PROVE  DiskTyped'
BY Parts DEF DiskTyped, prefix

LEMMA SameRuns ==
  ASSUME IInv, UNCHANGED <<runtime, bounds>>
  PROVE  RunsTyped'
BY Parts DEF RunsTyped, runtime, bounds

LEMMA CrashStep ==
  ASSUME IInv, NEW p \in Programs, Crash(p)
  PROVE  IInv'
<1>1. Mover(p) /\ OwnOK' /\ ~Learns(p) /\ ~Holds(work'[p]) /\ work'[p].at \notin {"place", "swap"}
  BY Ends DEF Crash
<1>2. DiskTyped' /\ RunsTyped' /\ UNCHANGED <<prefix, runtime>>
  BY SameDisk, SameRuns DEF Crash
<1> QED BY <1>1, <1>2, CalmStep DEF prefix

LEMMA FailsStep ==
  ASSUME IInv, NEW p \in Programs, Fails(p)
  PROVE  IInv'
<1>1. Mover(p) /\ OwnOK' /\ ~Learns(p) /\ work'[p].at \notin {"place", "swap"}
  BY Throws DEF Fails
<1>2. DiskTyped' /\ RunsTyped' /\ UNCHANGED <<prefix, runtime>>
  BY SameDisk, SameRuns DEF Fails
<1>3. Holds(work[p])
  BY HoldsIsHolding DEF Fails
<1> QED BY <1>1, <1>2, <1>3, CalmStep DEF prefix

LEMMA StartStep ==
  ASSUME IInv, NEW p \in Programs, Start(p)
  PROVE  IInv'
<1>1. CASE End(p) /\ UNCHANGED there
  <2>1. Mover(p) /\ OwnOK' /\ ~Learns(p) /\ ~Holds(work'[p]) /\ work'[p].at \notin {"place", "swap"}
    BY <1>1, Ends DEF Start
  <2>2. UNCHANGED <<prefix, runtime, bounds>>
    BY <1>1 DEF Start, prefix
  <2> QED BY <2>1, <2>2, SameDisk, SameRuns, CalmStep DEF prefix
<1>2. CASE To(p, "mark") /\ there' = there \cup {"prefix"} /\ UNCHANGED job
  <2>1. work[p].at = "start" /\ work[p].role \in Installers
    BY InstallerAt DEF Start, At, InstallerLabels
  <2>2. Mover(p) /\ OwnOK' /\ work'[p].at = "mark"
    BY <1>2, <2>1, MovesOn DEF Start, Labels, CommandLabels, UninstallerLabels
  <2>3. work'[p].role = work[p].role
    BY <1>2, <2>1, MovesOn DEF Start, Labels, CommandLabels, UninstallerLabels
  <2>4. ~Holds(work'[p]) /\ ~Learns(p)
    BY <2>1, <2>2, <2>3, RolesApart DEF Holds, Working, Learns, HasLooked
  <2>5. DiskTyped' /\ RunsTyped'
    BY <1>2, Parts, SameRuns DEF Start, DiskTyped
  <2> QED BY <1>2, <2>2, <2>4, <2>5, CalmStep DEF Start
<1> QED BY <1>1, <1>2 DEF Start

LEMMA MarkStep ==
  ASSUME IInv, NEW p \in Programs, Mark(p)
  PROVE  IInv'
<1>1. work[p].at = "mark" /\ work[p].role \in Installers /\ To(p, "lock") /\ there' = there \cup {"marker"}
  BY InstallerAt DEF Mark, Step, At, InstallerLabels
<1>2. Mover(p) /\ OwnOK' /\ work'[p].at = "lock" /\ work'[p].role = work[p].role
  BY <1>1, MovesOn DEF Mark, Labels, CommandLabels, UninstallerLabels
<1>3. ~Holds(work'[p]) /\ ~Learns(p)
  BY <1>1, <1>2, RolesApart DEF Holds, Working, Learns, HasLooked
<1>4. DiskTyped' /\ RunsTyped'
  BY <1>1, Parts, SameRuns DEF Mark, DiskTyped
<1> QED BY <1>1, <1>2, <1>3, <1>4, CalmStep DEF Mark

\* The lock is taken only when it is not there: then nobody holds it, unless a removal has been at it.
LEMMA LockTaken ==
  ASSUME IInv, NEW p \in Programs, Lock(p)
  PROVE  IInv'
<1>1. work[p].at = "lock" /\ work[p].role \in Installers /\ UNCHANGED <<version, staging, current, torn, looted, runtime, bounds>>
  BY InstallerAt DEF Lock, TakeLock, At, InstallerLabels
<1>2. CASE End(p) /\ UNCHANGED there
  <2>1. Mover(p) /\ OwnOK' /\ ~Learns(p) /\ ~Holds(work'[p]) /\ work'[p].at \notin {"place", "swap"}
    BY <1>2, Ends DEF Lock
  <2>2. UNCHANGED <<prefix, runtime, bounds>>
    BY <1>1, <1>2 DEF prefix
  <2> QED BY <2>1, <2>2, SameDisk, SameRuns, CalmStep DEF prefix
<1>3. CASE "lock" \notin there /\ "prefix" \in there /\ To(p, "inspect") /\ there' = there \cup {"lock"} /\ UNCHANGED job
  <2>1. Mover(p) /\ OwnOK' /\ work'[p].at = "inspect" /\ work'[p].role = work[p].role
    BY <1>1, <1>3, MovesOn DEF Lock, Labels, CommandLabels, UninstallerLabels
  <2>2. ~Learns(p) /\ RunsTyped'
    BY <1>1, <2>1, SameRuns, RolesApart DEF Learns, HasLooked
  <2>3. DiskTyped'
    BY <1>1, <1>3, Parts DEF DiskTyped
  <2>4. TypeOK' /\ Staged' /\ LinkOK' /\ SpareOK'
    BY <1>1, <2>1, <2>2, <2>3, TypeStep, StagedStep, LinkStep, SpareStep
  <2>5. LockOK'
    <3>1. looted \/ \A q \in Programs : ~Holds(work[q])
      BY <1>3, HoldsIsHolding DEF IInv, LockOK
    <3>2. looted \/ \A q \in Programs : Holds(work'[q]) => q = p
      BY <2>1, <3>1, Parts, AllWork
    <3>3. \A q \in Programs : Holding(q)' <=> Holds(work'[q])
      BY DEF Holding, Holds
    <3> QED BY <1>1, <1>3, <3>2, <3>3 DEF LockOK
  <2> QED BY <2>1, <2>4, <2>5 DEF IInv
<1> QED BY <1>2, <1>3 DEF Lock, TakeLock

\* No service is active: whatever is active later has a greater number.
LEMMA InspectStep ==
  ASSUME IInv, NEW p \in Programs, Inspect(p)
  PROVE  IInv'
<1>1. work[p].at = "inspect" /\ work[p].role \in Installers /\ Holds(work[p]) /\ job[p].target \in Versions
  BY InstallerAt DEF Inspect, At, InstallerLabels
<1>2. DiskTyped' /\ RunsTyped' /\ UNCHANGED <<command, prefix, runtime>>
  BY SameDisk, SameRuns DEF Inspect
<1>3. CASE Throw(p) /\ UNCHANGED job
  <2>1. Mover(p) /\ OwnOK' /\ ~Learns(p) /\ work'[p].at \notin {"place", "swap"}
    BY <1>2, <1>3, Throws
  <2> QED BY <1>1, <1>2, <2>1, CalmStep DEF prefix
<1>4. CASE /\ ~(Active \/ version[job[p].target] = "damaged")
           /\ To(p, IF version[job[p].target] = "absent" THEN "copy" ELSE "swap")
           /\ job' = [job EXCEPT ![p].began = starts]
  <2>1. PICK at \in {"copy", "swap"} : at = IF version[job[p].target] = "absent" THEN "copy" ELSE "swap"
    OBVIOUS
  <2>2. at \in Labels /\ at \in InstallerLabels /\ at \notin UninstallerLabels /\ at \notin {"compare", "rename", "unlink"}
    BY <2>1 DEF Labels, InstallerLabels, UninstallerLabels
  <2>3. /\ OthersPeers(p) /\ work'[p] \in WorkType /\ Placed(work'[p]) /\ OwnOK'
        /\ work'[p].role = work[p].role /\ work'[p].at = at
    BY <1>1, <1>2, <1>4, <2>1, <2>2, MovesTo
  <2>4. job \in [Programs -> JobType] /\ starts \in 0..MaxStarts
    BY Parts DEF RunsTyped
  <2>5. /\ job' \in [Programs -> JobType] /\ \A q \in Programs : q # p => job'[q] = job[q]
        /\ job'[p].began = starts /\ job'[p].target = job[p].target
    BY <1>4, <2>4 DEF JobType
  <2>6. Mover(p)
    BY <1>1, <2>3, <2>4, <2>5 DEF Mover
  <2>7. TypeOK' /\ Staged' /\ LockOK'
    BY <1>1, <1>2, <2>1, <2>3, <2>6, TypeStep, StagedStep, LockStep DEF prefix
  <2>8. LinkOK'
    <3>1. at = "swap" => version[job[p].target] = "whole"
      BY <1>1, <1>4, <2>1, Parts DEF DiskTyped, Content
    <3>2. \A q \in Programs : q # p => work'[q].at = work[q].at /\ job'[q] = job[q]
      BY <2>6, Parts, AllWork DEF Mover
    <3> QED BY <1>2, <2>3, <2>5, <3>1, <3>2 DEF IInv, LinkOK, prefix
  <2>9. SpareOK'
    <3>1. \A q \in Programs : job'[q].began <= starts
      BY <2>4, <2>5 DEF IInv, SpareOK
    <3>2. ~Active' /\ starts' = starts
      BY <1>2, <1>4 DEF Active, runtime
    <3> QED BY <3>1, <3>2 DEF SpareOK
  <2> QED BY <2>3, <2>7, <2>8, <2>9 DEF IInv
<1> QED BY <1>3, <1>4 DEF Inspect

LEMMA CopyStep ==
  ASSUME IInv, NEW p \in Programs, Copy(p)
  PROVE  IInv'
<1>1. work[p].at = "copy" /\ work[p].role \in Installers /\ Holds(work[p]) /\ HasLooked(work[p])
  BY InstallerAt DEF Copy, At, InstallerLabels, HasLooked
<1>2. PICK c \in {"whole", "damaged"} : /\ staging' = [staging EXCEPT ![p] = c]
                                        /\ IF Verified(c) THEN To(p, "place") ELSE Throw(p)
  BY DEF Copy
<1>3. /\ there' = there \cup {"prefix"} /\ UNCHANGED <<command, job, version, current, torn, looted, runtime, bounds>>
      /\ \A q \in Programs : q # p => staging'[q] = staging[q]
      /\ staging'[p] = c /\ staging' \in [Programs -> Content]
  BY <1>2, Parts DEF Copy, DiskTyped, Content
<1>4. DiskTyped' /\ RunsTyped'
  BY <1>3, Parts, SameRuns DEF DiskTyped
<1>5. CASE Throw(p)
  <2>1. Mover(p) /\ OwnOK' /\ ~Learns(p) /\ work'[p].at \notin {"place", "swap"}
    BY <1>3, <1>5, Throws
  <2> QED BY <1>1, <1>3, <1>4, <2>1, CalmStep
<1>6. CASE c = "whole" /\ To(p, "place")
  <2>1. Mover(p) /\ OwnOK' /\ work'[p].at = "place" /\ work'[p].role = work[p].role
    BY <1>1, <1>3, <1>6, MovesOn DEF Labels, CommandLabels, UninstallerLabels
  <2>2. ~Learns(p)
    BY <1>1, <1>3 DEF Learns
  <2>3. TypeOK' /\ Staged' /\ LockOK' /\ LinkOK' /\ SpareOK'
    BY <1>1, <1>3, <1>4, <1>6, <2>1, <2>2, TypeStep, StagedStep, LockStep, LinkStep, SpareStep
  <2> QED BY <2>1, <2>3 DEF IInv
<1> QED BY <1>2, <1>5, <1>6 DEF Verified

\* The directory appears whole, under no name that had one: no link leads to it yet, unless it dangles.
LEMMA PlaceStep ==
  ASSUME IInv, NEW p \in Programs, Place(p)
  PROVE  IInv'
<1>1. /\ work[p].at = "place" /\ work[p].role \in Installers /\ Holds(work[p]) /\ HasLooked(work[p])
      /\ job[p].target \in Versions /\ staging[p] \in {"absent", "whole"}
  BY InstallerAt DEF Place, At, InstallerLabels, HasLooked, IInv, Staged
<1>2. RunsTyped' /\ UNCHANGED <<command, job, there, current, torn, looted, runtime>>
  BY SameRuns DEF Place
<1>3. CASE Throw(p) /\ UNCHANGED <<version, staging>>
  <2>1. Mover(p) /\ OwnOK' /\ ~Learns(p) /\ work'[p].at \notin {"place", "swap"}
    BY <1>2, <1>3, Throws
  <2>2. DiskTyped'
    BY <1>2, <1>3, SameDisk DEF prefix
  <2> QED BY <1>1, <1>2, <1>3, <2>1, <2>2, CalmStep
<1>4. CASE /\ staging[p] # "absent" /\ version[job[p].target] = "absent" /\ To(p, "swap")
           /\ version' = [version EXCEPT ![job[p].target] = staging[p]]
           /\ staging' = [staging EXCEPT ![p] = "absent"]
  <2>1. Mover(p) /\ OwnOK' /\ work'[p].at = "swap" /\ work'[p].role = work[p].role
    BY <1>1, <1>2, <1>4, MovesOn DEF Labels, CommandLabels, UninstallerLabels
  <2>2. /\ version' \in [Versions -> Content] /\ staging' \in [Programs -> Content]
        /\ \A q \in Programs : staging'[q] \in {staging[q], "absent"}
        /\ version'[job[p].target] = "whole" /\ \A v \in Versions : v # job[p].target => version'[v] = version[v]
    BY <1>1, <1>4, Parts DEF DiskTyped, Content
  <2>3. DiskTyped' /\ ~Learns(p)
    BY <1>1, <1>2, <2>2, Parts DEF DiskTyped, Learns
  <2>4. TypeOK' /\ Staged' /\ LockOK' /\ SpareOK'
    BY <1>1, <1>2, <2>1, <2>2, <2>3, TypeStep, StagedStep, LockStep, SpareStep
  <2>5. LinkOK'
    <3>1. \A q \in Programs : q # p => work'[q].at = work[q].at /\ job'[q] = job[q]
      BY <2>1, Parts, AllWork DEF Mover
    <3>2. \A v \in Versions : version[v] = "whole" => version'[v] = "whole"
      BY <2>2
    <3>3. current \in Versions \cup {None} /\ \A q \in Programs : work[q].at = "swap" => job[q].target \in Versions
      BY Parts, InstallerAt DEF DiskTyped, InstallerLabels
    <3>4. torn \/ looted \/ (current # None => version'[current] = "whole")
      BY <3>2, <3>3 DEF IInv, LinkOK
    <3>5. torn \/ looted \/ \A q \in Programs : work'[q].at = "swap" => version'[job'[q].target] = "whole"
      BY <1>2, <2>2, <3>1, <3>2, <3>3 DEF IInv, LinkOK
    <3> QED BY <1>2, <3>4, <3>5 DEF LinkOK
  <2> QED BY <2>1, <2>4, <2>5 DEF IInv
<1> QED BY <1>3, <1>4 DEF Place

LEMMA SwapStep ==
  ASSUME IInv, NEW p \in Programs, Swap(p)
  PROVE  IInv'
<1>1. /\ work[p].at = "swap" /\ work[p].role \in Installers /\ Holds(work[p]) /\ HasLooked(work[p])
      /\ job[p].target \in Versions
  BY InstallerAt DEF Swap, At, InstallerLabels, HasLooked
<1>2. RunsTyped' /\ UNCHANGED <<command, job, there, version, staging, torn, looted, runtime>>
  BY SameRuns DEF Swap
<1>3. CASE Throw(p) /\ UNCHANGED current
  <2>1. Mover(p) /\ OwnOK' /\ ~Learns(p) /\ work'[p].at \notin {"place", "swap"}
    BY <1>2, <1>3, Throws
  <2>2. DiskTyped'
    BY <1>2, <1>3, SameDisk DEF prefix
  <2> QED BY <1>1, <1>2, <1>3, <2>1, <2>2, CalmStep
<1>4. CASE current' = job[p].target /\ Go(p, [work[p] EXCEPT !.at = "look", !.nth = 1])
  <2>1. work[p] \in WorkType /\ "look" \in Labels \cup {"idle"} /\ 1 \in 1..3 /\ 1 <= Len(Names(work[p].role))
    <3>1. work[p] \in WorkType /\ work[p].role \in Roles
      BY Parts DEF WorkOK, WorkType
    <3>2. Len(Names(work[p].role)) \in 1..3
      BY <3>1, NamesSize
    <3>3. PICK size \in 1..3 : size = Len(Names(work[p].role))
      BY <3>2
    <3>4. 1 <= size
      BY <3>3
    <3>5. 1 <= Len(Names(work[p].role))
      BY <3>3, <3>4
    <3>6. "look" \in Labels \cup {"idle"}
      BY DEF Labels
    <3> QED BY <3>1, <3>5, <3>6
  <2>2. PICK v : v = [work[p] EXCEPT !.at = "look", !.nth = 1]
    OBVIOUS
  <2>3. Locals(v, work[p].role, "look", 1, work[p].own, work[p].same)
    BY <2>1, <2>2, Renumbered
  <2>4. /\ OthersPeers(p) /\ work'[p] \in WorkType /\ Placed(work'[p]) /\ OwnOK'
        /\ work'[p].role = work[p].role /\ work'[p].at = "look"
    BY <1>1, <1>2, <1>4, <2>1, <2>2, <2>3, Moves DEF Labels, InstallerLabels, UninstallerLabels
  <2>5. Mover(p)
    BY <1>1, <1>2, <2>4, JobKept DEF Mover
  <2>6. DiskTyped' /\ ~Learns(p)
    BY <1>1, <1>2, <1>4, Parts DEF DiskTyped, Learns
  <2>7. TypeOK' /\ Staged' /\ LockOK' /\ SpareOK'
    BY <1>1, <1>2, <2>4, <2>5, <2>6, TypeStep, StagedStep, LockStep, SpareStep
  <2>8. LinkOK'
    <3>1. \A q \in Programs : work'[q].at = "swap" => work[q].at = "swap"
      BY <2>4, <2>5, Parts, AllWork
    <3>2. torn \/ looted \/ version[job[p].target] = "whole"
      BY <1>1 DEF IInv, LinkOK
    <3> QED BY <1>2, <1>4, <3>1, <3>2 DEF IInv, LinkOK
  <2> QED BY <2>4, <2>7, <2>8 DEF IInv
<1> QED BY <1>3, <1>4 DEF Swap

\* Whoever holds the lock is the only one, unless a removal has been at it: none is left without it.
LEMMA UnlockStep ==
  ASSUME IInv, NEW p \in Programs, Unlock(p)
  PROVE  IInv'
<1>1. work[p].at = "cleanup" /\ Holds(work[p]) /\ there' = there \ {"lock"}
  BY InstallerAt DEF Unlock, At, InstallerLabels
<1>2. RunsTyped' /\ UNCHANGED <<command, version, current, torn, looted, runtime>>
  BY SameRuns DEF Unlock
<1>3. /\ Mover(p) /\ OwnOK' /\ ~Learns(p) /\ ~Holds(work'[p])
      /\ work'[p].at \notin {"place", "swap"}
  BY <1>2, Ends DEF Unlock
<1>4. staging' \in [Programs -> Content] /\ \A q \in Programs : q # p => staging'[q] = staging[q]
  BY Parts DEF Unlock, DiskTyped, Content
<1>5. DiskTyped'
  BY <1>1, <1>2, <1>4, Parts DEF DiskTyped
<1>6. TypeOK' /\ Staged' /\ LinkOK' /\ SpareOK'
  BY <1>2, <1>3, <1>4, <1>5, TypeStep, StagedStep, LinkStep, SpareStep
<1>7. LockOK'
  <2>1. looted \/ \A q \in Programs : Holds(work[q]) => q = p
    BY <1>1, HoldsIsHolding DEF IInv, LockOK
  <2>2. looted \/ \A q \in Programs : ~Holds(work'[q])
    BY <1>3, <2>1, Parts, AllWork
  <2>3. \A q \in Programs : Holding(q)' <=> Holds(work'[q])
    BY DEF Holding, Holds
  <2> QED BY <1>2, <2>2, <2>3 DEF LockOK
<1> QED BY <1>3, <1>6, <1>7 DEF IInv

-----------------------------------------------------------------------------
(* The start of a program, and the steps of uninstall.mjs.                   *)

LEMMA BeginStep ==
  ASSUME IInv, NEW p \in Programs, NEW role \in Roles, NEW v \in Versions, NEW nth \in 1..2,
         nth = 1 \/ role = "remove", Begin(p, role, v, nth)
  PROVE  IInv'
<1>1. PICK at : at = IF role \in Installers THEN "start" ELSE IF role = "uninstall" THEN "marker" ELSE "look"
  OBVIOUS
<1>2. at \in {"start", "marker", "look"} /\ at \in Labels \cup {"idle"}
  BY <1>1 DEF Labels
<1>3. PICK w : w = [Resting EXCEPT !.role = role, !.nth = nth, !.at = at]
  OBVIOUS
<1>4. Locals(w, role, at, nth, FALSE, FALSE)
  <2>1. PICK r \in WorkType : r = Resting /\ r.own = FALSE /\ r.same = FALSE
    BY RestingLocals DEF Locals
  <2>2. w = [r EXCEPT !.role = role, !.nth = nth, !.at = at]
    BY <1>3, <2>1
  <2>3. nth \in 1..3
    OBVIOUS
  <2> HIDE DEF Resting
  <2>4. w \in WorkType
    BY <1>2, <2>1, <2>2, <2>3 DEF WorkType
  <2>5. w.role = role /\ w.nth = nth /\ w.at = at /\ w.own = r.own /\ w.same = r.same
    BY <2>1, <2>2 DEF WorkType
  <2> QED BY <2>1, <2>4, <2>5 DEF Locals
<1>5. Go(p, w) /\ command' = command /\ UNCHANGED <<there, version, current, torn, looted, runtime, meddles>>
  BY <1>1, <1>3 DEF Begin
<1>6. OthersPeers(p) /\ work'[p] = w /\ \A q \in Programs : q # p => work'[q] = work[q]
  BY <1>5, Parts, Goes
<1>7. Placed(w)
  <2>1. Len(Names(role)) \in 1..3 /\ (role \notin Installers => Len(Names(role)) = 2)
    BY NamesSize
  <2>2. role = "remove" => role \notin Installers
    BY RolesApart
  <2>3. nth <= Len(Names(role))
    BY <2>1, <2>2
  <2> QED BY <1>1, <1>2, <1>4, <2>3 DEF Placed, Locals, InstallerLabels, UninstallerLabels
<1>8. \A files : OwnRecord(files, w)
  BY <1>2, <1>4 DEF OwnRecord, Locals
<1>9. OwnOK'
  BY <1>5, <1>6, <1>8 DEF OwnOK, IInv
<1>10. job \in [Programs -> JobType] /\ {None} \cup Versions \subseteq Versions \cup {None}
  BY Parts
<1>11. /\ job' \in [Programs -> JobType] /\ \A q \in Programs : q # p => job'[q] = job[q]
       /\ job'[p].began = job[p].began
       /\ role \in Installers => job'[p].target \in Versions
  BY <1>10 DEF Begin, JobType
<1>12. Mover(p)
  BY <1>4, <1>6, <1>7, <1>11 DEF Mover, Locals, IInv, SpareOK
<1>13. ~Learns(p) /\ ~Holds(work'[p]) /\ work'[p].at \notin {"place", "swap"}
  BY <1>1, <1>2, <1>4, <1>6 DEF Learns, HasLooked, Holds, Locals, Working, Installers
<1>14. staging' \in [Programs -> Content] /\ \A q \in Programs : q # p => staging'[q] = staging[q]
  BY Parts DEF Begin, DiskTyped, Content
<1>15. DiskTyped'
  BY <1>5, <1>14, Parts DEF DiskTyped
<1>16. RunsTyped'
  BY <1>5, Parts, InstallationAssumption DEF Begin, RunsTyped, runtime
<1> QED BY <1>5, <1>9, <1>12, <1>13, <1>14, <1>15, <1>16, CalmStep

LEMMA ConfirmStep ==
  ASSUME IInv, NEW p \in Programs, Confirm(p)
  PROVE  IInv'
<1>1. work[p].at = "marker" /\ work[p].role = "uninstall"
  BY InstallerAt DEF Confirm, At, UninstallerLabels
<1>2. DiskTyped' /\ RunsTyped' /\ UNCHANGED <<command, prefix, runtime>>
  BY SameDisk, SameRuns DEF Confirm
<1>3. CASE To(p, "stop") /\ UNCHANGED job
  <2>1. Mover(p) /\ OwnOK' /\ work'[p].role = work[p].role /\ work'[p].at = "stop"
    BY <1>1, <1>2, <1>3, MovesOn DEF Labels, CommandLabels, InstallerLabels
  <2>2. ~Learns(p) /\ ~Holds(work'[p])
    BY <1>1, <2>1, RolesApart DEF Learns, HasLooked, Holds
  <2> QED BY <1>2, <2>1, <2>2, CalmStep DEF prefix
<1>4. CASE End(p)
  <2>1. Mover(p) /\ OwnOK' /\ ~Learns(p) /\ ~Holds(work'[p]) /\ work'[p].at \notin {"place", "swap"}
    BY <1>2, <1>4, Ends
  <2> QED BY <1>2, <2>1, CalmStep DEF prefix
<1> QED BY <1>3, <1>4 DEF Confirm

(* What stopManagedState() returns with: nothing runs, or no record is left. *)
LEMMA StoppedStep ==
  ASSUME IInv, NEW p \in Programs, Stopped(p), work[p].role = "uninstall",
         UNCHANGED <<command, prefix, runtime, bounds>>, ~Active
  PROVE  IInv'
<1>1. DiskTyped' /\ RunsTyped' /\ RunsTyped /\ job \in [Programs -> JobType]
  BY SameDisk, SameRuns, Parts
<1>2. work[p] \in WorkType /\ Placed(work[p]) /\ "look" \in Labels
  BY Parts DEF WorkOK, Labels
<1>3. To(p, "look")
  BY DEF Stopped, To
<1>4. /\ OthersPeers(p) /\ work'[p] \in WorkType /\ Placed(work'[p]) /\ OwnOK'
      /\ work'[p].role = work[p].role /\ work'[p].at = "look"
  BY <1>2, <1>3, MovesTo DEF InstallerLabels, UninstallerLabels
<1>5. /\ job' \in [Programs -> JobType] /\ \A q \in Programs : q # p => job'[q] = job[q]
      /\ job'[p].began = starts
  <2>1. starts \in 0..MaxStarts /\ 0 \in 0..MaxStarts
    BY <1>1, InstallationAssumption DEF RunsTyped
  <2>2. job' = [job EXCEPT ![p].began = starts, ![p].run = 0]
    BY DEF Stopped
  <2> QED BY <1>1, <2>1, <2>2 DEF JobType
<1>6. work'[p].role \notin Installers
  BY <1>4, RolesApart
<1>7. Mover(p)
  BY <1>1, <1>4, <1>5, <1>6 DEF Mover, RunsTyped
<1>8. TypeOK' /\ Staged' /\ LockOK' /\ LinkOK'
  BY <1>1, <1>4, <1>6, <1>7, TypeStep, StagedStep, LockStep, LinkStep DEF prefix, Holds
<1>9. SpareOK'
  <2>1. \A q \in Programs : job'[q].began <= starts
    BY <1>1, <1>5 DEF IInv, SpareOK, RunsTyped
  <2>2. ~Active' /\ starts' = starts
    BY DEF Active, runtime
  <2> QED BY <2>1, <2>2 DEF SpareOK
<1> QED BY <1>4, <1>8, <1>9 DEF IInv

LEMMA StopStep ==
  ASSUME IInv, NEW p \in Programs, Stop(p)
  PROVE  IInv'
<1>1. work[p].at = "stop" /\ work[p].role = "uninstall"
  BY InstallerAt DEF Stop, At, UninstallerLabels
<1>2. DiskTyped' /\ RunsTyped' /\ RunsTyped /\ UNCHANGED <<command, prefix, runtime, bounds>> /\ job \in [Programs -> JobType]
  BY SameDisk, SameRuns, Parts DEF Stop
<1>3. CASE ~Active /\ Stopped(p)
  BY <1>1, <1>2, <1>3, StoppedStep
<1>4. CASE To(p, "await") /\ job' = [job EXCEPT ![p].run = record]
  <2>1. /\ OthersPeers(p) /\ work'[p] \in WorkType /\ Placed(work'[p]) /\ OwnOK'
        /\ work'[p].role = work[p].role /\ work'[p].at = "await"
    BY <1>1, <1>2, <1>4, MovesTo DEF Labels, InstallerLabels
  <2>2. record \in 0..MaxStarts
    BY <1>2, InstallationAssumption DEF RunsTyped
  <2>3. /\ job' \in [Programs -> JobType] /\ \A q \in Programs : q # p => job'[q] = job[q]
        /\ job'[p].began = job[p].began
    BY <1>2, <1>4, <2>2 DEF JobType
  <2>4. work'[p].role \notin Installers
    BY <1>1, <2>1, RolesApart
  <2>5. Mover(p)
    BY <2>1, <2>3, <2>4 DEF Mover, IInv, SpareOK
  <2>6. ~Learns(p) /\ ~Holds(work'[p])
    BY <1>1, <2>1, <2>4 DEF Learns, HasLooked, Holds
  <2> QED BY <1>2, <2>1, <2>5, <2>6, CalmStep DEF prefix
<1> QED BY <1>3, <1>4 DEF Stop

LEMMA AwaitStep ==
  ASSUME IInv, NEW p \in Programs, Await(p)
  PROVE  IInv'
<1>1. work[p].at = "await" /\ work[p].role = "uninstall"
  BY InstallerAt DEF Await, AwaitEnd, At, UninstallerLabels
<1>2. DiskTyped' /\ RunsTyped' /\ UNCHANGED <<command, prefix, runtime, bounds>>
  BY SameDisk, SameRuns DEF Await
<1>3. CASE record = 0 /\ Stopped(p)
  BY <1>1, <1>2, <1>3, StoppedStep DEF Active
<1>4. CASE End(p)
  <2>1. Mover(p) /\ OwnOK' /\ ~Learns(p) /\ ~Holds(work'[p]) /\ work'[p].at \notin {"place", "swap"}
    BY <1>2, <1>4, Ends
  <2> QED BY <1>2, <2>1, CalmStep DEF prefix
<1> QED BY <1>3, <1>4 DEF Await, AwaitEnd

\* A removal that takes the lock of an installer at work is on the books: looted.
LEMMA RemoveEntryStep ==
  ASSUME IInv, NEW p \in Programs, RemoveEntry(p)
  PROVE  IInv'
<1>1. torn' = TRUE /\ UNCHANGED <<command, work, job, runtime, bounds>> /\ RunsTyped' /\ DiskTyped
  BY SameRuns, Parts DEF RemoveEntry
<1>2. \/ \E e \in there \ {"prefix"} : /\ there' = there \ {e}
                                       /\ looted' = (looted \/ (e = "lock" /\ \E q \in Programs : Holding(q)))
                                       /\ UNCHANGED <<version, staging, current>>
      \/ /\ \E v \in Versions : version' = [version EXCEPT ![v] = IF @ = "whole" THEN "damaged" ELSE "absent"]
         /\ UNCHANGED <<there, staging, current, looted>>
      \/ /\ \E q \in Programs : staging' = [staging EXCEPT ![q] = "absent"]
         /\ UNCHANGED <<there, version, current, looted>>
      \/ current' = None /\ UNCHANGED <<there, version, staging, looted>>
  BY DEF RemoveEntry
<1>3. version' \in [Versions -> Content] /\ current' \in Versions \cup {None}
  BY <1>1, <1>2 DEF DiskTyped, Content
<1>4. staging' \in [Programs -> Content] /\ \A q \in Programs : staging'[q] \in {staging[q], "absent"}
  BY <1>1, <1>2 DEF DiskTyped, Content
<1>5. there' \subseteq {"prefix", "marker", "lock"} /\ (there' # {} => "prefix" \in there')
  BY <1>1, <1>2 DEF DiskTyped
<1>6. looted' \in BOOLEAN /\ (looted => looted')
      /\ (looted' \/ ("lock" \in there => "lock" \in there') \/ \A q \in Programs : ~Holding(q))
  <2>1. looted \in BOOLEAN
    BY <1>1 DEF DiskTyped
  <2>2. CASE UNCHANGED <<there, looted>>
    BY <2>1, <2>2
  <2>3. ASSUME NEW e \in there \ {"prefix"}, there' = there \ {e},
               looted' = (looted \/ (e = "lock" /\ \E q \in Programs : Holding(q)))
        PROVE  /\ looted' \in BOOLEAN /\ (looted => looted')
               /\ looted' \/ ("lock" \in there => "lock" \in there') \/ \A q \in Programs : ~Holding(q)
    <3>1. looted' \in BOOLEAN /\ (looted => looted')
      BY <2>1, <2>3
    <3>2. CASE e = "lock"
      BY <2>3, <3>2, Zenon
    <3>3. CASE e # "lock"
      BY <2>3, <3>3
    <3> QED BY <3>1, <3>2, <3>3
  <2> QED BY <1>2, <2>2, <2>3
<1>7. TypeOK'
  BY <1>1, <1>3, <1>4, <1>5, <1>6 DEF IInv, TypeOK, RunsTyped, DiskTyped
<1>8. Staged'
  BY <1>1, <1>4 DEF IInv, Staged
<1>9. LockOK'
  <2>1. \A q \in Programs : Holding(q)' <=> Holding(q)
    BY <1>1 DEF Holding
  <2> QED BY <1>6, <2>1 DEF IInv, LockOK
<1>10. LinkOK' /\ SpareOK' /\ OwnOK'
  <2>1. LinkOK'
    BY <1>1 DEF LinkOK
  <2>2. SpareOK'
    BY <1>1 DEF IInv, SpareOK, Active, runtime
  <2> QED BY <1>1, <2>1, <2>2 DEF IInv, OwnOK
<1> QED BY <1>7, <1>8, <1>9, <1>10 DEF IInv

LEMMA RootMoves ==
  ASSUME IInv, NEW p \in Programs, NEW root \in Roots, RemoveRoot(p, root)
  PROVE  /\ Mover(p) /\ ~Learns(p) /\ ~Holds(work'[p]) /\ work'[p].at \notin {"place", "swap"}
         /\ \A q \in Programs : work'[q] = work[q] \/ work'[q] = Resting
<1>1. work[p].at = "remove" /\ work[p].role = "uninstall"
  BY InstallerAt DEF RemoveRoot, At, UninstallerLabels
<1>2. WorkOK /\ job \in [Programs -> JobType] /\ \A q \in Programs : Peer(work[q], work[q])
  BY Parts, PeerRefl DEF WorkOK
<1>3. command' \in CommandType
  <2>1. command' = command \/ command' = [command EXCEPT ![Script] = None]
    BY DEF RemoveRoot, Roots
  <2> QED BY <1>2, <2>1 DEF CommandType, WorkOK
<1>4. work[p].role \notin Installers
  BY <1>1, RolesApart
<1>5. CASE End(p)
  <2>1. work' = [work EXCEPT ![p] = Resting] /\ job' = [job EXCEPT ![p] = NoJob]
    BY <1>5 DEF End, Go
  <2>2. /\ work' = [q \in Programs |-> work'[q]] /\ work'[p] = Resting
        /\ \A q \in Programs : q # p => work'[q] = work[q]
    BY <1>2, <2>1 DEF WorkOK
  <2>3. OthersPeers(p)
    BY <1>2, <1>3, <2>2 DEF OthersPeers
  <2>4. Onward(work[p], Resting)
    BY <1>4, RestingOnward
  <2>5. Mover(p)
    BY <2>1, <2>2, <2>3, <2>4, JobGone, NoJobTyped DEF Mover, Onward
  <2> QED BY <2>2, <2>5, NoJobTyped DEF Learns
<1>6. CASE job' = [job EXCEPT ![p].left = @ \ {root}] /\ UNCHANGED work
  <2>1. /\ job' \in [Programs -> JobType] /\ \A q \in Programs : q # p => job'[q] = job[q]
        /\ job'[p].began = job[p].began
    BY <1>2, <1>6 DEF JobType
  <2>2. OthersPeers(p)
    BY <1>2, <1>3, <1>6 DEF OthersPeers, WorkOK
  <2>3. work'[p] \in WorkType /\ Placed(work'[p])
    BY <1>2, <1>6 DEF WorkOK
  <2>4. Mover(p)
    BY <1>4, <1>6, <2>1, <2>2, <2>3 DEF Mover, IInv, SpareOK
  <2> QED BY <1>1, <1>4, <1>6, <2>1, <2>4 DEF Learns, Holds
<1> QED BY <1>5, <1>6 DEF RemoveRoot

LEMMA ScriptApart == Script \notin Commands /\ Script \in Files
BY DEF Script, Commands, Files

LEMMA RemoveRootStep ==
  ASSUME IInv, NEW p \in Programs, NEW root \in Roots, RemoveRoot(p, root)
  PROVE  IInv'
<1>1. /\ Mover(p) /\ ~Learns(p) /\ ~Holds(work'[p]) /\ work'[p].at \notin {"place", "swap"}
      /\ \A q \in Programs : work'[q] = work[q] \/ work'[q] = Resting
  BY RootMoves
<1>2. UNCHANGED <<version, staging, current, looted, live, starts, bounds>> /\ DiskTyped /\ RunsTyped
  BY Parts DEF RemoveRoot
<1>3. \/ /\ Empty /\ there' = {} /\ torn' = FALSE /\ UNCHANGED <<command, record>>
      \/ command' = [command EXCEPT ![Script] = None] /\ UNCHANGED <<there, torn, record>>
      \/ record' = 0 /\ UNCHANGED <<command, there, torn>>
  BY DEF RemoveRoot, Roots
<1>4. DiskTyped' /\ RunsTyped'
  <2>1. DiskTyped'
    BY <1>2, <1>3 DEF DiskTyped
  <2>2. RunsTyped'
    BY <1>2, <1>3 DEF RunsTyped, bounds
  <2> QED BY <2>1, <2>2
<1>5. TypeOK' /\ Staged'
  BY <1>1, <1>2, <1>4, TypeStep, StagedStep
<1>6. \A q \in Programs : Holding(q)' <=> Holds(work'[q])
  BY DEF Holding, Holds
<1>7. \A q \in Programs : Holds(work'[q]) => Holds(work[q])
  BY <1>1, Parts, AllWork
<1>8. Empty => looted \/ \A q \in Programs : ~Holds(work[q])
  BY HoldsIsHolding DEF IInv, LockOK, Empty
<1>9. LockOK'
  BY <1>2, <1>3, <1>6, <1>7, <1>8, HoldsIsHolding DEF IInv, LockOK
<1>10. LinkOK'
  <2>1. \A q \in Programs : work'[q].at = "swap" => work[q].at = "swap" /\ job'[q] = job[q]
    BY <1>1, Parts, AllWork DEF Mover
  <2>2. CASE Empty /\ there' = {} /\ torn' = FALSE
    <3>1. \A q \in Programs : work[q].at = "swap" => Holds(work[q])
      BY InstallerAt DEF InstallerLabels
    <3> QED BY <1>2, <1>8, <2>1, <2>2, <3>1 DEF LinkOK, Empty
  <2>3. CASE torn' = torn
    BY <1>2, <2>1, <2>3 DEF IInv, LinkOK
  <2> QED BY <1>3, <2>2, <2>3
<1>11. SpareOK'
  <2>1. CASE record' = record
    BY <1>1, <1>2, <2>1, SpareStep DEF runtime
  <2>2. CASE record' = 0
    <3>1. ~Active'
      BY <2>2 DEF Active
    <3>2. \A q \in Programs : job'[q].began <= starts
      BY <1>1 DEF Mover, IInv, SpareOK
    <3> QED BY <1>2, <3>1, <3>2 DEF SpareOK
  <2> QED BY <1>3, <2>1, <2>2
<1>12. OwnOK'
  <2> SUFFICES ASSUME NEW q \in Programs PROVE OwnRecord(command', work'[q])
    BY DEF OwnOK
  <2>1. OwnRecord(command, work[q]) /\ work[q] \in WorkType /\ Placed(work[q]) /\ command \in CommandType
    BY Parts DEF WorkOK, IInv, OwnOK
  <2>2. CASE work'[q] = Resting
    <3>1. work'[q].at = "idle"
      BY <2>2, NoJobTyped
    <3> QED BY <3>1 DEF OwnRecord
  <2>3. CASE work'[q] = work[q]
    <3>1. \A n \in Commands : command'[n] = command[n]
      BY <1>3, <2>1, ScriptApart DEF CommandType, Files
    <3>2. work[q].role \notin Installers => NameOf(work[q]) \in Commands
      BY <2>1, NamePlaced
    <3> QED BY <2>1, <2>3, <3>1, <3>2 DEF OwnRecord
  <2> QED BY <1>1, <2>2, <2>3
<1> QED BY <1>5, <1>9, <1>10, <1>11, <1>12 DEF IInv

-----------------------------------------------------------------------------
(* The command files, the service and the others.                            *)

LEMMA CommandingStep ==
  ASSUME IInv, NEW p \in Programs, Commanding(p)
  PROVE  IInv'
<1>1. /\ work[p].at \in CommandLabels
      /\ OthersPeers(p) /\ Follows(work[p], work'[p]) /\ OwnOK'
  BY Parts, CommandSteps DEF Commanding
<1>2. DiskTyped' /\ RunsTyped' /\ UNCHANGED <<prefix, runtime>>
  BY SameDisk, SameRuns DEF Commanding
<1>3. work'[p] = Resting \/ (job' = job /\ work'[p].role = work[p].role)
  BY <1>1 DEF Commanding, Follows, Onward
<1>4. work'[p].at \in CommandLabels \cup {"cleanup", "remove", "idle"}
  BY <1>1, NoJobTyped DEF Follows, Onward, CommandLabels
<1>5. work'[p] \in WorkType /\ Placed(work'[p])
  BY <1>1 DEF Follows
<1>6. Mover(p)
  <2>1. CASE work'[p] = Resting
    BY <1>1, <1>5, <2>1, JobGone, NoJobTyped DEF Commanding, Mover
  <2>2. CASE job' = job /\ work'[p].role = work[p].role
    BY <1>1, <1>5, <2>2, JobKept DEF Mover
  <2> QED BY <1>3, <2>1, <2>2
<1>7. ~Learns(p)
  <2>1. CASE work'[p] = Resting
    BY <2>1, NoJobTyped DEF Learns
  <2>2. CASE job' = job /\ work'[p].role = work[p].role
    BY <1>1, <1>4, <2>2 DEF Learns, HasLooked, CommandLabels
  <2> QED BY <1>3, <2>1, <2>2
<1>8. Holds(work'[p]) => Holds(work[p])
  <2>1. CASE work'[p] = Resting
    BY <2>1, NoJobTyped
  <2>2. CASE work'[p].role = work[p].role
    <3>1. work[p].at = "unlink" => work[p].role \notin Installers
      BY RolesApart DEF IInv, Staged, Placed
    <3> QED BY <1>1, <2>2, <3>1 DEF Holds, CommandLabels, Working
  <2> QED BY <1>3, <2>1, <2>2
<1>9. work'[p].at \notin {"place", "swap"}
  BY <1>4 DEF CommandLabels
<1> QED BY <1>1, <1>2, <1>6, <1>7, <1>8, <1>9, CalmStep DEF prefix

LEMMA ServiceStep ==
  ASSUME IInv, StartService \/ EndService
  PROVE  IInv'
<1>1. UNCHANGED <<command, work, job, prefix, bounds>> /\ DiskTyped' /\ RunsTyped
  BY SameDisk, Parts DEF StartService, EndService
<1>2. RunsTyped'
  <2>1. CASE StartService
    <3>1. starts \in Nat /\ starts < MaxStarts /\ starts' = starts + 1 /\ live' = starts' /\ record' = starts'
      BY <1>1, <2>1, InstallationAssumption DEF StartService, RunsTyped
    <3> QED BY <1>1, <3>1, InstallationAssumption DEF RunsTyped, bounds
  <2>2. CASE EndService
    BY <1>1, <2>2, InstallationAssumption DEF EndService, RunsTyped, bounds
  <2> QED BY <2>1, <2>2
<1>3. TypeOK'
  BY <1>1, <1>2 DEF IInv, TypeOK, DiskTyped, RunsTyped
<1>4. Staged' /\ OwnOK' /\ LinkOK'
  BY <1>1 DEF IInv, Staged, OwnOK, LinkOK, prefix
<1>5. LockOK'
  BY <1>1 DEF IInv, LockOK, Holding, prefix
<1>6. \A q \in Programs : job[q].began \in Nat /\ job[q].began <= starts
  BY Parts, InstallationAssumption DEF IInv, SpareOK, JobType
<1>7. SpareOK'
  <2>1. CASE StartService
    <3>1. starts \in Nat /\ starts' = starts + 1 /\ live' = starts'
      BY <1>1, <2>1, InstallationAssumption DEF StartService, RunsTyped
    <3> QED BY <1>1, <1>6, <3>1 DEF SpareOK
  <2>2. CASE EndService
    <3>1. ~Active' /\ starts' = starts
      BY <2>2 DEF EndService, Active
    <3> QED BY <1>1, <1>6, <3>1 DEF SpareOK
  <2> QED BY <2>1, <2>2
<1> QED BY <1>3, <1>4, <1>5, <1>7 DEF IInv

LEMMA OthersStep ==
  ASSUME IInv, Others
  PROVE  IInv'
<1>1. PICK n \in Commands : Meddle(n)
  BY DEF Others
<1>2. /\ work' = [q \in Programs |-> work'[q]]
      /\ \A q \in Programs : Peer(work[q], work'[q])
      /\ command' \in CommandType /\ OwnOK'
  BY <1>1, Parts, MeddleStep
<1>3. UNCHANGED <<job, prefix, runtime>> /\ RunsTyped' /\ DiskTyped'
  BY Parts, SameDisk, InstallationAssumption DEF Others, RunsTyped, runtime
<1>4. \A q \in Programs : /\ work'[q].role = work[q].role /\ work'[q].at = work[q].at
                          /\ work'[q] \in WorkType /\ Placed(work'[q])
  BY <1>2, Parts, PeerPlaced DEF Peer, WorkOK
<1>5. TypeOK'
  <2>1. work' \in [Programs -> WorkType] /\ \A q \in Programs : work'[q].nth <= Len(Names(work'[q].role))
    BY <1>2, <1>4 DEF Placed
  <2>2. job' \in [Programs -> JobType]
    BY <1>3, Parts
  <2> QED BY <1>2, <1>3, <2>1, <2>2 DEF TypeOK, DiskTyped, RunsTyped, WorkType, JobType, CommandType
<1>6. Staged' /\ LinkOK'
  BY <1>3, <1>4 DEF IInv, Staged, LinkOK, prefix
<1>7. LockOK'
  <2>1. \A q \in Programs : Holding(q)' <=> Holding(q)
    BY <1>4 DEF Holding
  <2> QED BY <1>3, <2>1 DEF IInv, LockOK, prefix
<1>8. SpareOK'
  <2>1. \A q \in Programs : HasLooked(work'[q]) <=> HasLooked(work[q])
    BY <1>4 DEF HasLooked
  <2> QED BY <1>3, <2>1 DEF IInv, SpareOK, Active, runtime
<1> QED BY <1>2, <1>5, <1>6, <1>7, <1>8 DEF IInv

-----------------------------------------------------------------------------
LEMMA ProgramStep ==
  ASSUME IInv, NEW p \in Programs, Program(p)
  PROVE  IInv'
<1>1. CASE \E role \in Roles, v \in Versions, nth \in 1..2 : (nth = 1 \/ role = "remove") /\ Begin(p, role, v, nth)
  BY <1>1, BeginStep
<1>2. CASE Crash(p) \/ Fails(p) \/ Commanding(p)
  BY <1>2, CrashStep, FailsStep, CommandingStep
<1>3. CASE Install(p)
  BY <1>3, StartStep, MarkStep, LockTaken, InspectStep, CopyStep, PlaceStep, SwapStep, UnlockStep DEF Install
<1>4. CASE Uninstall(p)
  BY <1>4, ConfirmStep, StopStep, AwaitStep, RemoveEntryStep, RemoveRootStep DEF Uninstall
<1> QED BY <1>1, <1>2, <1>3, <1>4 DEF Program

LEMMA Initially ==
  ASSUME Init
  PROVE  IInv
<1>1. \A p \in Programs : work[p] = Resting /\ job[p] = NoJob /\ staging[p] = "absent"
  BY DEF Init
<1>2. Resting \in WorkType /\ Placed(Resting) /\ Resting.at = "idle" /\ Resting.role \notin Installers
  <2>1. PICK w \in WorkType : w = Resting
    BY RestingLocals DEF Locals
  <2> QED BY <2>1, NoJobTyped, RestingOnward DEF Onward
<1>3. NoJob \in JobType /\ NoJob.began = 0
  BY NoJobTyped
<1>4. TypeOK
  <2>1. work \in [Programs -> WorkType] /\ \A p \in Programs : work[p].nth <= Len(Names(work[p].role))
    BY <1>1, <1>2 DEF Init, Placed
  <2>2. job \in [Programs -> JobType] /\ command \in CommandType
    BY <1>3 DEF Init, CommandType
  <2>3. DiskTyped /\ RunsTyped
    <3>1. DiskTyped
      BY DEF Init, DiskTyped, Content
    <3>2. 0 \in 0..MaxStarts /\ 0 \in 0..MaxPrograms /\ 0 \in 0..MaxMeddles /\ 0 \in 0..0
      BY InstallationAssumption
    <3>3. record = 0 /\ live = 0 /\ starts = 0 /\ programs = 0 /\ meddles = 0
      BY DEF Init
    <3>4. RunsTyped
      BY <3>2, <3>3 DEF RunsTyped
    <3> QED BY <3>1, <3>4
  <2> QED BY <2>1, <2>2, <2>3 DEF TypeOK, WorkType, JobType, CommandType, DiskTyped, RunsTyped
<1>5. Staged /\ LinkOK
  BY <1>1, <1>2 DEF Init, Staged, LinkOK
<1>6. LockOK
  BY <1>1, <1>2 DEF LockOK, Holding
<1>7. SpareOK
  BY <1>1, <1>3 DEF Init, SpareOK, Active
<1>8. OwnOK
  BY <1>1, <1>2 DEF OwnOK, OwnRecord
<1> QED BY <1>4, <1>5, <1>6, <1>7, <1>8 DEF IInv

LEMMA Inductive ==
  ASSUME IInv, [Next]_vars
  PROVE  IInv'
<1>1. CASE \E p \in Programs : Program(p)
  BY <1>1, ProgramStep
<1>2. CASE StartService \/ EndService
  BY <1>2, ServiceStep
<1>3. CASE Others
  BY <1>3, OthersStep
<1>4. CASE UNCHANGED vars
  <2>1. UNCHANGED <<command, work, job, prefix, runtime, bounds>>
    BY <1>4 DEF vars
  <2>2. TypeOK'
    BY <2>1 DEF IInv, TypeOK, prefix, runtime, bounds
  <2>3. Staged' /\ LockOK' /\ LinkOK' /\ OwnOK'
    BY <2>1 DEF IInv, Staged, LockOK, Holding, LinkOK, OwnOK, prefix
  <2>4. SpareOK'
    BY <2>1 DEF IInv, SpareOK, Active, runtime
  <2> QED BY <2>2, <2>3, <2>4 DEF IInv
<1> QED BY <1>1, <1>2, <1>3, <1>4 DEF Next

(* The inductive invariant: who may be where, the lock, the link, what is    *)
(* known of the service, and what was seen of a command file.                *)
THEOREM IInvInvariant == Spec => []IInv
<1>1. Init => IInv
  BY Initially
<1>2. IInv /\ [Next]_vars => IInv'
  BY Inductive
<1> QED BY <1>1, <1>2, PTL DEF Spec

(* The types of install.mjs's and uninstall.mjs's state.                     *)
THEOREM TypeCorrect == Spec => []TypeOK
<1>1. IInv => TypeOK
  BY DEF IInv
<1> QED BY <1>1, IInvInvariant, PTL

(* The link that current() is read by leads to a whole version, wherever     *)
(* installers stop, fail or meet, unless a removal has gone on under them.   *)
THEOREM CurrentIsCompleteHolds == Spec => []CurrentIsComplete
<1>1. IInv => CurrentIsComplete
  BY DEF IInv, LinkOK, CurrentIsComplete
<1> QED BY <1>1, IInvInvariant, PTL

-----------------------------------------------------------------------------
LEMMA Undisturbed ==
  ASSUME Active, UNCHANGED <<version, current, runtime>>
  PROVE  ~Disturbs
BY DEF Active, Disturbs, runtime

LEMMA KnownToRun ==
  ASSUME IInv, NEW p \in Programs, work[p].at \in {"swap", "remove"}, Active
  PROVE  live > job[p].began
<1>1. HasLooked(work[p])
  BY InstallerAt DEF UninstallerLabels, HasLooked
<1> QED BY <1>1 DEF IInv, SpareOK

LEMMA Spares ==
  ASSUME IInv, Active, Disturbs, Next
  PROVE  \E p \in Programs : work[p].at \in {"swap", "remove"} /\ live > job[p].began
<1>1. CASE StartService \/ EndService
  BY <1>1 DEF StartService, EndService, Active, Disturbs, prefix
<1>2. CASE Others
  BY <1>2, Undisturbed DEF Others, prefix
<1>3. ASSUME NEW p \in Programs, Program(p)
      PROVE  work[p].at \in {"swap", "remove"}
  <2>1. CASE \E role \in Roles, v \in Versions, nth \in 1..2 : Begin(p, role, v, nth)
    BY <2>1, Undisturbed DEF Begin
  <2>2. CASE Crash(p) \/ Fails(p) \/ Commanding(p)
    BY <2>2, Undisturbed DEF Crash, Fails, Commanding, prefix
  <2>3. CASE Place(p)
    <3>1. job[p].target \in Versions /\ version \in [Versions -> Content]
      BY <2>3, InstallerAt, Parts DEF Place, At, InstallerLabels, DiskTyped
    <3>2. UNCHANGED <<current, runtime>>
      BY <2>3 DEF Place
    <3>3. \A v \in Versions : version[v] = "whole" => version'[v] = "whole"
      BY <2>3, <3>1 DEF Place
    <3> QED BY <3>2, <3>3 DEF Disturbs, Active, runtime
  <2>4. CASE Start(p) \/ Mark(p) \/ Lock(p) \/ Inspect(p) \/ Copy(p) \/ Unlock(p)
    BY <2>4, Undisturbed DEF Start, Mark, Lock, Inspect, Copy, Unlock, prefix
  <2>5. CASE Confirm(p) \/ Stop(p) \/ Await(p)
    BY <2>5, Undisturbed DEF Confirm, Stop, Await, prefix
  <2>6. CASE Swap(p) \/ RemoveEntry(p) \/ \E root \in Roots : RemoveRoot(p, root)
    BY <2>6 DEF Swap, RemoveEntry, RemoveRoot, At
  <2> QED BY <1>3, <2>1, <2>2, <2>3, <2>4, <2>5, <2>6 DEF Program, Install, Uninstall
<1> QED BY <1>1, <1>2, <1>3, KnownToRun DEF Next

(* No link moves, no file goes and no record is dropped under an active      *)
(* service but one started after the program's look at the service.          *)
THEOREM ServiceIsSparedHolds == Spec => ServiceIsSpared
<1>1. IInv /\ [Next]_vars
        => [Active /\ Disturbs => \E p \in Programs : work[p].at \in {"swap", "remove"} /\ live > job[p].began]_vars
  BY Spares
<1> QED BY <1>1, IInvInvariant, PTL DEF Spec, ServiceIsSpared

LEMMA WritesOwn ==
  ASSUME IInv, NEW p \in Programs, CommandStep(p), NEW n \in Commands, command[n] # None, command'[n] # command[n]
  PROVE  work[p].own
<1>1. WorkOK /\ OwnRecord(command, work[p]) /\ Name(p) = NameOf(work[p]) /\ n \in Files /\ n # Script
  BY Parts, ScriptApart DEF IInv, OwnOK, Name, NameOf, Files
<1>2. ASSUME NEW owner, Write(p, owner)
      PROVE  n = NameOf(work[p])
  <2>1. command' = [command EXCEPT ![NameOf(work[p])] = owner]
    BY <1>1, <1>2 DEF Write
  <2> QED BY <1>1, <2>1 DEF WorkOK, CommandType
<1>3. CASE Look(p) \/ Stat(p) \/ Compare(p)
  BY <1>3 DEF Look, Stat, Compare
<1>4. CASE Link(p)
  BY <1>1, <1>2, <1>4 DEF Link
<1>5. CASE Rename(p) \/ Unlink(p)
  <2>1. work[p].at \in {"rename", "unlink"} /\ \E owner : Write(p, owner)
    BY <1>5 DEF Rename, Unlink, At
  <2> QED BY <1>1, <1>2, <2>1 DEF OwnRecord
<1> QED BY <1>3, <1>4, <1>5 DEF CommandStep

LEMMA TakenOwn ==
  ASSUME IInv, Next, NEW p \in Programs, Takes(p)
  PROVE  work[p].own
<1>1. PICK n \in Commands : /\ command[n] \notin {None, Header(work[p])}
                            /\ command'[n] # command[n]
                            /\ work'[p].at # work[p].at
  BY DEF Takes
<1>2. CASE StartService \/ EndService
  BY <1>1, <1>2 DEF StartService, EndService
<1>3. CASE Others
  <2>1. Peer(work[p], work'[p])
    BY <1>3, Parts, MeddleStep DEF Others
  <2> QED BY <1>1, <2>1 DEF Peer
<1>4. ASSUME NEW q \in Programs, Program(q)
      PROVE  work[p].own
  <2>1. CASE Commanding(q)
    <3>1. q # p => Peer(work[p], work'[p])
      BY <2>1, Parts, CommandSteps DEF Commanding, OthersPeers
    <3>2. q = p
      BY <1>1, <3>1 DEF Peer
    <3> QED BY <1>1, <2>1, <3>2, WritesOwn DEF Commanding
  <2>2. CASE \E root \in Roots : RemoveRoot(q, root)
    <3>1. command' = command \/ command' = [command EXCEPT ![Script] = None]
      BY <2>2 DEF RemoveRoot, Roots
    <3> QED BY <1>1, <3>1, Parts, ScriptApart DEF WorkOK, CommandType, Files
  <2>3. CASE command' = command
    BY <1>1, <2>3
  <2>4. Commanding(q) \/ (\E root \in Roots : RemoveRoot(q, root)) \/ command' = command
    BY <1>4 DEF Program, Install, Uninstall, Begin, Crash, Fails, Start, Mark, Lock, Inspect, Copy, Place, Swap,
                Unlock, Confirm, Stop, Await, RemoveEntry
  <2> QED BY <2>1, <2>2, <2>3, <2>4
<1> QED BY <1>2, <1>3, <1>4 DEF Next

(* A command file of another owner goes only under a program whose last look *)
(* there had seen its own: lookups, comparisons and exclusive links.         *)
THEOREM OthersAreKeptHolds == Spec => OthersAreKept
<1>1. IInv /\ [Next]_vars => [\A p \in Programs : Takes(p) => work[p].own]_<<command, work>>
  BY TakenOwn DEF vars
<1> QED BY <1>1, IInvInvariant, PTL DEF Spec, OthersAreKept
=============================================================================
