--------------------------- MODULE SkillsService ---------------------------
(***************************************************************************)
(* The skill service (src/skills/service.ts) with its caches (cache.ts),    *)
(* the scan of a root (scan.ts), the metadata (metadata.ts) and the guarded *)
(* reads (io.ts), while somebody edits the skill files.  An action is one   *)
(* await with the code up to the next.  A deadline may have passed at any   *)
(* check(), a time to live at any get(); byte budgets are part of the       *)
(* caches' capacities; every text has two pages, every list one.            *)
(***************************************************************************)
EXTENDS Naturals, Sequences, FiniteSets, SequencesExt

CONSTANTS Clients,      \* each makes one call at a time
          Followers,    \* those that ask for the second page
          Workdirs, Roots, Skills,
          RootsOf,      \* the roots of a workdir, in order: resolveScope()
          Home,         \* the root a skill lies in
          MaxActive,    \* calls that may run: 4
          Capacity,     \* entries of each cache
          MaxEdits,     \* bound: edits of the files
          None

ASSUME SkillsAssumption == /\ Followers \subseteq Clients
                           /\ RootsOf \in [Workdirs -> Seq(Roots)]
                           /\ Home \in [Skills -> Roots]
                           /\ {MaxActive, MaxEdits} \subseteq Nat
                           /\ Capacity \in Nat \ {0}

(* The files, and what a root or a workdir was found to hold.  text is the   *)
(* stamp of what is there, 0 for nothing.                                    *)
Rules == {"open", "explicit", "disabled"}
Files == [text : 0..MaxEdits, rule : Rules]
Seen == UNION {[S -> Files] : S \in SUBSET Skills}
Snapshots == [seen : Seen, complete : BOOLEAN]
Loads == [at : {"root", "scan"}, refresh : BOOLEAN, next : Nat, seen : Seen, complete : BOOLEAN]

ASSUME NoneAssumption == None \notin Snapshots \cup Loads

VARIABLES call,       \* what each client's call does, and its locals
          chain,      \* the next_cursor a client holds, with what its page said
          answer,     \* what the last step answered, if it answered a call
          active, closed,
          rootCache, catalogs, bodies,
          rootLoads, catalogLoads,
          file,       \* the files of each skill
          edits,      \* edits so far
          window      \* history: the states of the files during each running call

clients == <<call, chain, window>>
service == <<active, closed>>
caches == <<rootCache, catalogs, bodies>>
loads == <<rootLoads, catalogLoads>>
world == <<file, edits>>
vars == <<clients, answer, service, caches, loads, world>>

-----------------------------------------------------------------------------
(* BoundedCache: a sequence of entries, the least recently used first.       *)

Has(cache, key) == \E i \in DOMAIN cache : cache[i].key = key
Place(cache, key) == CHOOSE i \in DOMAIN cache : cache[i].key = key
Value(cache, key) == cache[Place(cache, key)].value
Without(cache, key) == IF Has(cache, key) THEN RemoveAt(cache, Place(cache, key)) ELSE cache
\* get() found an entry that is still alive, and then made it the latest; or it did not.
Lookup(cache, key, hit) == hit => Has(cache, key)
Get(cache, key, hit) == Without(cache, key) \o IF hit THEN <<[key |-> key, value |-> Value(cache, key)]>> ELSE <<>>
Put(cache, key, value) ==
  LET others == Without(cache, key)
      kept == IF Len(others) < Capacity THEN others ELSE Tail(others)
  IN Append(kept, [key |-> key, value |-> value])

-----------------------------------------------------------------------------
Absent == [text |-> 0, rule |-> "disabled"]
Listed(f) == f.text # 0 /\ f.rule # "disabled"
Shown(f) == IF Listed(f) THEN f ELSE Absent
ImplicitAllowed(f) == f.rule # "explicit"              \* metadata.implicit_allowed

\* What two scans have seen, the first one's word before the second's; one more package.
Both(seen, more) == [s \in DOMAIN seen \cup DOMAIN more |-> IF s \in DOMAIN seen THEN seen[s] ELSE more[s]]
With(seen, s, f) == Both(seen, [t \in {s} |-> f])

\* check() does not throw: the service is open.  It may always find the deadline passed.
ChecksDeadlineOnly == TRUE
CheckPasses == ~closed

Idle == [at |-> "idle"]
Steps == {"catalog", "wait", "list", "missing", "policy", "identity", "text", "decide"}
Is(c, step) == call[c].at = step
Busy == {c \in Clients : ~Is(c, "idle")}

Init == /\ call = [c \in Clients |-> Idle]
        /\ chain = [c \in Clients |-> None]
        /\ answer = None
        /\ active = 0 /\ closed = FALSE
        /\ rootCache = <<>> /\ catalogs = <<>> /\ bodies = <<>>
        /\ rootLoads = [r \in Roots |-> None]
        /\ catalogLoads = [w \in Workdirs |-> None]
        /\ file = [s \in Skills |-> Absent]
        /\ edits = 0
        /\ window = [c \in Clients |-> {}]

\* A text is written, a skill is installed or removed, its rule or a disabled path changes.
Edit(s) == /\ edits < MaxEdits
           /\ edits' = edits + 1
           /\ \/ file' = [file EXCEPT ![s] = [text |-> edits + 1, rule |-> IF @ = Absent THEN "open" ELSE @.rule]]
              \/ file[s] # Absent /\ file' = [file EXCEPT ![s] = Absent]
              \/ \E rule \in Rules : file[s] # Absent /\ file' = [file EXCEPT ![s].rule = rule]
           /\ window' = [c \in Clients |-> IF c \in Busy THEN window[c] \cup {file'} ELSE window[c]]
           /\ answer' = None
           /\ UNCHANGED <<call, chain, service, caches, loads>>

-----------------------------------------------------------------------------
(* request(): the four slots, and the ways out of a call.                    *)

\* A step of c that does not end its call.
Update(c, locals) == /\ call' = [call EXCEPT ![c] = locals]
                     /\ answer' = None
                     /\ UNCHANGED <<chain, window, service>>

\* Every way out of request() passes its finally.
Leave(C, result) == /\ call' = [c \in Clients |-> IF c \in C THEN Idle ELSE call[c]]
                    /\ active' = active - Cardinality(C)
                    /\ window' = [c \in Clients |-> IF c \in C THEN {} ELSE window[c]]
                    /\ answer' = result
                    /\ UNCHANGED closed
Fail(c) == /\ Leave({c}, None)
           /\ UNCHANGED chain

Discover(w) == [op : {"discover"}, dir : {w}, refresh : BOOLEAN]
Read(w) == [op : {"read"}, dir : {w}, skill : Skills, explicit : BOOLEAN, refresh : {FALSE}, cursor : {None}]
Continue(c) == IF chain[c] = None THEN {} ELSE {chain[c]}
Queries(c) == (UNION {Discover(w) \cup Read(w) : w \in Workdirs}) \cup Continue(c)

Refuse(c) == /\ Is(c, "idle")
             /\ closed \/ active >= MaxActive                    \* SKILLS_CLOSED, SKILLS_BUSY
             /\ answer' = None
             /\ UNCHANGED <<clients, service, caches, loads, world>>

Begin(c, q) == /\ Is(c, "idle") /\ ~closed /\ active < MaxActive
               /\ active' = active + 1
               /\ call' = [call EXCEPT ![c] = [at |-> "catalog", query |-> q, refresh |-> q.refresh,
                                               alone |-> FALSE, found |-> None, open |-> FALSE, body |-> None]]
               /\ answer' = None
               /\ window' = [window EXCEPT ![c] = {file}]
               /\ chain' = [chain EXCEPT ![c] = IF q \in Continue(c) THEN @ ELSE None]
               /\ UNCHANGED <<closed, caches, loads, world>>

Close == /\ ~closed
         /\ closed' = TRUE
         /\ rootCache' = <<>> /\ catalogs' = <<>> /\ bodies' = <<>>
         /\ answer' = None
         /\ UNCHANGED <<clients, active, loads, world>>

-----------------------------------------------------------------------------
(* catalog(): a load is shared by every call that asks while it is under way,*)
(* and is rejected for all of them when the call that started it is too late.*)

Waiting(w) == {c \in Clients : Is(c, "wait") /\ call[c].query.dir = w}
Reading(r) == {w \in Workdirs : catalogLoads[w] # None /\ catalogLoads[w].at = "scan"
                                /\ RootsOf[w][catalogLoads[w].next] = r}
Quiet(w) == catalogLoads[w] = None /\ \A i \in DOMAIN RootsOf[w] : rootLoads[RootsOf[w][i]] = None

\* The call goes on with its catalogue.  A skill nobody has listed is looked for once
\* on the disk, unless a page is continued.
Found(c, catalog) ==
  LET query == call[c].query
      listed == query.skill \in DOMAIN catalog.seen /\ catalog.seen[query.skill] # Absent
  IN CASE query.op = "discover" -> [call[c] EXCEPT !.at = "list", !.found = catalog]
       [] query.op = "read" /\ listed -> [call[c] EXCEPT !.at = "policy"]
       [] query.op = "read" /\ ~listed /\ ~call[c].refresh /\ query.cursor = None ->
            [call[c] EXCEPT !.at = "catalog", !.refresh = TRUE]
       [] OTHER -> [call[c] EXCEPT !.at = "missing", !.found = catalog]

Cached(c) ==
  LET w == call[c].query.dir
  IN /\ Is(c, "catalog") /\ CheckPasses /\ ~call[c].refresh
     /\ Has(catalogs, w)
     /\ catalogs' = Get(catalogs, w, TRUE)
     /\ Update(c, Found(c, Value(catalogs, w)))
     /\ UNCHANGED <<rootCache, bodies, loads, world>>

Join(c) ==
  LET w == call[c].query.dir
      refresh == call[c].refresh
  IN /\ Is(c, "catalog") /\ CheckPasses
     /\ catalogs' = IF refresh THEN catalogs ELSE Get(catalogs, w, FALSE)
     /\ catalogLoads' = [catalogLoads EXCEPT ![w] =
          IF @ # None THEN @ ELSE [at |-> "root", refresh |-> refresh, next |-> 1, seen |-> <<>>, complete |-> TRUE]]
     /\ Update(c, [call[c] EXCEPT !.at = "wait", !.alone = refresh /\ Quiet(w)])
     /\ UNCHANGED <<rootCache, bodies, rootLoads, world>>

\* A rejected load would be left in the table.
RejectAndKeep(W) == /\ Leave(UNION {Waiting(w) : w \in W}, None)
                    /\ UNCHANGED <<chain, caches, catalogLoads, world>>
\* The loads of W are rejected, and with them every call that waits for one.
Reject(W) == /\ Leave(UNION {Waiting(w) : w \in W}, None)
             /\ catalogLoads' = [w \in Workdirs |-> IF w \in W THEN None ELSE catalogLoads[w]]
             /\ UNCHANGED <<chain, caches, world>>

Merge(load, snapshot) == [load EXCEPT !.at = "root", !.next = @ + 1, !.seen = Both(@, snapshot.seen),
                                      !.complete = @ /\ snapshot.complete]

MayUseAny(load) == TRUE
MayUseCached(load) == ~load.refresh

\* The next root of a load: from its cache, from a scan under way, or from a new one.
LoadRoot(w) ==
  LET load == catalogLoads[w]
      r == RootsOf[w][load.next]
  IN /\ load # None /\ load.at = "root" /\ load.next <= Len(RootsOf[w]) /\ CheckPasses
     /\ \E hit \in BOOLEAN :
          /\ Lookup(rootCache, r, hit) /\ (hit => MayUseCached(load))
          /\ rootCache' = Get(rootCache, r, hit)
          /\ IF hit THEN /\ catalogLoads' = [catalogLoads EXCEPT ![w] = Merge(@, Value(rootCache, r))]
                         /\ UNCHANGED rootLoads
             ELSE /\ catalogLoads' = [catalogLoads EXCEPT ![w].at = "scan"]
                  /\ rootLoads' = [rootLoads EXCEPT ![r] =
                       IF @ # None THEN @ ELSE [seen |-> <<>>, complete |-> TRUE]]
     /\ answer' = None
     /\ UNCHANGED <<clients, service, catalogs, bodies, world>>

\* scanRoot() comes to the package of s, which may be unreadable or change under it.
Scan(r, s) ==
  /\ rootLoads[r] # None /\ CheckPasses
  /\ Home[s] = r /\ s \notin DOMAIN rootLoads[r].seen
  /\ \/ rootLoads' = [rootLoads EXCEPT ![r].seen = With(@, s, Shown(file[s]))]
     \/ rootLoads' = [rootLoads EXCEPT ![r].seen = With(@, s, Absent), ![r].complete = FALSE]
  /\ answer' = None
  /\ UNCHANGED <<clients, service, caches, catalogLoads, world>>

EndScan(r) ==
  /\ rootLoads[r] # None /\ CheckPasses
  /\ DOMAIN rootLoads[r].seen = {s \in Skills : Home[s] = r}
  /\ rootLoads' = [rootLoads EXCEPT ![r] = None]
  /\ rootCache' = Put(rootCache, r, rootLoads[r])
  /\ catalogLoads' = [w \in Workdirs |-> IF w \in Reading(r) THEN Merge(catalogLoads[w], rootLoads[r])
                                                             ELSE catalogLoads[w]]
  /\ answer' = None
  /\ UNCHANGED <<clients, service, catalogs, bodies, world>>

EndLoad(w) ==
  LET load == catalogLoads[w]
      catalog == [seen |-> load.seen, complete |-> load.complete]
  IN /\ load # None /\ load.at = "root" /\ load.next > Len(RootsOf[w]) /\ CheckPasses
     /\ catalogs' = Put(catalogs, w, catalog)
     /\ catalogLoads' = [catalogLoads EXCEPT ![w] = None]
     /\ call' = [c \in Clients |-> IF c \in Waiting(w) THEN Found(c, catalog) ELSE call[c]]
     /\ answer' = None
     /\ UNCHANGED <<chain, window, service, rootCache, bodies, rootLoads, world>>

\* check() throws in a load.
LoadFails(w) == /\ catalogLoads[w] # None /\ catalogLoads[w].at = "root"
                /\ Reject({w})
                /\ UNCHANGED rootLoads
ScanFails(r) == /\ rootLoads[r] # None
                /\ rootLoads' = [rootLoads EXCEPT ![r] = None]
                /\ Reject(Reading(r))

-----------------------------------------------------------------------------
(* discover() and read() once they have the catalogue.                       *)

\* What a call answers, and what its client needs to ask for the second page.
Answer(c, kind, catalog, pages) ==
  /\ Leave({c}, [kind |-> kind, catalog |-> catalog, pages |-> pages,
                 query |-> call[c].query, alone |-> call[c].alone, window |-> window[c]])
  /\ UNCHANGED <<caches, loads, world>>

\* check() throws in a call, or one of its file operations fails.
CallFails(c) == /\ c \in Busy /\ ~Is(c, "wait")
                /\ Fail(c)
                /\ UNCHANGED <<caches, loads, world>>

List(c) == /\ Is(c, "list")
           /\ CheckPasses
           /\ Answer(c, "list", call[c].found, <<>>)
           /\ UNCHANGED chain

Missing(c) == /\ Is(c, "missing")                              \* SKILL_NOT_AVAILABLE
              /\ Answer(c, "missing", call[c].found, <<>>)
              /\ UNCHANGED chain

Target(c) == file[call[c].query.skill]
Gone(c) == Target(c).text = 0
Key(c) == <<call[c].query.dir, call[c].query.skill>>

\* The disabled paths, assertLocation() and loadMetadata(); implicit use may not be allowed.
Policy(c) == /\ Is(c, "policy") /\ Listed(Target(c))
             /\ call[c].query.explicit \/ ImplicitAllowed(Target(c))
             /\ Update(c, [call[c] EXCEPT !.at = "identity", !.open = ImplicitAllowed(Target(c))])
             /\ UNCHANGED <<caches, loads, world>>

AnyBody(c, body) == TRUE
SameBody(c, body) == body = [text |-> Target(c).text, open |-> call[c].open]

\* fileIdentity(), then the cached body if it is of this very file and policy; a page
\* is continued only from the body it came from.
Identity(c) ==
  \E hit \in BOOLEAN :
    LET key == Key(c)
        body == Value(bodies, key)
        same == hit /\ SameBody(c, body)
        cursor == call[c].query.cursor
    IN /\ Is(c, "identity") /\ ~Gone(c)
       /\ Lookup(bodies, key, hit)
       /\ bodies' = Get(bodies, key, same)
       /\ CASE same /\ cursor \in {None, body.text} -> Update(c, [call[c] EXCEPT !.at = "decide", !.body = body])
            [] ~same /\ cursor = None -> Update(c, [call[c] EXCEPT !.at = "text"])
            [] OTHER -> Fail(c)                                \* CURSOR_EXPIRED, SKILL_CHANGED
       /\ UNCHANGED <<rootCache, catalogs, loads, world>>

\* readText() compares the file before and after: what it returns was there at once.
Text(c) ==
  LET body == [text |-> Target(c).text, open |-> call[c].open]
  IN /\ Is(c, "text") /\ ~Gone(c) /\ CheckPasses
     /\ bodies' = Put(bodies, Key(c), body)
     /\ Update(c, [call[c] EXCEPT !.at = "decide", !.body = body])
     /\ UNCHANGED <<rootCache, catalogs, loads, world>>

\* assertLocation(), the metadata and the disabled paths again: the page, or SKILL_CHANGED.
Changed(c) == ImplicitAllowed(Target(c)) # call[c].open \/ Target(c).rule = "disabled"
Decide(c) ==
  LET cursor == call[c].query.cursor
      text == call[c].body.text
  IN /\ Is(c, "decide") /\ ~Gone(c)
     /\ IF Changed(c)
        THEN /\ bodies' = Without(bodies, Key(c))
             /\ Fail(c)
             /\ UNCHANGED <<rootCache, catalogs, loads, world>>
        ELSE /\ CheckPasses
             /\ Answer(c, "page", None, IF cursor = None THEN <<text>> ELSE <<cursor, text>>)
             /\ chain' = [chain EXCEPT ![c] = IF cursor = None /\ c \in Followers THEN [call[c].query EXCEPT !.cursor = text] ELSE None]

-----------------------------------------------------------------------------
Progress(c) == \/ Cached(c) \/ Join(c) \/ List(c) \/ Missing(c) \/ Policy(c)
               \/ Identity(c) \/ Text(c) \/ Decide(c) \/ CallFails(c)
Load(w) == LoadRoot(w) \/ EndLoad(w) \/ LoadFails(w)
ScanStep(r) == EndScan(r) \/ ScanFails(r) \/ \E s \in Skills : Scan(r, s)

Next == \/ \E c \in Clients : \/ Refuse(c) \/ Progress(c)
                              \/ \E q \in Queries(c) : Begin(c, q)
        \/ \E w \in Workdirs : Load(w)
        \/ \E r \in Roots : ScanStep(r)
        \/ \E s \in Skills : Edit(s)
        \/ Close

Spec == Init /\ [][Next]_vars

-----------------------------------------------------------------------------
\* Types and the capacity of the caches.
TypeOK == /\ \A c \in Clients : call[c].at \in Steps \cup {"idle"}
          /\ file \in [Skills -> Files]
          /\ active \in 0..MaxActive
          /\ \A cache \in {rootCache, catalogs, bodies} :
               Len(cache) <= Capacity /\ \A i, j \in DOMAIN cache : cache[i].key = cache[j].key => i = j

Answered(kinds) == answer # None /\ answer.kind \in kinds

\* A page comes from the files as they were during the call, however warm the caches:
\* its text was in the file, the skill was not disabled, and implicit use was allowed
\* unless the user chose it; and all pages of one reading are of one text.
ReadIsCurrent ==
  Answered({"page"}) =>
    LET during == {f[answer.query.skill] : f \in answer.window}
        pages == answer.pages
    IN /\ \E f \in during : f.text = Last(pages)
       /\ \E f \in during : Listed(f)
       /\ answer.query.explicit \/ \E f \in during : ImplicitAllowed(f)
       /\ \A i \in DOMAIN pages : pages[i] = Last(pages)

FromDuring == LET seen == answer.catalog.seen
              IN answer.catalog.complete =>
                   \A s \in DOMAIN seen : \E f \in answer.window : seen[s] = Shown(f[s])

\* A refreshing call that found no load of its roots under way answers, or finds a
\* skill missing, by the files as they were during that call.
RefreshIsFresh == Answered({"list", "missing"}) /\ answer.alone => FromDuring

\* Once close() has returned nothing is cached again and no call succeeds, those that
\* were under way included.
ClosedIsFinal == [][closed => /\ rootCache' = <<>> /\ catalogs' = <<>> /\ bodies' = <<>>
                              /\ answer' = None \/ answer'.kind = "missing"]_vars

\* No slot is lost and nobody waits for a load that has ended: each running call has one
\* of the four slots and gives it back however it ends; a joined load settles every call
\* that joined it, a shared scan every load, whichever call started them.
WaitIsServed == /\ active = Cardinality(Busy)
                /\ \A w \in Workdirs : catalogLoads[w] = None <=> Waiting(w) = {}
                /\ \A r \in Roots : rootLoads[r] = None <=> Reading(r) = {}
=============================================================================
