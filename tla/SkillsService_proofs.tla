------------------------ MODULE SkillsService_proofs ------------------------
(***************************************************************************)
(* Proofs about SkillsService, for any number of clients, workdirs, roots   *)
(* and skills, caches of any capacity and any number of edits.              *)
(***************************************************************************)
EXTENDS SkillsService, FiniteSetTheorems, SequenceTheorems, TLAPS

(* What a call keeps: its question, the catalogue it waited for, the policy   *)
(* it was let through by and the text it is to answer with.                   *)
Cursors == 0..MaxEdits \cup {None}
ReadQueries == [op : {"read"}, dir : Workdirs, skill : Skills, explicit : BOOLEAN, refresh : {FALSE}, cursor : Cursors]
Asked == ReadQueries \cup [op : {"discover"}, dir : Workdirs, refresh : BOOLEAN]
Bodies == [text : 0..MaxEdits, open : BOOLEAN]
Running == [at : Steps, query : Asked, refresh : BOOLEAN, alone : BOOLEAN,
            found : Snapshots \cup {None}, open : BOOLEAN, body : Bodies \cup {None}]

Entries(K, V) == [key : K, value : V]
\* A cache of distinct keys within its capacity.
Tidy(cache) == Len(cache) <= Capacity /\ \A i, j \in DOMAIN cache : cache[i].key = cache[j].key => i = j

CallsTyped == /\ call \in [Clients -> Running \cup {Idle}]
              /\ chain \in [Clients -> ReadQueries \cup {None}]
              /\ closed \in BOOLEAN
              /\ file \in [Skills -> Files]
              /\ edits \in 0..MaxEdits
              /\ window \in [Clients -> SUBSET [Skills -> Files]]
\* What close() clears stays clear.
CachesKept == /\ rootCache \in Seq(Entries(Roots, Snapshots)) /\ Tidy(rootCache)
              /\ catalogs \in Seq(Entries(Workdirs, Snapshots)) /\ Tidy(catalogs)
              /\ bodies \in Seq(Entries(Workdirs \X Skills, Bodies)) /\ Tidy(bodies)
              /\ closed => rootCache = <<>> /\ catalogs = <<>> /\ bodies = <<>>

(* A load stands at a root of its workdir, or behind the last of them.        *)
InPlace(w) == catalogLoads[w] # None =>
  /\ 1 <= catalogLoads[w].next
  /\ catalogLoads[w].at = "scan" => catalogLoads[w].next <= Len(RootsOf[w])

(* x tells of the files as they were during the call of c, or says that it is  *)
(* not complete.                                                              *)
FreshFor(c, x) == x.complete => \A s \in DOMAIN x.seen : \E f \in window[c] : x.seen[s] = Shown(f[s])

Shared == /\ rootLoads \in [Roots -> Snapshots \cup {None}]
          /\ catalogLoads \in [Workdirs -> Loads \cup {None}]
          /\ \A w \in Workdirs : InPlace(w)
          /\ \A w \in Workdirs : catalogLoads[w] = None <=> Waiting(w) = {}
          /\ \A r \in Roots : rootLoads[r] = None <=> Reading(r) = {}

(* The files as they are belong to the window of every running call, and what  *)
(* a call has passed since it has its catalogue was so at some time in it.     *)
AllowedIn(c, f) == /\ Listed(f[call[c].query.skill])
                   /\ call[c].query.explicit \/ ImplicitAllowed(f[call[c].query.skill])
Watched(c) ==
  /\ ~Is(c, "idle") => file \in window[c]
  /\ Is(c, "policy") \/ Is(c, "identity") \/ Is(c, "text") \/ Is(c, "decide") => call[c].query \in ReadQueries
  /\ Is(c, "identity") \/ Is(c, "text") \/ Is(c, "decide") => \E f \in window[c] : AllowedIn(c, f)
  /\ Is(c, "text") => call[c].query.cursor = None
  /\ Is(c, "decide") => /\ call[c].body \in Bodies
                        /\ call[c].query.cursor \in {None, call[c].body.text}
                        /\ \E f \in window[c] : f[call[c].query.skill].text = call[c].body.text
(* A call that alone asked for a fresh catalogue: the load it began reads past *)
(* the caches, and all it has and all it can still join dates from the call.   *)
Fresh(c) ==
  /\ Is(c, "catalog") => ~call[c].alone
  /\ Is(c, "list") \/ Is(c, "missing") => /\ call[c].found \in Snapshots
                                          /\ call[c].alone => FreshFor(c, call[c].found)
Joined(c) ==
  Is(c, "wait") /\ call[c].alone =>
    /\ call[c].refresh
    /\ catalogLoads[call[c].query.dir] # None =>
         catalogLoads[call[c].query.dir].refresh /\ FreshFor(c, catalogLoads[call[c].query.dir])
    /\ \A i \in DOMAIN RootsOf[call[c].query.dir] :
         LET r == RootsOf[call[c].query.dir][i] IN rootLoads[r] # None => FreshFor(c, rootLoads[r])

Slots == IsFiniteSet(Busy) /\ active = Cardinality(Busy) /\ active <= MaxActive

IInv == /\ CallsTyped /\ CachesKept /\ Shared /\ Slots
        /\ \A c \in Clients : Watched(c) /\ Fresh(c) /\ Joined(c)
        /\ ReadIsCurrent /\ RefreshIsFresh
-----------------------------------------------------------------------------
(* The caches                                                                *)

LEMMA PlaceIsIn ==
  ASSUME NEW cache, NEW key, Has(cache, key)
  PROVE  Place(cache, key) \in DOMAIN cache /\ cache[Place(cache, key)].key = key
BY DEF Has, Place

LEMMA Concatenated ==
  ASSUME NEW E, NEW p \in Seq(E), NEW q \in Seq(E)
  PROVE  /\ p \o q \in Seq(E) /\ Len(p \o q) = Len(p) + Len(q)
         /\ \A k \in 1..(Len(p) + Len(q)) : (p \o q)[k] = IF k <= Len(p) THEN p[k] ELSE q[k - Len(p)]
OBVIOUS

LEMMA Cut ==
  ASSUME NEW E, NEW p \in Seq(E), NEW m \in 1..Len(p)
  PROVE  /\ RemoveAt(p, m) \in Seq(E) /\ Len(RemoveAt(p, m)) = Len(p) - 1
         /\ \A k \in 1..(Len(p) - 1) : RemoveAt(p, m)[k] = p[IF k < m THEN k ELSE k + 1]
<1> DEFINE a == SubSeq(p, 1, m - 1)
           b == SubSeq(p, m + 1, Len(p))
<1>1. a \in Seq(E) /\ Len(a) = m - 1 /\ \A k \in 1..(m - 1) : a[k] = p[k]
  OBVIOUS
<1>2. b \in Seq(E) /\ Len(b) = Len(p) - m /\ \A k \in 1..(Len(p) - m) : b[k] = p[m + k]
  OBVIOUS
<1> HIDE DEF a, b
<1>0. Len(p) \in Nat /\ m \in Nat
  OBVIOUS
<1>3. a \o b \in Seq(E) /\ Len(a \o b) = Len(p) - 1
      /\ \A k \in 1..(Len(p) - 1) : (a \o b)[k] = IF k <= m - 1 THEN a[k] ELSE b[k - (m - 1)]
  <2>1. /\ a \o b \in Seq(E) /\ Len(a \o b) = Len(a) + Len(b)
        /\ \A k \in 1..(Len(a) + Len(b)) : (a \o b)[k] = IF k <= Len(a) THEN a[k] ELSE b[k - Len(a)]
    <3>1. a \in Seq(E) /\ b \in Seq(E)
      BY <1>1, <1>2
    <3> QED BY <3>1, Concatenated
  <2>2. Len(a) = m - 1 /\ Len(a) + Len(b) = Len(p) - 1
    BY <1>0, <1>1, <1>2
  <2> QED BY <2>1, <2>2
<1>4. ASSUME NEW k \in 1..(Len(p) - 1) PROVE (a \o b)[k] = p[IF k < m THEN k ELSE k + 1]
  <2>1. CASE k < m
    BY <2>1, <1>0, <1>1, <1>3
  <2>2. CASE ~(k < m)
    <3>1. k - (m - 1) \in 1..(Len(p) - m) /\ m + (k - (m - 1)) = k + 1 /\ ~(k <= m - 1)
      BY <2>2, <1>0
    <3> QED BY <2>2, <3>1, <1>2, <1>3
  <2> QED BY <2>1, <2>2
<1>5. RemoveAt(p, m) = a \o b
  BY DEF RemoveAt, a, b
<1> QED BY <1>3, <1>4, <1>5

LEMMA WithoutKeeps ==
  ASSUME NEW E, NEW cache \in Seq(E), NEW key
  PROVE  /\ Without(cache, key) \in Seq(E) /\ Len(Without(cache, key)) <= Len(cache)
         /\ Has(cache, key) => Len(Without(cache, key)) = Len(cache) - 1
         /\ Tidy(cache) => Tidy(Without(cache, key)) /\ ~Has(Without(cache, key), key)
         /\ cache = <<>> => Without(cache, key) = <<>>
<1>1. CASE ~Has(cache, key)
  BY <1>1 DEF Without
<1>2. CASE Has(cache, key)
  <2> DEFINE m == Place(cache, key)
             r == RemoveAt(cache, m)
  <2>1. m \in 1..Len(cache) /\ cache[m].key = key /\ Len(cache) \in Nat
    BY <1>2, PlaceIsIn
  <2> HIDE DEF m
  <2>2. r \in Seq(E) /\ Len(r) = Len(cache) - 1
        /\ \A k \in 1..(Len(cache) - 1) : r[k] = cache[IF k < m THEN k ELSE k + 1]
    BY <2>1, Cut
  <2> HIDE DEF r
  <2>3. Without(cache, key) = r
    BY <1>2 DEF Without, r, m
  <2>4. ASSUME Tidy(cache) PROVE Tidy(r) /\ ~Has(r, key)
    <3>1. DOMAIN r = 1..(Len(cache) - 1) /\ DOMAIN cache = 1..Len(cache)
      BY <2>2
    <3>2. Len(r) <= Capacity
      BY <2>1, <2>2, <2>4, SkillsAssumption DEF Tidy
    <3>3. ASSUME NEW i \in DOMAIN r, NEW j \in DOMAIN r, r[i].key = r[j].key PROVE i = j
      <4> DEFINE g(k) == IF k < m THEN k ELSE k + 1
      <4>1. g(i) \in DOMAIN cache /\ g(j) \in DOMAIN cache /\ (g(i) = g(j) => i = j)
        BY <2>1, <3>1
      <4>2. r[i] = cache[g(i)] /\ r[j] = cache[g(j)]
        BY <2>2, <3>1
      <4> HIDE DEF g
      <4> QED BY <4>1, <4>2, <2>4, <3>3 DEF Tidy
    <3>4. ASSUME NEW i \in DOMAIN r, r[i].key = key PROVE FALSE
      BY <2>1, <2>2, <2>4, <3>1, <3>4 DEF Tidy
    <3> QED BY <3>2, <3>3, <3>4 DEF Tidy, Has
  <2>5. cache # <<>>
    BY <2>1
  <2> QED BY <2>1, <2>2, <2>3, <2>4, <2>5
<1> QED BY <1>1, <1>2

LEMMA Appended ==
  ASSUME NEW E, NEW p \in Seq(E), NEW e \in E
  PROVE  /\ p \o <<e>> \in Seq(E) /\ Append(p, e) = p \o <<e>>
         /\ Tidy(p) /\ ~Has(p, e.key) /\ Len(p) < Capacity => Tidy(p \o <<e>>)
<1> DEFINE q == Append(p, e)
<1>1. q \in Seq(E) /\ Len(q) = Len(p) + 1 /\ q[Len(p) + 1] = e /\ (\A k \in 1..Len(p) : q[k] = p[k])
      /\ q = p \o <<e>> /\ Len(p) \in Nat
  OBVIOUS
<1> HIDE DEF q
<1>2. DOMAIN q = 1..(Len(p) + 1) /\ DOMAIN p = 1..Len(p)
  BY <1>1
<1>3. ASSUME Tidy(p), ~Has(p, e.key), Len(p) < Capacity PROVE Tidy(q)
  <2>1. Len(q) <= Capacity
    BY <1>1, <1>3, SkillsAssumption
  <2>2. \A i \in DOMAIN q : i \in DOMAIN p \/ i = Len(p) + 1
    BY <1>2
  <2>3. ASSUME NEW i \in DOMAIN q, NEW j \in DOMAIN q, q[i].key = q[j].key PROVE i = j
    BY <1>1, <1>2, <1>3, <2>2, <2>3 DEF Tidy, Has
  <2> QED BY <2>1, <2>3 DEF Tidy
<1> QED BY <1>1, <1>3 DEF q

LEMMA GetKeeps ==
  ASSUME NEW K, NEW V, NEW cache \in Seq(Entries(K, V)), NEW key, NEW hit \in BOOLEAN, Lookup(cache, key, hit)
  PROVE  /\ Get(cache, key, hit) \in Seq(Entries(K, V))
         /\ Tidy(cache) => Tidy(Get(cache, key, hit))
         /\ cache = <<>> => Get(cache, key, hit) = <<>>
         /\ Has(cache, key) => Value(cache, key) \in V
<1> DEFINE E == Entries(K, V)
           p == Without(cache, key)
<1>0. cache \in Seq(E)
  OBVIOUS
<1> HIDE DEF E
<1>1. /\ p \in Seq(E) /\ Len(p) <= Len(cache) /\ (Has(cache, key) => Len(p) = Len(cache) - 1)
      /\ (Tidy(cache) => Tidy(p) /\ ~Has(p, key)) /\ (cache = <<>> => p = <<>>)
  BY <1>0, WithoutKeeps
<1>2. ASSUME Has(cache, key) PROVE key \in K /\ Value(cache, key) \in V /\ cache # <<>>
  <2>1. cache[Place(cache, key)] \in E /\ cache[Place(cache, key)].key = key /\ cache # <<>>
    <3>1. PICK i \in DOMAIN cache : i = Place(cache, key) /\ cache[i].key = key
      BY <1>2, PlaceIsIn
    <3>2. cache[i] \in E /\ cache # <<>>
      BY <1>0, <3>1
    <3> QED BY <3>1, <3>2
  <2> QED BY <2>1 DEF Value, E, Entries
<1> HIDE DEF p
<1>3. CASE ~hit
  <2>1. Get(cache, key, hit) = p \o <<>>
    BY <1>3 DEF Get, p
  <2>2. p \o <<>> = p
    <3>1. p \in Seq(E)
      BY <1>1
    <3> QED BY <3>1, ConcatEmptySeq, Zenon
  <2> QED BY <2>1, <2>2, <1>1, <1>2 DEF E
<1>4. CASE hit
  <2>1. Has(cache, key)
    BY <1>4 DEF Lookup
  <2> DEFINE e == [key |-> key, value |-> Value(cache, key)]
  <2>2. e \in E /\ e.key = key
    BY <2>1, <1>2 DEF E, Entries
  <2>3. Get(cache, key, hit) = p \o <<e>>
    BY <1>4 DEF Get, p
  <2>4. Tidy(cache) => Len(p) < Capacity
    BY <2>1, <1>1, SkillsAssumption DEF Tidy
  <2> HIDE DEF e, E
  <2>5. p \o <<e>> \in Seq(E) /\ (Tidy(p) /\ ~Has(p, e.key) /\ Len(p) < Capacity => Tidy(p \o <<e>>))
    BY <1>1, <2>2, Appended
  <2> QED BY <2>1, <2>2, <2>3, <2>4, <2>5, <1>1, <1>2 DEF E
<1> QED BY <1>3, <1>4

LEMMA PutKeeps ==
  ASSUME NEW K, NEW V, NEW cache \in Seq(Entries(K, V)), NEW key \in K, NEW value \in V
  PROVE  /\ Put(cache, key, value) \in Seq(Entries(K, V))
         /\ Tidy(cache) => Tidy(Put(cache, key, value))
<1> DEFINE E == Entries(K, V)
           p == Without(cache, key)
           q == IF Len(p) < Capacity THEN p ELSE Tail(p)
           e == [key |-> key, value |-> value]
<1>0. cache \in Seq(E)
  OBVIOUS
<1>2. e \in E /\ e.key = key
  BY DEF Entries
<1> HIDE DEF E
<1>1. p \in Seq(E) /\ (Tidy(cache) => Tidy(p) /\ ~Has(p, key))
  BY <1>0, WithoutKeeps
<1>3. Put(cache, key, value) = Append(q, e)
  BY DEF Put
<1> HIDE DEF p, e, E
<1>4. q \in Seq(E) /\ (Tidy(p) /\ ~Has(p, key) => Tidy(q) /\ ~Has(q, key) /\ Len(q) < Capacity)
  <2>1. CASE Len(p) < Capacity
    BY <2>1, <1>1
  <2>2. CASE ~(Len(p) < Capacity)
    <3>1. Len(p) \in Nat /\ Len(p) >= 1 /\ DOMAIN p = 1..Len(p) /\ p # <<>>
      BY <1>1, <2>2, SkillsAssumption
    <3>2. Tail(p) \in Seq(E) /\ Len(Tail(p)) = Len(p) - 1 /\ \A k \in 1..(Len(p) - 1) : Tail(p)[k] = p[k + 1]
      BY <1>1, <3>1
    <3> DEFINE t == Tail(p)
    <3> HIDE DEF t
    <3>3. t \in Seq(E) /\ Len(t) = Len(p) - 1 /\ DOMAIN t = 1..(Len(p) - 1) /\ \A k \in 1..(Len(p) - 1) : t[k] = p[k + 1]
      BY <3>2 DEF t
    <3>4. \A k \in DOMAIN t : k \in Nat /\ k + 1 \in DOMAIN p /\ t[k] = p[k + 1]
      BY <3>1, <3>3
    <3>5. ~Has(p, key) => ~Has(t, key)
      BY <3>4 DEF Has
    <3>6. ASSUME Tidy(p) PROVE Tidy(t) /\ Len(t) < Capacity
      <4>1. Len(t) < Capacity
        BY <3>1, <3>3, <3>6, SkillsAssumption DEF Tidy
      <4>2. ASSUME NEW i \in DOMAIN t, NEW j \in DOMAIN t, t[i].key = t[j].key PROVE i = j
        <5>1. i + 1 = j + 1 /\ i \in Nat /\ j \in Nat
          BY <3>4, <3>6, <4>2 DEF Tidy
        <5> QED BY <5>1
      <4> QED BY <4>1, <4>2, SkillsAssumption, <3>1, <3>3 DEF Tidy
    <3>7. q = t
      BY <2>2 DEF t
    <3> QED BY <3>3, <3>5, <3>6, <3>7
  <2> QED BY <2>1, <2>2
<1> HIDE DEF q
<1>5. Append(q, e) = q \o <<e>> /\ q \o <<e>> \in Seq(E)
      /\ (Tidy(q) /\ ~Has(q, e.key) /\ Len(q) < Capacity => Tidy(q \o <<e>>))
  BY <1>2, <1>4, Appended
<1> QED BY <1>1, <1>2, <1>3, <1>4, <1>5 DEF E

-----------------------------------------------------------------------------
(* What a root or a load was found to hold                                   *)

\* u has its entries from f and g.
From(u, f, g) == \A s \in DOMAIN u : \/ s \in DOMAIN f /\ u[s] = f[s]
                                     \/ s \in DOMAIN g /\ u[s] = g[s]

LEMMA BothSeen ==
  ASSUME NEW f \in Seen, NEW g \in Seen, NEW u \in {Both(f, g)}
  PROVE  u \in Seen /\ From(u, f, g)
<1> DEFINE D == DOMAIN f \cup DOMAIN g
<1>1. DOMAIN f \subseteq Skills /\ DOMAIN g \subseteq Skills
      /\ (\A s \in DOMAIN f : f[s] \in Files) /\ (\A s \in DOMAIN g : g[s] \in Files)
  BY DEF Seen
<1>2. u \in [D -> Files] /\ D \in SUBSET Skills
  BY <1>1 DEF Both
<1>3. From(u, f, g)
  BY DEF Both, From
<1> HIDE DEF D
<1>4. u \in Seen
  BY <1>2, Zenon DEF Seen
<1> QED BY <1>3, <1>4

LEMMA WithSeen ==
  ASSUME NEW f \in Seen, NEW s \in Skills, NEW x \in Files, NEW u \in {With(f, s, x)}
  PROVE  u \in Seen /\ \A t \in DOMAIN u : (t \in DOMAIN f /\ u[t] = f[t]) \/ (t = s /\ u[t] = x)
<1> DEFINE g == [t \in {s} |-> x]
<1>1. g \in [{s} -> Files] /\ {s} \in SUBSET Skills
  OBVIOUS
<1>2. \A t \in DOMAIN g : t = s /\ g[t] = x
  OBVIOUS
<1> HIDE DEF g
<1>3. g \in Seen
  BY <1>1, Zenon DEF Seen
<1>4. u \in {Both(f, g)}
  BY DEF With, g
<1>5. u \in Seen /\ From(u, f, g)
  BY <1>3, <1>4, BothSeen
<1> QED BY <1>2, <1>5 DEF From

LEMMA MergeFields ==
  ASSUME NEW l \in Loads, NEW x \in Snapshots, NEW m \in {Merge(l, x)}
  PROVE  /\ m \in Loads /\ m.at = "root" /\ m.next = l.next + 1 /\ m.refresh = l.refresh
         /\ m.complete => l.complete /\ x.complete
         /\ From(m.seen, l.seen, x.seen)
<1>1. l.seen \in Seen /\ x.seen \in Seen /\ l.next \in Nat /\ l.refresh \in BOOLEAN
  BY DEF Loads, Snapshots
<1>2. PICK u \in Seen : u = Both(l.seen, x.seen) /\ From(u, l.seen, x.seen)
  BY <1>1, BothSeen
<1>3. PICK b \in BOOLEAN : b = (l.complete /\ x.complete)
  BY Zenon
<1>4. m = [l EXCEPT !.at = "root", !.next = l.next + 1, !.seen = u, !.complete = b]
  BY <1>2, <1>3, Zenon DEF Merge
<1>5. /\ m \in Loads /\ m.at = "root" /\ m.next = l.next + 1 /\ m.refresh = l.refresh
      /\ m.complete = b /\ m.seen = u
  <2>1. m = [at |-> "root", refresh |-> l.refresh, next |-> l.next + 1, seen |-> u, complete |-> b]
    BY <1>4 DEF Loads
  <2>2. m.at = "root" /\ m.next = l.next + 1 /\ m.seen = u
    BY <2>1
  <2>3. m.complete = b /\ m.refresh = l.refresh
    BY <2>1
  <2>4. l.next + 1 \in Nat
    BY <1>1
  <2>5. m \in Loads
    BY <1>1, <2>1, <2>4, Zenon DEF Loads
  <2> QED BY <2>2, <2>3, <2>5
<1> QED BY <1>2, <1>3, <1>5

-----------------------------------------------------------------------------
(* What a step of a call makes of its locals                                  *)

Flags == BOOLEAN
Locals(at, query, refresh, alone, found, open, body) ==
  [at |-> at, query |-> query, refresh |-> refresh, alone |-> alone, found |-> found, open |-> open, body |-> body]

LEMMA LocalsAre ==
  ASSUME NEW at \in Steps, NEW query \in Asked, NEW refresh \in Flags, NEW alone \in Flags,
         NEW found \in Snapshots \cup {None}, NEW open \in Flags, NEW body \in Bodies \cup {None}
  PROVE  Locals(at, query, refresh, alone, found, open, body) \in Running
BY DEF Locals, Running, Flags

LEMMA RunningIs ==
  ASSUME NEW e \in Running
  PROVE  /\ e.at \in Steps /\ e.query \in Asked /\ e.refresh \in Flags /\ e.alone \in Flags
         /\ e.found \in Snapshots \cup {None} /\ e.open \in Flags /\ e.body \in Bodies \cup {None}
BY DEF Running, Flags

LEMMA StepsTo ==
  ASSUME NEW e \in Running, NEW at \in Steps, NEW n \in {[e EXCEPT !.at = at]}
  PROVE  n = Locals(at, e.query, e.refresh, e.alone, e.found, e.open, e.body)
BY Zenon DEF Running, Locals

LEMMA FindsCatalog ==
  ASSUME NEW e \in Running, NEW at \in Steps, NEW k \in Snapshots, NEW n \in {[e EXCEPT !.at = at, !.found = k]}
  PROVE  n = Locals(at, e.query, e.refresh, e.alone, k, e.open, e.body)
BY Zenon DEF Running, Locals

LEMMA LooksAgain ==
  ASSUME NEW e \in Running, NEW b \in BOOLEAN, NEW n \in {[e EXCEPT !.at = "catalog", !.refresh = b]}
  PROVE  n = Locals("catalog", e.query, b, e.alone, e.found, e.open, e.body)
BY Zenon DEF Running, Locals

LEMMA Waits ==
  ASSUME NEW e \in Running, NEW b \in BOOLEAN, NEW n \in {[e EXCEPT !.at = "wait", !.alone = b]}
  PROVE  n = Locals("wait", e.query, e.refresh, b, e.found, e.open, e.body)
BY Zenon DEF Running, Locals

LEMMA IsLetThrough ==
  ASSUME NEW e \in Running, NEW b \in BOOLEAN, NEW n \in {[e EXCEPT !.at = "identity", !.open = b]}
  PROVE  n = Locals("identity", e.query, e.refresh, e.alone, e.found, b, e.body)
BY Zenon DEF Running, Locals

LEMMA HasBody ==
  ASSUME NEW e \in Running, NEW b \in Bodies, NEW n \in {[e EXCEPT !.at = "decide", !.body = b]}
  PROVE  n = Locals("decide", e.query, e.refresh, e.alone, e.found, e.open, b)
BY Zenon DEF Running, Locals

(* A call that has its catalogue answers from it, reads the skill that it      *)
(* lists, or looks once more.                                                 *)
LEMMA FoundIs ==
  ASSUME NEW c \in Clients, call[c] \in Running, NEW k \in Snapshots, NEW n \in {Found(c, k)}
  PROVE  /\ n \in Running /\ n.query = call[c].query /\ n.alone = call[c].alone
         /\ \/ n.at \in {"list", "missing"} /\ n.found = k
            \/ n.at = "policy" /\ n.query \in ReadQueries
            \/ n.at = "catalog" /\ ~call[c].refresh
<1>0. "list" \in Steps /\ "missing" \in Steps /\ "policy" \in Steps /\ "catalog" \in Steps
  BY DEF Steps
<1> DEFINE e == call[c]
           listed == e.query.skill \in DOMAIN k.seen /\ k.seen[e.query.skill] # Absent
<1>7. e \in Running /\ e.query = call[c].query /\ e.alone = call[c].alone /\ (e.refresh <=> call[c].refresh)
  OBVIOUS
<1> HIDE DEF e
<1>1. /\ e.query \in Asked /\ e.refresh \in Flags /\ e.alone \in Flags
      /\ e.found \in Snapshots \cup {None} /\ e.open \in Flags /\ e.body \in Bodies \cup {None}
  BY <1>7, RunningIs
<1>8. k \in Snapshots \cup {None} /\ TRUE \in Flags
  BY DEF Flags
<1>2. CASE e.query.op = "discover"
  <2>1. n \in {[e EXCEPT !.at = "list", !.found = k]}
    BY <1>2, Zenon DEF Found, e
  <2>2. n = Locals("list", e.query, e.refresh, e.alone, k, e.open, e.body)
    BY <1>0, <1>7, <2>1, FindsCatalog, Zenon
  <2>3. n \in Running
    BY <1>0, <1>1, <1>7, <1>8, <2>2, LocalsAre
  <2>5. n.at = "list" /\ n.query = e.query /\ n.alone = e.alone /\ n.found = k
    BY <2>2 DEF Locals
  <2> QED BY <1>7, <2>3, <2>5
<1>3. CASE e.query.op = "read" /\ listed
  <2>1. n \in {[e EXCEPT !.at = "policy"]}
    BY <1>3, Zenon DEF Found, e
  <2>2. n = Locals("policy", e.query, e.refresh, e.alone, e.found, e.open, e.body)
    BY <1>0, <1>7, <2>1, StepsTo, Zenon
  <2>3. n \in Running
    BY <1>0, <1>1, <1>7, <2>2, LocalsAre
  <2>5. n.at = "policy" /\ n.query = e.query /\ n.alone = e.alone
    BY <2>2 DEF Locals
  <2>4. e.query \in ReadQueries
    BY <1>1, <1>3 DEF Asked
  <2> QED BY <1>7, <2>3, <2>5, <2>4
<1>4. CASE e.query.op = "read" /\ ~listed /\ ~e.refresh /\ e.query.cursor = None
  <2>1. n \in {[e EXCEPT !.at = "catalog", !.refresh = TRUE]}
    BY <1>4, Zenon DEF Found, e
  <2>2. n = Locals("catalog", e.query, TRUE, e.alone, e.found, e.open, e.body)
    BY <1>7, <2>1, LooksAgain, Zenon
  <2>3. n \in Running
    BY <1>0, <1>1, <1>7, <1>8, <2>2, LocalsAre
  <2>5. n.at = "catalog" /\ n.query = e.query /\ n.alone = e.alone
    BY <2>2 DEF Locals
  <2> QED BY <1>4, <1>7, <2>3, <2>5
<1>5. CASE e.query.op = "read" /\ ~listed /\ ~(~e.refresh /\ e.query.cursor = None)
  <2>1. n \in {[e EXCEPT !.at = "missing", !.found = k]}
    BY <1>5, Zenon DEF Found, e
  <2>2. n = Locals("missing", e.query, e.refresh, e.alone, k, e.open, e.body)
    BY <1>0, <1>7, <2>1, FindsCatalog, Zenon
  <2>3. n \in Running
    BY <1>0, <1>1, <1>7, <1>8, <2>2, LocalsAre
  <2>5. n.at = "missing" /\ n.query = e.query /\ n.alone = e.alone /\ n.found = k
    BY <2>2 DEF Locals
  <2> QED BY <1>7, <2>3, <2>5
<1>6. e.query.op \in {"discover", "read"}
  BY <1>1 DEF Asked, ReadQueries
<1> QED BY <1>2, <1>3, <1>4, <1>5, <1>6

-----------------------------------------------------------------------------
(* What a step leaves alone                                                   *)

LEMMA NothingSeen == <<>> \in Seen /\ DOMAIN <<>> = {}
<1>1. <<>> \in [{} -> Files] /\ {} \in SUBSET Skills /\ DOMAIN <<>> = {}
  OBVIOUS
<1> QED BY <1>1, Zenon DEF Seen

LEMMA BusyRuns ==
  ASSUME CallsTyped, NEW c \in Clients
  PROVE  /\ call[c] \in Running <=> ~Is(c, "idle")
         /\ c \in Busy <=> ~Is(c, "idle")
         /\ ~(call[c] \in Running) => call[c] = Idle
<1>1. "idle" \notin Steps /\ Idle.at = "idle"
  BY DEF Steps, Idle
<1>2. call[c] \in Running => call[c].at \in Steps
  BY RunningIs
<1>3. call[c] \in Running \cup {Idle}
  BY DEF CallsTyped
<1> QED BY <1>1, <1>2, <1>3 DEF Is, Busy

\* A call that makes no step, while its window may grow.
LEMMA WatchedStays ==
  ASSUME NEW c \in Clients, Watched(c), call'[c] = call[c], window[c] \subseteq window'[c],
         ~Is(c, "idle") => file' \in window'[c]
  PROVE  Watched(c)'
BY DEF Watched, Is, AllowedIn

LEMMA FreshStays ==
  ASSUME NEW c \in Clients, Fresh(c), call'[c] = call[c], window[c] \subseteq window'[c]
  PROVE  Fresh(c)'
BY DEF Fresh, Is, FreshFor

LEMMA JoinedStays ==
  ASSUME NEW c \in Clients, Joined(c), call'[c] = call[c], window[c] \subseteq window'[c],
         Is(c, "wait") => catalogLoads'[call[c].query.dir] \in {catalogLoads[call[c].query.dir], None},
         \A r \in Roots : rootLoads'[r] \in {rootLoads[r], None},
         CallsTyped
  PROVE  Joined(c)'
<1>1. ASSUME Is(c, "wait") PROVE \A i \in DOMAIN RootsOf[call[c].query.dir] : RootsOf[call[c].query.dir][i] \in Roots
  <2>1. call[c].query \in Asked
    BY <1>1, BusyRuns, RunningIs DEF Is
  <2>2. call[c].query.dir \in Workdirs
    BY <2>1 DEF Asked, ReadQueries
  <2> QED BY <2>2, SkillsAssumption
<1> QED BY <1>1 DEF Joined, Is, FreshFor

LEMMA IdleIsFine ==
  ASSUME NEW c \in Clients, call'[c] = Idle
  PROVE  Watched(c)' /\ Fresh(c)' /\ Joined(c)'
<1>1. call'[c].at = "idle"
  BY DEF Idle
<1> QED BY <1>1 DEF Watched, Fresh, Joined, Is

LEMMA NoAnswer == ASSUME answer' = None PROVE ReadIsCurrent' /\ RefreshIsFresh'
BY DEF ReadIsCurrent, RefreshIsFresh, Answered

LEMMA SharedStays ==
  ASSUME Shared, UNCHANGED loads, \A w \in Workdirs : Waiting(w)' = Waiting(w)
  PROVE  Shared'
BY DEF Shared, loads, InPlace, Reading

LEMMA OneCall ==
  ASSUME CallsTyped, NEW c \in Clients, call[c] \in Running, NEW n \in Running, call' = [call EXCEPT ![c] = n]
  PROVE  /\ call' \in [Clients -> Running \cup {Idle}]
         /\ call'[c] = n /\ \A d \in Clients : d # c => call'[d] = call[d]
         /\ Busy' = Busy
         /\ call[c].at # "wait" /\ n.at # "wait" => \A w \in Workdirs : Waiting(w)' = Waiting(w)
<1>1. call \in [Clients -> Running \cup {Idle}]
  BY DEF CallsTyped
<1>2. call' \in [Clients -> Running \cup {Idle}] /\ call'[c] = n /\ \A d \in Clients : d # c => call'[d] = call[d]
  BY <1>1
<1>3. n.at # "idle" /\ call[c].at # "idle"
  BY RunningIs DEF Steps
<1>4. \A d \in Clients : call'[d].at # "idle" <=> call[d].at # "idle"
  BY <1>2, <1>3
<1>5. Busy' = Busy
  BY <1>4 DEF Busy, Is
<1>6. ASSUME call[c].at # "wait", n.at # "wait", NEW w \in Workdirs PROVE Waiting(w)' = Waiting(w)
  <2>1. \A d \in Clients : Is(d, "wait")' /\ call'[d].query.dir = w <=> Is(d, "wait") /\ call[d].query.dir = w
    BY <1>2, <1>6 DEF Is
  <2> QED BY <2>1 DEF Waiting
<1> QED BY <1>2, <1>5, <1>6

\* A step of one call that neither waits before nor after it.
LEMMA CallGoesOn ==
  ASSUME IInv, NEW c \in Clients, call[c] \in Running, call[c].at # "wait",
         NEW n \in Running, n.at # "wait", Update(c, n), UNCHANGED <<loads, world>>,
         CachesKept', Watched(c)', Fresh(c)'
  PROVE  IInv'
<1>0. /\ call' = [call EXCEPT ![c] = n] /\ answer' = None
      /\ chain' = chain /\ window' = window /\ active' = active /\ closed' = closed
      /\ file' = file /\ edits' = edits /\ catalogLoads' = catalogLoads /\ rootLoads' = rootLoads
  BY DEF Update, service, loads, world
<1>1. /\ call' \in [Clients -> Running \cup {Idle}]
      /\ call'[c] = n /\ \A d \in Clients : d # c => call'[d] = call[d]
      /\ Busy' = Busy /\ \A w \in Workdirs : Waiting(w)' = Waiting(w)
  BY <1>0, OneCall DEF IInv
<1>2. CallsTyped'
  BY <1>0, <1>1 DEF IInv, CallsTyped
<1>3. Shared'
  BY <1>1, SharedStays DEF IInv
<1>4. Slots'
  BY <1>0, <1>1 DEF IInv, Slots
<1>5. ASSUME NEW d \in Clients PROVE Watched(d)' /\ Fresh(d)' /\ Joined(d)'
  <2>1. CASE d = c
    BY <1>1, <2>1 DEF Joined, Is
  <2>2. CASE d # c
    <3>1. Watched(d) /\ Fresh(d) /\ Joined(d) /\ CallsTyped
      BY DEF IInv
    <3>2. call'[d] = call[d] /\ window[d] \subseteq window'[d]
      BY <1>0, <1>1, <2>2
    <3>3. ~Is(d, "idle") => file' \in window'[d]
      BY <1>0, <3>1 DEF Watched
    <3> QED BY <1>0, <3>1, <3>2, <3>3, WatchedStays, FreshStays, JoinedStays
  <2> QED BY <2>1, <2>2
<1>6. ReadIsCurrent' /\ RefreshIsFresh'
  BY <1>0, NoAnswer
<1> QED BY <1>2, <1>3, <1>4, <1>5, <1>6 DEF IInv

\* The calls of C end.
LEMMA CallsEnd ==
  ASSUME IInv, NEW C \in SUBSET Busy, NEW result, Leave(C, result), UNCHANGED world,
         chain' \in [Clients -> ReadQueries \cup {None}],
         CachesKept', Shared', ReadIsCurrent', RefreshIsFresh',
         \A w \in Workdirs : catalogLoads'[w] \in {catalogLoads[w], None},
         \A r \in Roots : rootLoads'[r] \in {rootLoads[r], None}
  PROVE  IInv'
<1>0. /\ call' = [c \in Clients |-> IF c \in C THEN Idle ELSE call[c]]
      /\ window' = [c \in Clients |-> IF c \in C THEN {} ELSE window[c]]
      /\ active' = active - Cardinality(C)
      /\ closed' = closed /\ file' = file /\ edits' = edits
  BY DEF Leave, world
<1>1. \A c \in Clients : /\ call'[c] = IF c \in C THEN Idle ELSE call[c]
                         /\ window'[c] = IF c \in C THEN {} ELSE window[c]
  BY <1>0
<1>2. CallsTyped'
  <2>1. call' \in [Clients -> Running \cup {Idle}]
    BY <1>0 DEF IInv, CallsTyped
  <2>2. window' \in [Clients -> SUBSET [Skills -> Files]]
    <3>1. \A c \in Clients : window'[c] \in SUBSET [Skills -> Files]
      BY <1>1 DEF IInv, CallsTyped
    <3> QED BY <1>0, <3>1
  <2> QED BY <1>0, <2>1, <2>2 DEF IInv, CallsTyped
<1>3. Slots'
  <2>1. Busy' = Busy \ C
    BY <1>1 DEF Busy, Is, Idle
  <2>2. IsFiniteSet(Busy) /\ active = Cardinality(Busy) /\ active <= MaxActive /\ MaxActive \in Nat
    BY SkillsAssumption DEF IInv, Slots
  <2>3. IsFiniteSet(C) /\ IsFiniteSet(Busy \ C)
    BY <2>2, FS_Subset
  <2>4. Cardinality(Busy \ C) = Cardinality(Busy) - Cardinality(Busy \cap C) /\ Busy \cap C = C
    BY <2>2, FS_Difference
  <2>5. Cardinality(C) \in Nat /\ Cardinality(Busy) \in Nat
    BY <2>2, <2>3, FS_CardinalityType
  <2>6. PICK k \in Nat, n \in Nat : k = Cardinality(C) /\ n = Cardinality(Busy) /\ active = n
    BY <2>2, <2>5
  <2>7. active' = n - k /\ Cardinality(Busy \ C) = n - k
    BY <1>0, <2>4, <2>6
  <2>8. n - k <= MaxActive
    BY <2>2, <2>6
  <2> QED BY <2>1, <2>3, <2>7, <2>8 DEF Slots
<1>4. ASSUME NEW d \in Clients PROVE Watched(d)' /\ Fresh(d)' /\ Joined(d)'
  <2>1. CASE d \in C
    BY <1>1, <2>1, IdleIsFine
  <2>2. CASE d \notin C
    <3>1. Watched(d) /\ Fresh(d) /\ Joined(d) /\ CallsTyped
      BY DEF IInv
    <3>2. call'[d] = call[d] /\ window[d] \subseteq window'[d]
      BY <1>1, <2>2
    <3>3. ~Is(d, "idle") => file' \in window'[d]
      BY <1>0, <1>1, <2>2, <3>1 DEF Watched
    <3>4. Is(d, "wait") => call[d].query.dir \in Workdirs
      <4>1. Is(d, "wait") => call[d].query \in Asked
        BY <3>1, BusyRuns, RunningIs DEF Is
      <4> QED BY <4>1 DEF Asked, ReadQueries
    <3> QED BY <3>1, <3>2, <3>3, <3>4, WatchedStays, FreshStays, JoinedStays
  <2> QED BY <2>1, <2>2
<1> QED BY <1>2, <1>3, <1>4 DEF IInv

\* A step of the loads, for calls that wait for them.
LEMMA LoadsGoOn ==
  ASSUME IInv, UNCHANGED <<clients, service, world>>, answer' = None,
         CachesKept', Shared', \A c \in Clients : Joined(c)'
  PROVE  IInv'
<1>0. /\ call' = call /\ chain' = chain /\ window' = window /\ active' = active /\ closed' = closed
      /\ file' = file /\ edits' = edits
  BY DEF clients, service, world
<1>1. CallsTyped' /\ Slots'
  BY <1>0 DEF IInv, CallsTyped, Slots, Busy, Is
<1>2. \A c \in Clients : Watched(c)' /\ Fresh(c)'
  BY <1>0 DEF IInv, Watched, Fresh, Is, AllowedIn, FreshFor
<1>3. ReadIsCurrent' /\ RefreshIsFresh'
  BY NoAnswer
<1> QED BY <1>1, <1>2, <1>3 DEF IInv

LEMMA CachesStay ==
  ASSUME CachesKept, UNCHANGED caches, closed' = closed
  PROVE  CachesKept'
BY DEF CachesKept, caches, Tidy

LEMMA OthersWait ==
  ASSUME NEW c \in Clients, ~Is(c, "wait"), NEW result, Leave({c}, result)
  PROVE  \A w \in Workdirs : Waiting(w)' = Waiting(w)
<1>1. \A d \in Clients : call'[d] = IF d = c THEN Idle ELSE call[d]
  BY DEF Leave
<1>2. \A w \in Workdirs, d \in Clients : Is(d, "wait")' /\ call'[d].query.dir = w <=> Is(d, "wait") /\ call[d].query.dir = w
  BY <1>1 DEF Is, Idle
<1> QED BY <1>2 DEF Waiting

LEMMA OneCallEnds ==
  ASSUME IInv, NEW c \in Busy, ~Is(c, "wait"), NEW result, Leave({c}, result), UNCHANGED <<loads, world>>,
         chain' \in [Clients -> ReadQueries \cup {None}],
         CachesKept', ReadIsCurrent', RefreshIsFresh'
  PROVE  IInv'
<1>1. {c} \in SUBSET Busy /\ c \in Clients
  BY DEF Busy
<1>2. Shared'
  BY <1>1, OthersWait, SharedStays DEF IInv
<1>3. UNCHANGED world /\ catalogLoads' = catalogLoads /\ rootLoads' = rootLoads
  BY DEF loads, world
<1> QED BY <1>1, <1>2, <1>3, CallsEnd

LEMMA RefuseKeeps == ASSUME IInv, NEW c \in Clients, Refuse(c) PROVE IInv'
<1>1. UNCHANGED <<clients, service, caches, loads, world>> /\ answer' = None
  BY DEF Refuse
<1>2. CachesKept'
  BY <1>1, CachesStay DEF IInv, service
<1>3. Shared'
  BY <1>1, SharedStays DEF IInv, Waiting, Is, clients
<1>4. \A d \in Clients : Joined(d)'
  BY <1>1 DEF IInv, Joined, FreshFor, Is, clients, loads
<1> QED BY <1>1, <1>2, <1>3, <1>4, LoadsGoOn

LEMMA CallFailsKeeps == ASSUME IInv, NEW c \in Clients, CallFails(c) PROVE IInv'
<1>1. /\ c \in Busy /\ ~Is(c, "wait") /\ Leave({c}, None) /\ chain' = chain
      /\ UNCHANGED <<loads, world>> /\ UNCHANGED caches
  BY DEF CallFails, Fail
<1>2. answer' = None /\ closed' = closed
  BY <1>1 DEF Leave
<1>3. CachesKept' /\ ReadIsCurrent' /\ RefreshIsFresh'
  BY <1>1, <1>2, CachesStay, NoAnswer DEF IInv
<1>4. chain' \in [Clients -> ReadQueries \cup {None}]
  BY <1>1 DEF IInv, CallsTyped
<1> QED BY <1>1, <1>3, <1>4, OneCallEnds

\* What an answer says of the call.
LEMMA AnswerSays ==
  ASSUME NEW c \in Clients, NEW kind, NEW k, NEW pages, Answer(c, kind, k, pages)
  PROVE  /\ answer'.kind = kind /\ answer'.catalog = k /\ answer'.pages = pages
         /\ answer'.query = call[c].query /\ answer'.alone = call[c].alone /\ answer'.window = window[c]
         /\ Leave({c}, answer') /\ UNCHANGED <<loads, world>> /\ UNCHANGED caches /\ closed' = closed
<1> DEFINE said == [kind |-> kind, catalog |-> k, pages |-> pages,
                    query |-> call[c].query, alone |-> call[c].alone, window |-> window[c]]
<1>1. Leave({c}, said) /\ UNCHANGED <<loads, world>> /\ UNCHANGED caches
  BY DEF Answer
<1>2. answer' = said /\ closed' = closed
  BY <1>1 DEF Leave
<1>3. said.kind = kind /\ said.catalog = k /\ said.pages = pages
  OBVIOUS
<1>4. said.query = call[c].query /\ said.alone = call[c].alone /\ said.window = window[c]
  OBVIOUS
<1> HIDE DEF said
<1> QED BY <1>1, <1>2, <1>3, <1>4

LEMMA ListKeeps ==
  ASSUME IInv, NEW c \in Clients, NEW kind \in {"list", "missing"}, Is(c, "list") \/ Is(c, "missing"),
         Answer(c, kind, call[c].found, <<>>), UNCHANGED chain
  PROVE  IInv'
<1>1. /\ answer'.kind = kind /\ answer'.catalog = call[c].found
      /\ answer'.alone = call[c].alone /\ answer'.window = window[c]
      /\ Leave({c}, answer') /\ UNCHANGED <<loads, world>> /\ UNCHANGED caches /\ closed' = closed
  <2>1. PICK k : k = call[c].found
    OBVIOUS
  <2>2. PICK p : p = <<>>
    OBVIOUS
  <2>3. Answer(c, kind, k, p)
    BY <2>1, <2>2
  <2>4. /\ answer'.kind = kind /\ answer'.catalog = k
      /\ answer'.alone = call[c].alone /\ answer'.window = window[c]
      /\ Leave({c}, answer') /\ UNCHANGED <<loads, world>> /\ UNCHANGED caches /\ closed' = closed
    BY <2>3, AnswerSays
  <2> QED BY <2>1, <2>4
<1>2. c \in Busy /\ ~Is(c, "wait")
  BY DEF Busy, Is
<1>3. ReadIsCurrent'
  BY <1>1 DEF ReadIsCurrent, Answered
<1>4. RefreshIsFresh'
  <2>1. Fresh(c)
    BY DEF IInv
  <2>2. call[c].alone => FreshFor(c, call[c].found)
    BY <2>1 DEF Fresh
  <2> QED BY <1>1, <2>2 DEF RefreshIsFresh, FromDuring, FreshFor
<1>5. CachesKept' /\ chain' \in [Clients -> ReadQueries \cup {None}]
  BY <1>1, CachesStay DEF IInv, CallsTyped
<1> QED BY <1>1, <1>2, <1>3, <1>4, <1>5, OneCallEnds

LEMMA QueryIs ==
  ASSUME IInv, NEW c \in Clients, ~Is(c, "idle")
  PROVE  /\ call[c] \in Running /\ c \in Busy /\ call[c].query \in Asked /\ call[c].query.dir \in Workdirs
         /\ call[c].query \in ReadQueries => call[c].query.skill \in Skills /\ call[c].query.cursor \in Cursors
         /\ file \in window[c] /\ \A f \in window[c] : f \in [Skills -> Files]
<1>1. call[c] \in Running /\ c \in Busy
  BY BusyRuns DEF IInv
<1>2. call[c].query \in Asked
  BY <1>1, RunningIs
<1>3. call[c].query.dir \in Workdirs
  BY <1>2 DEF Asked, ReadQueries
<1>4. call[c].query \in ReadQueries => call[c].query.skill \in Skills /\ call[c].query.cursor \in Cursors
  BY DEF ReadQueries
<1>5. file \in window[c] /\ \A f \in window[c] : f \in [Skills -> Files]
  BY DEF IInv, Watched, CallsTyped
<1> QED BY <1>1, <1>2, <1>3, <1>4, <1>5

\* A call goes on with the catalogue k.
LEMMA FoundIsFine ==
  ASSUME IInv, NEW c \in Clients, ~Is(c, "idle"), NEW k \in Snapshots, NEW n \in {Found(c, k)},
         call'[c] = n, window' = window, file' = file,
         call[c].alone => call[c].refresh /\ FreshFor(c, k)
  PROVE  Watched(c)' /\ Fresh(c)' /\ Joined(c)' /\ n \in Running /\ n.at # "wait"
<1>1. call[c] \in Running /\ file \in window[c]
  BY QueryIs
<1>2. /\ n \in Running /\ n.query = call[c].query /\ n.alone = call[c].alone
      /\ \/ n.at \in {"list", "missing"} /\ n.found = k
         \/ n.at = "policy" /\ n.query \in ReadQueries
         \/ n.at = "catalog" /\ ~call[c].refresh
  BY <1>1, FoundIs
<1>3. n.at # "wait" /\ n.at # "idle"
  BY <1>2
<1>4. Watched(c)'
  BY <1>1, <1>2 DEF Watched, Is
<1>5. Fresh(c)'
  BY <1>2 DEF Fresh, Is, FreshFor
<1>6. Joined(c)'
  BY <1>3 DEF Joined, Is
<1> QED BY <1>2, <1>3, <1>4, <1>5, <1>6

LEMMA CachedKeeps == ASSUME IInv, NEW c \in Clients, Cached(c) PROVE IInv'
<1> DEFINE w == call[c].query.dir
           k == Value(catalogs, w)
<1>1. /\ Is(c, "catalog") /\ ~closed /\ ~call[c].refresh
      /\ Has(catalogs, w) /\ catalogs' = Get(catalogs, w, TRUE)
      /\ Update(c, Found(c, k)) /\ UNCHANGED <<loads, world>> /\ rootCache' = rootCache /\ bodies' = bodies
  BY DEF Cached, CheckPasses
<1>2. ~Is(c, "idle") /\ call[c].at # "wait"
  BY <1>1 DEF Is
<1>3. call[c] \in Running /\ w \in Workdirs
  BY <1>2, QueryIs
<1>4. k \in Snapshots /\ catalogs' \in Seq(Entries(Workdirs, Snapshots)) /\ Tidy(catalogs')
  <2>1. catalogs \in Seq(Entries(Workdirs, Snapshots)) /\ Tidy(catalogs)
    BY DEF IInv, CachesKept
  <2>2. Lookup(catalogs, w, TRUE) /\ TRUE \in BOOLEAN
    BY <1>1 DEF Lookup
  <2> HIDE DEF w
  <2>3. /\ Get(catalogs, w, TRUE) \in Seq(Entries(Workdirs, Snapshots)) /\ Tidy(Get(catalogs, w, TRUE))
        /\ Value(catalogs, w) \in Snapshots
    BY <1>1, <2>1, <2>2, GetKeeps
  <2> QED BY <1>1, <2>3
<1> HIDE DEF w, k
<1>5. PICK x \in Snapshots : x = k
  BY <1>4
<1>6. PICK n : n = Found(c, x)
  OBVIOUS
<1>7. Update(c, n)
  BY <1>1, <1>5, <1>6
<1>8. call'[c] = n /\ window' = window /\ file' = file /\ closed' = closed
  <2>1. call' = [call EXCEPT ![c] = n] /\ window' = window /\ closed' = closed /\ file' = file
    BY <1>1, <1>7 DEF Update, service, world
  <2> QED BY <2>1 DEF IInv, CallsTyped
<1>9. ~call[c].alone
  BY <1>1 DEF IInv, Fresh
<1>10. Watched(c)' /\ Fresh(c)' /\ n \in Running /\ n.at # "wait"
  BY <1>2, <1>5, <1>6, <1>8, <1>9, FoundIsFine
<1>11. CachesKept'
  BY <1>1, <1>4, <1>8 DEF IInv, CachesKept, Tidy
<1> QED BY <1>1, <1>2, <1>3, <1>7, <1>10, <1>11, CallGoesOn

LEMMA UpdateSays ==
  ASSUME IInv, NEW c \in Clients, NEW n, Update(c, n)
  PROVE  call'[c] = n /\ window' = window /\ closed' = closed
<1>1. call' = [call EXCEPT ![c] = n] /\ window' = window /\ closed' = closed
  BY DEF Update, service
<1> QED BY <1>1 DEF IInv, CallsTyped

LEMMA PolicyKeeps == ASSUME IInv, NEW c \in Clients, Policy(c) PROVE IInv'
<1>1. /\ Is(c, "policy") /\ Listed(Target(c)) /\ (call[c].query.explicit \/ ImplicitAllowed(Target(c)))
      /\ UNCHANGED <<loads, world>> /\ UNCHANGED caches
  BY DEF Policy
<1>2. ~Is(c, "idle") /\ call[c].at # "wait"
  BY <1>1 DEF Is
<1>3. call[c] \in Running /\ file \in window[c]
  BY <1>2, QueryIs
<1>4. PICK b \in BOOLEAN : b = ImplicitAllowed(Target(c))
  BY Zenon DEF ImplicitAllowed
<1>5. PICK e \in Running : e = call[c]
  BY <1>3
<1>6. PICK n : n = [e EXCEPT !.at = "identity", !.open = b]
  OBVIOUS
<1>7. Update(c, n)
  BY <1>4, <1>5, <1>6, Zenon DEF Policy
<1>8. n = Locals("identity", e.query, e.refresh, e.alone, e.found, b, e.body)
  BY <1>6, IsLetThrough, Zenon
<1>9. n.at = "identity" /\ n.query = e.query
  BY <1>8 DEF Locals
<1>10. n \in Running
  <2>1. "identity" \in Steps /\ b \in Flags
    BY DEF Steps, Flags
  <2>2. /\ e.query \in Asked /\ e.refresh \in Flags /\ e.alone \in Flags
        /\ e.found \in Snapshots \cup {None} /\ e.body \in Bodies \cup {None}
    BY RunningIs
  <2> QED BY <1>8, <2>1, <2>2, LocalsAre
<1>11. call'[c] = n /\ window' = window /\ closed' = closed /\ file' = file
  <2>1. call'[c] = n /\ window' = window /\ closed' = closed
    BY <1>7, UpdateSays
  <2> QED BY <1>1, <2>1 DEF world
<1>12. Watched(c)'
  <2>1. call[c].query \in ReadQueries
    BY <1>1 DEF IInv, Watched
  <2>2. AllowedIn(c, file)'
    BY <1>1, <1>5, <1>9, <1>11 DEF AllowedIn, Target
  <2> QED BY <1>3, <1>5, <1>9, <1>11, <2>1, <2>2 DEF Watched, Is
<1>13. Fresh(c)'
  BY <1>9, <1>11 DEF Fresh, Is
<1>14. CachesKept'
  BY <1>1, <1>11, CachesStay DEF IInv
<1> QED BY <1>1, <1>2, <1>3, <1>7, <1>9, <1>10, <1>12, <1>13, <1>14, CallGoesOn

\* A call has its text: from the cached body, or from the file.
LEMMA BodyKeeps ==
  ASSUME IInv, NEW c \in Clients, Is(c, "identity") \/ Is(c, "text"),
         NEW b \in Bodies, b.text = Target(c).text, call[c].query.cursor \in {None, b.text},
         Update(c, [call[c] EXCEPT !.at = "decide", !.body = b]),
         CachesKept', UNCHANGED <<loads, world>>
  PROVE  IInv'
<1>2. ~Is(c, "idle") /\ call[c].at # "wait"
  BY DEF Is
<1>3. call[c] \in Running /\ file \in window[c]
  BY <1>2, QueryIs
<1>5. PICK e \in Running : e = call[c]
  BY <1>3
<1>6. PICK n : n = [e EXCEPT !.at = "decide", !.body = b]
  OBVIOUS
<1>7. Update(c, n)
  BY <1>5, <1>6, Zenon
<1>8. n = Locals("decide", e.query, e.refresh, e.alone, e.found, e.open, b)
  BY <1>6, HasBody, Zenon
<1>9. n.at = "decide" /\ n.query = e.query /\ n.body = b
  BY <1>8 DEF Locals
<1>10. n \in Running
  <2>1. "decide" \in Steps /\ b \in Bodies \cup {None}
    BY DEF Steps
  <2>2. /\ e.query \in Asked /\ e.refresh \in Flags /\ e.alone \in Flags
        /\ e.found \in Snapshots \cup {None} /\ e.open \in Flags
    BY RunningIs
  <2> QED BY <1>8, <2>1, <2>2, LocalsAre
<1>11. call'[c] = n /\ window' = window /\ file' = file
  <2>1. call'[c] = n /\ window' = window
    BY <1>7, UpdateSays
  <2>2. file' = file
    BY Zenon DEF world
  <2> QED BY <2>1, <2>2
<1>12. Watched(c)'
  <2>1. Watched(c)
    BY DEF IInv
  <2>2. call[c].query \in ReadQueries
    BY <2>1, Zenon DEF Watched
  <2> QED BY <1>3, <1>5, <1>9, <1>11, <2>1, <2>2 DEF Watched, Is, AllowedIn, Target
<1>13. Fresh(c)'
  BY <1>9, <1>11 DEF Fresh, Is
<1> QED BY <1>2, <1>3, <1>7, <1>9, <1>10, <1>12, <1>13, CallGoesOn

\* What a call at its skill finds on the disk.
LEMMA TargetIs ==
  ASSUME IInv, NEW c \in Clients, Is(c, "identity") \/ Is(c, "text") \/ Is(c, "decide")
  PROVE  /\ call[c].query \in ReadQueries /\ Key(c) \in Workdirs \X Skills
         /\ Target(c) = file[call[c].query.skill] /\ Target(c).text \in 0..MaxEdits
         /\ call[c].open \in Flags
<1>1. call[c].query \in ReadQueries
  BY DEF IInv, Watched
<1>2. ~Is(c, "idle")
  BY DEF Is
<1>3. call[c] \in Running /\ call[c].query.dir \in Workdirs /\ call[c].query.skill \in Skills
  BY <1>1, <1>2, QueryIs
<1>4. file[call[c].query.skill] \in Files
  BY <1>3 DEF IInv, CallsTyped
<1> QED BY <1>1, <1>3, <1>4, RunningIs DEF Target, Key, Files

LEMMA TextKeeps == ASSUME IInv, NEW c \in Clients, Text(c) PROVE IInv'
<1>1. Is(c, "text") /\ ~closed /\ rootCache' = rootCache /\ catalogs' = catalogs /\ UNCHANGED <<loads, world>>
  BY DEF Text, CheckPasses
<1>2. Target(c).text \in 0..MaxEdits /\ call[c].open \in Flags /\ Key(c) \in Workdirs \X Skills
  BY <1>1, TargetIs
<1>3. PICK b : b = [text |-> Target(c).text, open |-> call[c].open]
  OBVIOUS
<1>4. b \in Bodies /\ b.text = Target(c).text
  BY <1>2, <1>3 DEF Bodies, Flags
<1>5. bodies' = Put(bodies, Key(c), b) /\ Update(c, [call[c] EXCEPT !.at = "decide", !.body = b])
  BY <1>3, Zenon DEF Text
<1>6. call[c].query.cursor \in {None, b.text}
  BY <1>1 DEF IInv, Watched
<1>7. CachesKept'
  <2>1. bodies \in Seq(Entries(Workdirs \X Skills, Bodies)) /\ Tidy(bodies)
    BY DEF IInv, CachesKept
  <2>2. PICK K, k : K = Workdirs \X Skills /\ k = Key(c) /\ k \in K
    BY <1>2
  <2>3. Put(bodies, k, b) \in Seq(Entries(K, Bodies)) /\ Tidy(Put(bodies, k, b))
    BY <1>4, <2>1, <2>2, PutKeeps
  <2>4. bodies' \in Seq(Entries(Workdirs \X Skills, Bodies)) /\ Tidy(bodies')
    BY <1>5, <2>2, <2>3, Zenon
  <2>5. closed' = closed
    BY <1>5, Zenon DEF Update, service
  <2> QED BY <1>1, <2>4, <2>5 DEF IInv, CachesKept, Tidy
<1> QED BY <1>1, <1>4, <1>5, <1>6, <1>7, BodyKeeps, Zenon

LEMMA IdentityKeeps == ASSUME IInv, NEW c \in Clients, Identity(c) PROVE IInv'
<1>1. PICK hit \in BOOLEAN :
        LET key == Key(c)
            body == Value(bodies, key)
            same == hit /\ SameBody(c, body)
            cursor == call[c].query.cursor
        IN /\ Is(c, "identity") /\ ~Gone(c)
           /\ Lookup(bodies, key, hit)
           /\ bodies' = Get(bodies, key, same)
           /\ CASE same /\ cursor \in {None, body.text} -> Update(c, [call[c] EXCEPT !.at = "decide", !.body = body])
                [] ~same /\ cursor = None -> Update(c, [call[c] EXCEPT !.at = "text"])
                [] OTHER -> Fail(c)
           /\ UNCHANGED <<rootCache, catalogs, loads, world>>
  BY Zenon DEF Identity
<1>2. PICK same \in BOOLEAN : same = (hit /\ SameBody(c, Value(bodies, Key(c))))
  BY Zenon
<1>3. PICK b : b = Value(bodies, Key(c))
  OBVIOUS
<1>4. /\ Is(c, "identity") /\ Lookup(bodies, Key(c), hit) /\ bodies' = Get(bodies, Key(c), same)
      /\ rootCache' = rootCache /\ catalogs' = catalogs /\ UNCHANGED <<loads, world>>
      /\ \/ same /\ call[c].query.cursor \in {None, b.text} /\ Update(c, [call[c] EXCEPT !.at = "decide", !.body = b])
         \/ call[c].query.cursor = None /\ Update(c, [call[c] EXCEPT !.at = "text"])
         \/ Fail(c)
  BY <1>1, <1>2, <1>3, Zenon
<1>5. ~Is(c, "idle") /\ call[c].at # "wait"
  BY <1>4 DEF Is
<1>6. Lookup(bodies, Key(c), same)
  BY <1>2, <1>4, Zenon DEF Lookup
<1>7. bodies' \in Seq(Entries(Workdirs \X Skills, Bodies)) /\ Tidy(bodies') /\ (bodies = <<>> => bodies' = <<>>)
  <2>1. bodies \in Seq(Entries(Workdirs \X Skills, Bodies)) /\ Tidy(bodies)
    BY DEF IInv, CachesKept
  <2>2. PICK K, k, s : K = Workdirs \X Skills /\ k = Key(c) /\ s = same /\ s \in BOOLEAN
    OBVIOUS
  <2>3. /\ Get(bodies, k, s) \in Seq(Entries(K, Bodies)) /\ Tidy(Get(bodies, k, s))
        /\ bodies = <<>> => Get(bodies, k, s) = <<>>
    BY <1>6, <2>1, <2>2, GetKeeps
  <2>4. bodies' = Get(bodies, k, s)
    BY <1>4, <2>2, Zenon
  <2> QED BY <2>2, <2>3, <2>4
<1>8. closed' = closed => CachesKept'
  <2>1. CachesKept
    BY DEF IInv
  <2>2. rootCache' = rootCache /\ catalogs' = catalogs
    BY <1>4, Zenon
  <2> QED BY <1>7, <2>1, <2>2 DEF CachesKept, Tidy
<1>9. CASE same /\ call[c].query.cursor \in {None, b.text} /\ Update(c, [call[c] EXCEPT !.at = "decide", !.body = b])
  <2>1. b = [text |-> Target(c).text, open |-> call[c].open]
    BY <1>2, <1>3, <1>9, Zenon DEF SameBody
  <2>2. Target(c).text \in 0..MaxEdits /\ call[c].open \in Flags
    BY <1>4, TargetIs
  <2>3. b \in Bodies /\ b.text = Target(c).text
    BY <2>1, <2>2 DEF Bodies, Flags
  <2>4. closed' = closed
    BY <1>9, Zenon DEF Update, service
  <2> QED BY <1>4, <1>8, <1>9, <2>3, <2>4, BodyKeeps, Zenon
<1>10. CASE call[c].query.cursor = None /\ Update(c, [call[c] EXCEPT !.at = "text"])
  <2>1. PICK e \in Running : e = call[c]
    BY <1>5, QueryIs
  <2>2. PICK n : n = [e EXCEPT !.at = "text"]
    OBVIOUS
  <2>3. Update(c, n)
    BY <1>10, <2>1, <2>2, Zenon
  <2>4. n = Locals("text", e.query, e.refresh, e.alone, e.found, e.open, e.body)
    <3>1. "text" \in Steps
      BY DEF Steps
    <3> QED BY <2>2, <3>1, StepsTo, Zenon
  <2>5. n.at = "text" /\ n.query = e.query
    BY <2>4 DEF Locals
  <2>6. n \in Running
    <3>1. "text" \in Steps
      BY DEF Steps
    <3>2. /\ e.query \in Asked /\ e.refresh \in Flags /\ e.alone \in Flags
          /\ e.found \in Snapshots \cup {None} /\ e.open \in Flags /\ e.body \in Bodies \cup {None}
      BY RunningIs
    <3> QED BY <2>4, <3>1, <3>2, LocalsAre
  <2>7. call'[c] = n /\ window' = window /\ closed' = closed /\ file' = file
    <3>1. call'[c] = n /\ window' = window /\ closed' = closed
      BY <2>3, UpdateSays
    <3>2. file' = file
      BY <1>4, Zenon DEF world
    <3> QED BY <3>1, <3>2
  <2>8. Is(c, "identity") /\ call[c].query.cursor = None /\ Watched(c)
    BY <1>4, <1>10, Zenon DEF IInv
  <2>9. Watched(c)'
    BY <2>1, <2>5, <2>7, <2>8 DEF Watched, Is, AllowedIn
  <2>10. Fresh(c)'
    BY <2>5, <2>7 DEF Fresh, Is
  <2>11. UNCHANGED <<loads, world>>
    BY <1>4, Zenon
  <2> QED BY <1>5, <1>8, <2>1, <2>3, <2>5, <2>6, <2>7, <2>9, <2>10, <2>11, CallGoesOn
<1>11. CASE Fail(c)
  <2>1. Leave({c}, None) /\ chain' = chain
    BY <1>11 DEF Fail
  <2>2. c \in Busy /\ ~Is(c, "wait")
    BY <1>5, QueryIs DEF Is
  <2>3. answer' = None /\ closed' = closed
    BY <2>1 DEF Leave
  <2>4. CachesKept' /\ ReadIsCurrent' /\ RefreshIsFresh'
    BY <1>8, <2>3, NoAnswer
  <2>5. chain' \in [Clients -> ReadQueries \cup {None}]
    BY <2>1 DEF IInv, CallsTyped
  <2>6. UNCHANGED <<loads, world>>
    BY <1>4, Zenon
  <2> QED BY <2>1, <2>2, <2>4, <2>5, <2>6, OneCallEnds
<1> QED BY <1>4, <1>9, <1>10, <1>11, Zenon

\* The pages of one reading.
LEMMA PagesAre ==
  ASSUME NEW cursor, NEW text, cursor \in {None, text},
         NEW pages, pages = IF cursor = None THEN <<text>> ELSE <<cursor, text>>
  PROVE  Last(pages) = text /\ \A i \in DOMAIN pages : pages[i] = text
<1>1. CASE cursor = None
  BY <1>1 DEF Last
<1>2. CASE cursor # None
  BY <1>2 DEF Last
<1> QED BY <1>1, <1>2

LEMMA DecideKeeps == ASSUME IInv, NEW c \in Clients, Decide(c) PROVE IInv'
<1>1. Is(c, "decide")
  BY DEF Decide
<1>2. c \in Busy /\ ~Is(c, "wait") /\ ~Is(c, "idle")
  BY <1>1 DEF Is, Busy
<1>3. call[c].query \in ReadQueries /\ Watched(c)
  BY <1>1, TargetIs DEF IInv
<1>4. PICK cursor, text : /\ cursor = call[c].query.cursor /\ text = call[c].body.text
                          /\ text \in 0..MaxEdits /\ cursor \in {None, text}
                          /\ \E f \in window[c] : f[call[c].query.skill].text = text
                          /\ \E f \in window[c] : AllowedIn(c, f)
  BY <1>1, <1>3 DEF Watched, Bodies
<1>5. CASE Changed(c)
  <2>1. bodies' = Without(bodies, Key(c)) /\ Fail(c) /\ UNCHANGED <<rootCache, catalogs, loads, world>>
    BY <1>5 DEF Decide
  <2>2. Leave({c}, None) /\ chain' = chain /\ UNCHANGED <<loads, world>>
    BY <2>1 DEF Fail
  <2>3. closed' = closed /\ answer' = None
    BY <2>2 DEF Leave
  <2>4. CachesKept'
    <3>1. bodies \in Seq(Entries(Workdirs \X Skills, Bodies)) /\ Tidy(bodies) /\ CachesKept
      BY DEF IInv, CachesKept
    <3>2. /\ bodies' \in Seq(Entries(Workdirs \X Skills, Bodies)) /\ Tidy(bodies')
          /\ bodies = <<>> => bodies' = <<>>
      <4>1. PICK E : E = Entries(Workdirs \X Skills, Bodies)
        OBVIOUS
      <4>2. bodies \in Seq(E)
        BY <3>1, <4>1
      <4> QED BY <2>1, <3>1, <4>1, <4>2, WithoutKeeps
    <3> QED BY <2>1, <2>3, <3>1, <3>2 DEF CachesKept, Tidy
  <2>5. chain' \in [Clients -> ReadQueries \cup {None}]
    BY <2>2 DEF IInv, CallsTyped
  <2> QED BY <1>2, <2>2, <2>3, <2>4, <2>5, NoAnswer, OneCallEnds
<1>6. CASE ~Changed(c)
  <2>1. PICK pages : pages = IF cursor = None THEN <<text>> ELSE <<cursor, text>>
    OBVIOUS
  <2>2. PICK q : q = [call[c].query EXCEPT !.cursor = text]
    OBVIOUS
  <2>3. /\ Answer(c, "page", None, pages)
        /\ chain' = [chain EXCEPT ![c] = IF cursor = None /\ c \in Followers THEN q ELSE None]
    BY <1>4, <1>6, <2>1, <2>2, Zenon DEF Decide
  <2>4. /\ answer'.kind = "page" /\ answer'.pages = pages
        /\ answer'.query = call[c].query /\ answer'.window = window[c]
        /\ Leave({c}, answer') /\ UNCHANGED <<loads, world>> /\ UNCHANGED caches /\ closed' = closed
    BY <2>3, AnswerSays
  <2>5. Last(pages) = text /\ \A i \in DOMAIN pages : pages[i] = text
    BY <1>4, <2>1, PagesAre
  <2>6. ReadIsCurrent'
    <3>1. PICK f \in window[c] : f[call[c].query.skill].text = text
      BY <1>4
    <3>2. PICK g \in window[c] : AllowedIn(c, g)
      BY <1>4
    <3> DEFINE during == {x[call[c].query.skill] : x \in window[c]}
    <3>3. \E x \in during : x.text = text
      BY <3>1
    <3>4. g[call[c].query.skill] \in during
      OBVIOUS
    <3>5. (\E x \in during : Listed(x)) /\ (call[c].query.explicit \/ \E x \in during : ImplicitAllowed(x))
      BY <3>2, <3>4 DEF AllowedIn
    <3>6. during = {x[answer'.query.skill] : x \in answer'.window}
      BY <2>4
    <3> HIDE DEF during
    <3> QED BY <2>4, <2>5, <3>3, <3>5, <3>6 DEF ReadIsCurrent
  <2>7. RefreshIsFresh'
    BY <2>4 DEF RefreshIsFresh, Answered
  <2>8. q \in ReadQueries
    <3>1. text \in Cursors
      BY <1>4 DEF Cursors
    <3> QED BY <1>3, <2>2, <3>1 DEF ReadQueries
  <2>9. chain' \in [Clients -> ReadQueries \cup {None}]
    BY <2>3, <2>8 DEF IInv, CallsTyped
  <2>10. CachesKept'
    BY <2>4, CachesStay DEF IInv
  <2> QED BY <1>2, <2>4, <2>6, <2>7, <2>9, <2>10, OneCallEnds
<1> QED BY <1>5, <1>6

LEMMA JoinKeeps == ASSUME IInv, NEW c \in Clients, Join(c) PROVE IInv'
<1>0. PICK w : w = call[c].query.dir
  OBVIOUS
<1>1. /\ Is(c, "catalog") /\ ~closed
      /\ catalogs' = IF call[c].refresh THEN catalogs ELSE Get(catalogs, w, FALSE)
      /\ rootCache' = rootCache /\ bodies' = bodies /\ rootLoads' = rootLoads /\ UNCHANGED world
  BY <1>0 DEF Join, CheckPasses
<1>2. ~Is(c, "idle") /\ call[c].at # "wait"
  BY <1>1 DEF Is
<1>3. call[c] \in Running /\ w \in Workdirs /\ file \in window[c]
  BY <1>0, <1>2, QueryIs
<1>4. PICK b \in BOOLEAN : b = (call[c].refresh /\ Quiet(w))
  BY Zenon
<1>5. PICK e \in Running : e = call[c]
  BY <1>3
<1>6. PICK n : n = [e EXCEPT !.at = "wait", !.alone = b]
  OBVIOUS
<1>7. Update(c, n)
  BY <1>0, <1>4, <1>5, <1>6, Zenon DEF Join
<1>8. n = Locals("wait", e.query, e.refresh, b, e.found, e.open, e.body)
  BY <1>6, Waits, Zenon
<1>9. n.at = "wait" /\ n.query = e.query /\ n.refresh = e.refresh /\ n.alone = b
  BY <1>8 DEF Locals
<1>10. n \in Running
  <2>1. "wait" \in Steps /\ b \in Flags
    BY DEF Steps, Flags
  <2>2. /\ e.query \in Asked /\ e.refresh \in Flags
        /\ e.found \in Snapshots \cup {None} /\ e.open \in Flags /\ e.body \in Bodies \cup {None}
    BY RunningIs
  <2> QED BY <1>8, <2>1, <2>2, LocalsAre
<1>11. PICK new : new = [at |-> "root", refresh |-> call[c].refresh, next |-> 1, seen |-> <<>>, complete |-> TRUE]
  OBVIOUS
<1>12. new.at = "root" /\ new.refresh = call[c].refresh /\ new.next = 1 /\ DOMAIN new.seen = {} /\ new \in Loads /\ new # None
  <2>1. new.at = "root" /\ new.refresh = call[c].refresh /\ new.next = 1 /\ new.seen = <<>>
    BY <1>11
  <2>2. new \in Loads
    <3>1. call[c].refresh \in BOOLEAN
      BY <1>3, RunningIs DEF Flags
    <3>2. <<>> \in Seen
      BY NothingSeen
    <3> QED BY <1>11, <3>1, <3>2, Zenon, 1 \in Nat DEF Loads
  <2> QED BY <2>1, <2>2, NothingSeen, NoneAssumption
<1>13. catalogLoads' = [catalogLoads EXCEPT ![w] = IF @ # None THEN @ ELSE new]
  BY <1>0, <1>11, Zenon DEF Join
<1>14. /\ call' = [call EXCEPT ![c] = n] /\ answer' = None
       /\ chain' = chain /\ window' = window /\ active' = active /\ closed' = closed
       /\ file' = file /\ edits' = edits
  BY <1>1, <1>7 DEF Update, service, world
<1>15. /\ call' \in [Clients -> Running \cup {Idle}]
       /\ call'[c] = n /\ \A d \in Clients : d # c => call'[d] = call[d]
       /\ Busy' = Busy
  BY <1>3, <1>10, <1>14, OneCall DEF IInv
<1>16. CallsTyped' /\ Slots' /\ ReadIsCurrent' /\ RefreshIsFresh'
  BY <1>14, <1>15, NoAnswer DEF IInv, CallsTyped, Slots
<1>17. CachesKept'
  <2>1. catalogs \in Seq(Entries(Workdirs, Snapshots)) /\ Tidy(catalogs) /\ CachesKept
    BY DEF IInv, CachesKept
  <2>2. Lookup(catalogs, w, FALSE) /\ FALSE \in BOOLEAN
    BY DEF Lookup
  <2>3. /\ Get(catalogs, w, FALSE) \in Seq(Entries(Workdirs, Snapshots)) /\ Tidy(Get(catalogs, w, FALSE))
    BY <2>1, <2>2, GetKeeps
  <2>4. catalogs' \in Seq(Entries(Workdirs, Snapshots)) /\ Tidy(catalogs')
    BY <1>1, <2>1, <2>3
  <2> QED BY <1>1, <1>14, <2>1, <2>4 DEF CachesKept, Tidy
<1>18. /\ catalogLoads \in [Workdirs -> Loads \cup {None}]
       /\ catalogLoads' \in [Workdirs -> Loads \cup {None}]
       /\ catalogLoads'[w] = IF catalogLoads[w] # None THEN catalogLoads[w] ELSE new
       /\ \A v \in Workdirs : v # w => catalogLoads'[v] = catalogLoads[v]
  BY <1>3, <1>12, <1>13 DEF IInv, Shared
<1>19. c \in Waiting(w)' /\ \A v \in Workdirs : v # w => Waiting(v)' = Waiting(v)
  <2>1. \A v \in Workdirs, d \in Clients : v # w =>
          (Is(d, "wait")' /\ call'[d].query.dir = v <=> Is(d, "wait") /\ call[d].query.dir = v)
    BY <1>0, <1>2, <1>5, <1>9, <1>15 DEF Is
  <2>2. c \in Waiting(w)'
    BY <1>0, <1>3, <1>5, <1>9, <1>15 DEF Waiting, Is
  <2> QED BY <2>1, <2>2 DEF Waiting
<1>20. \A r \in Roots : Reading(r)' = Reading(r)
  BY <1>12, <1>18 DEF Reading
<1>21. Shared'
  <2>1. \A v \in Workdirs : InPlace(v)'
    BY <1>12, <1>18 DEF IInv, Shared, InPlace
  <2>2. \A v \in Workdirs : catalogLoads'[v] = None <=> Waiting(v)' = {}
    BY <1>12, <1>18, <1>19 DEF IInv, Shared
  <2>3. \A r \in Roots : rootLoads'[r] = None <=> Reading(r)' = {}
    BY <1>1, <1>20 DEF IInv, Shared
  <2> QED BY <1>1, <1>18, <2>1, <2>2, <2>3 DEF IInv, Shared
<1>22. ASSUME NEW d \in Clients PROVE Watched(d)' /\ Fresh(d)' /\ Joined(d)'
  <2>1. CASE d = c
    <3>1. Watched(c)' /\ Fresh(c)'
      BY <1>3, <1>9, <1>14, <1>15 DEF Watched, Fresh, Is
    <3>2. ASSUME n.alone PROVE Joined(c)'
      <4>1. /\ call[c].refresh /\ n.refresh /\ call'[c].query.dir = w
            /\ catalogLoads[w] = None /\ \A i \in DOMAIN RootsOf[w] : rootLoads[RootsOf[w][i]] = None
        BY <1>0, <1>4, <1>5, <1>9, <1>15, <3>2 DEF Quiet
      <4>2. catalogLoads'[w].refresh /\ FreshFor(c, catalogLoads[w])'
        BY <1>12, <1>18, <4>1 DEF FreshFor
      <4> QED BY <1>1, <1>15, <4>1, <4>2 DEF Joined
    <3> QED BY <1>9, <1>15, <2>1, <3>1, <3>2 DEF Joined
  <2>2. CASE d # c
    <3>1. Watched(d) /\ Fresh(d) /\ Joined(d) /\ CallsTyped
      BY DEF IInv
    <3>2. call'[d] = call[d] /\ window[d] \subseteq window'[d]
      BY <1>14, <1>15, <2>2
    <3>3. ~Is(d, "idle") => file' \in window'[d]
      BY <1>14, <3>1 DEF Watched
    <3>4. Is(d, "wait") => catalogLoads'[call[d].query.dir] = catalogLoads[call[d].query.dir]
      <4>1. ASSUME Is(d, "wait") PROVE call[d].query.dir \in Workdirs /\ d \in Waiting(call[d].query.dir)
        <5>1. ~Is(d, "idle")
          BY <4>1 DEF Is
        <5> QED BY <4>1, <5>1, QueryIs DEF Waiting
      <4>2. \A v \in Workdirs : d \in Waiting(v) => catalogLoads[v] # None
        BY DEF IInv, Shared
      <4> QED BY <1>18, <4>1, <4>2
    <3> QED BY <1>1, <3>1, <3>2, <3>3, <3>4, WatchedStays, FreshStays, JoinedStays
  <2> QED BY <2>1, <2>2
<1> QED BY <1>16, <1>17, <1>21, <1>22 DEF IInv

-----------------------------------------------------------------------------
(* The loads                                                                  *)

LEMMA MergeIsFresh ==
  ASSUME NEW c, NEW l \in Loads, NEW x \in Snapshots, NEW m \in {Merge(l, x)}, FreshFor(c, l), FreshFor(c, x)
  PROVE  FreshFor(c, m)
<1>1. (m.complete => l.complete /\ x.complete) /\ From(m.seen, l.seen, x.seen)
  BY MergeFields
<1> QED BY <1>1 DEF FreshFor, From

LEMMA ScansNext ==
  ASSUME NEW l \in Loads, NEW m \in {[l EXCEPT !.at = "scan"]}
  PROVE  /\ m \in Loads /\ m.at = "scan" /\ m.refresh = l.refresh /\ m.next = l.next
         /\ m.seen = l.seen /\ m.complete = l.complete
<1>1. m = [at |-> "scan", refresh |-> l.refresh, next |-> l.next, seen |-> l.seen, complete |-> l.complete]
  BY Zenon DEF Loads
<1>2. l.refresh \in Flags /\ l.next \in Nat /\ l.seen \in Seen /\ l.complete \in Flags
  BY DEF Loads, Flags
<1>3. m.at = "scan" /\ m.refresh = l.refresh /\ m.next = l.next
  BY <1>1
<1>4. m.seen = l.seen /\ m.complete = l.complete
  BY <1>1
<1>5. m \in Loads
  BY <1>1, <1>2, Zenon DEF Loads, Flags
<1> QED BY <1>3, <1>4, <1>5

\* A load that has its next root, by the cache or by a scan.
LEMMA LoadIs ==
  ASSUME IInv, NEW w \in Workdirs, catalogLoads[w] # None
  PROVE  /\ catalogLoads[w] \in Loads /\ catalogLoads[w].next \in Nat /\ 1 <= catalogLoads[w].next
         /\ RootsOf[w] \in Seq(Roots)
         /\ catalogLoads[w].next <= Len(RootsOf[w]) =>
              /\ RootsOf[w][catalogLoads[w].next] \in Roots
              /\ catalogLoads[w].next \in DOMAIN RootsOf[w]
         /\ catalogLoads[w].at = "scan" => catalogLoads[w].next <= Len(RootsOf[w])
<1>1. catalogLoads[w] \in Loads /\ InPlace(w) /\ RootsOf[w] \in Seq(Roots)
  BY SkillsAssumption DEF IInv, Shared
<1>2. catalogLoads[w].next \in Nat
  BY <1>1 DEF Loads
<1>3. PICK k \in Nat, p \in Seq(Roots) : k = catalogLoads[w].next /\ p = RootsOf[w]
  BY <1>1, <1>2
<1>4. 1 <= k /\ (catalogLoads[w].at = "scan" => k <= Len(p))
  BY <1>1, <1>3 DEF InPlace
<1>5. k <= Len(p) => p[k] \in Roots /\ k \in DOMAIN p
  BY <1>4
<1> QED BY <1>1, <1>3, <1>4, <1>5

LEMMA ServiceOpen ==
  ASSUME UNCHANGED <<clients, service, catalogs, bodies, world>>
  PROVE  /\ call' = call /\ window' = window /\ closed' = closed /\ catalogs' = catalogs /\ bodies' = bodies
         /\ UNCHANGED <<clients, service, world>>
         /\ \A w : Waiting(w)' = Waiting(w)
BY DEF clients, service, world, Waiting, Is

LEMMA LoadRootKeeps == ASSUME IInv, NEW w \in Workdirs, LoadRoot(w) PROVE IInv'
<1>1. PICK l : l = catalogLoads[w]
  OBVIOUS
<1>2. PICK r : r = RootsOf[w][l.next]
  OBVIOUS
<1>3. /\ l # None /\ l.at = "root" /\ l.next <= Len(RootsOf[w]) /\ ~closed
      /\ UNCHANGED <<clients, service, catalogs, bodies, world>> /\ answer' = None
  BY <1>1 DEF LoadRoot, CheckPasses
<1>4. PICK hit \in BOOLEAN :
        /\ Lookup(rootCache, r, hit) /\ (hit => ~l.refresh)
        /\ rootCache' = Get(rootCache, r, hit)
        /\ IF hit THEN /\ catalogLoads' = [catalogLoads EXCEPT ![w] = Merge(@, Value(rootCache, r))]
                       /\ rootLoads' = rootLoads
           ELSE /\ catalogLoads' = [catalogLoads EXCEPT ![w].at = "scan"]
                /\ rootLoads' = [rootLoads EXCEPT ![r] =
                     IF @ # None THEN @ ELSE [seen |-> <<>>, complete |-> TRUE]]
  BY <1>1, <1>2, Zenon DEF LoadRoot, MayUseCached
<1>5. l \in Loads /\ r \in Roots /\ l.next \in Nat /\ 1 <= l.next
  BY <1>1, <1>2, <1>3, LoadIs
<1>6. /\ call' = call /\ window' = window /\ closed' = closed /\ catalogs' = catalogs /\ bodies' = bodies
      /\ UNCHANGED <<clients, service, world>>
      /\ \A v : Waiting(v)' = Waiting(v)
  BY <1>3, ServiceOpen
<1>7. /\ rootCache' \in Seq(Entries(Roots, Snapshots)) /\ Tidy(rootCache')
      /\ hit => Value(rootCache, r) \in Snapshots
  <2>1. rootCache \in Seq(Entries(Roots, Snapshots)) /\ Tidy(rootCache)
    BY DEF IInv, CachesKept
  <2>2. hit => Has(rootCache, r)
    BY <1>4 DEF Lookup
  <2>3. /\ Get(rootCache, r, hit) \in Seq(Entries(Roots, Snapshots)) /\ Tidy(Get(rootCache, r, hit))
        /\ Has(rootCache, r) => Value(rootCache, r) \in Snapshots
    BY <1>4, <2>1, GetKeeps
  <2> QED BY <1>4, <2>2, <2>3
<1>8. CachesKept'
  BY <1>3, <1>6, <1>7 DEF IInv, CachesKept, Tidy
<1>9. /\ catalogLoads \in [Workdirs -> Loads \cup {None}] /\ rootLoads \in [Roots -> Snapshots \cup {None}]
      /\ \A v \in Workdirs : InPlace(v)
      /\ \A v \in Workdirs : catalogLoads[v] = None <=> Waiting(v) = {}
      /\ \A q \in Roots : rootLoads[q] = None <=> Reading(q) = {}
      /\ \A d \in Clients : Joined(d)
  BY DEF IInv, Shared
<1>10. None \notin Loads /\ None \notin Snapshots
  BY NoneAssumption
<1>11. CASE hit
  <2>1. PICK m : m = Merge(l, Value(rootCache, r))
    OBVIOUS
  <2>2. m \in Loads /\ m.at = "root" /\ m.next = l.next + 1
    BY <1>5, <1>7, <1>11, <2>1, MergeFields
  <2>3. catalogLoads' = [catalogLoads EXCEPT ![w] = m] /\ rootLoads' = rootLoads /\ ~l.refresh
    BY <1>1, <1>4, <1>11, <2>1, <1>9
  <2>4. /\ catalogLoads' \in [Workdirs -> Loads \cup {None}] /\ catalogLoads'[w] = m
        /\ \A v \in Workdirs : v # w => catalogLoads'[v] = catalogLoads[v]
    BY <1>9, <2>2, <2>3
  <2>5. \A q : Reading(q)' = Reading(q)
    BY <1>1, <1>3, <2>2, <2>4 DEF Reading
  <2>6. \A v \in Workdirs : InPlace(v)'
    <3>1. 1 <= m.next
      BY <1>5, <2>2
    <3> QED BY <1>9, <2>2, <2>4, <3>1 DEF InPlace
  <2>7. \A v \in Workdirs : catalogLoads'[v] = None <=> Waiting(v)' = {}
    BY <1>1, <1>3, <1>6, <1>9, <1>10, <2>2, <2>4
  <2>8. Shared'
    BY <1>9, <2>3, <2>4, <2>5, <2>6, <2>7 DEF Shared
  <2>9. \A d \in Clients : Joined(d)'
    <3>1. ASSUME NEW d \in Clients, Is(d, "wait"), call[d].alone PROVE Joined(d)'
      <4>1. PICK v \in Workdirs : v = call[d].query.dir
        BY <3>1, QueryIs DEF Is
      <4>2. Joined(d) /\ CallsTyped
        BY DEF IInv
      <4>3. catalogLoads[v] # None => catalogLoads[v].refresh
        BY <3>1, <4>1, <4>2 DEF Joined
      <4>4. v # w
        BY <1>1, <1>3, <2>3, <4>3
      <4>5. catalogLoads'[call[d].query.dir] = catalogLoads[call[d].query.dir]
        BY <2>4, <4>1, <4>4
      <4>6. call'[d] = call[d] /\ window[d] \subseteq window'[d] /\ \A q \in Roots : rootLoads'[q] = rootLoads[q]
        BY <1>6, <2>3
      <4> QED BY <4>2, <4>5, <4>6, JoinedStays
    <3> QED BY <1>6, <3>1 DEF Joined, Is
  <2> QED BY <1>3, <1>6, <1>8, <2>8, <2>9, LoadsGoOn
<1>12. CASE ~hit
  <2>1. PICK m : m = [l EXCEPT !.at = "scan"]
    OBVIOUS
  <2>2. /\ m \in Loads /\ m.at = "scan" /\ m.refresh = l.refresh /\ m.next = l.next
        /\ m.seen = l.seen /\ m.complete = l.complete
    BY <1>5, <2>1, ScansNext
  <2>3. PICK new : new = [seen |-> <<>>, complete |-> TRUE]
    OBVIOUS
  <2>4. new \in Snapshots /\ DOMAIN new.seen = {}
    <3>1. <<>> \in Seen /\ DOMAIN <<>> = {} /\ new.seen = <<>>
      BY <2>3, NothingSeen
    <3>2. TRUE \in BOOLEAN
      OBVIOUS
    <3>3. new \in Snapshots
      BY <2>3, <3>1, <3>2, Zenon DEF Snapshots
    <3> QED BY <3>1, <3>3
  <2>5. catalogLoads' = [catalogLoads EXCEPT ![w].at = "scan"]
    BY <1>4, <1>12
  <2>6. rootLoads' = [rootLoads EXCEPT ![r] = IF @ # None THEN @ ELSE new]
    BY <1>4, <1>12, <2>3
  <2>7. catalogLoads' = [catalogLoads EXCEPT ![w] = m]
    BY <1>1, <2>1, <2>5, <1>9, Zenon
  <2>8. /\ catalogLoads' \in [Workdirs -> Loads \cup {None}] /\ catalogLoads'[w] = m
        /\ \A v \in Workdirs : v # w => catalogLoads'[v] = catalogLoads[v]
    BY <1>9, <2>2, <2>7
  <2>9. /\ rootLoads' \in [Roots -> Snapshots \cup {None}]
        /\ rootLoads'[r] = IF rootLoads[r] # None THEN rootLoads[r] ELSE new
        /\ \A q \in Roots : q # r => rootLoads'[q] = rootLoads[q]
    BY <1>5, <1>9, <2>4, <2>6
  <2>10. w \in Reading(r)' /\ \A q \in Roots : q # r => Reading(q)' = Reading(q)
    <3>1. \A q \in Roots, v \in Workdirs : q # r => (v \in Reading(q)' <=> v \in Reading(q))
      BY <1>1, <1>2, <1>3, <2>2, <2>8 DEF Reading
    <3>2. w \in Reading(r)'
      BY <1>2, <2>2, <2>8, <1>10 DEF Reading
    <3>3. \A q \in Roots : Reading(q) \subseteq Workdirs /\ Reading(q)' \subseteq Workdirs
      BY DEF Reading
    <3> QED BY <3>1, <3>2, <3>3
  <2>11. \A v \in Workdirs : InPlace(v)'
    BY <1>1, <1>3, <1>5, <1>9, <2>2, <2>8 DEF InPlace
  <2>12. \A v \in Workdirs : catalogLoads'[v] = None <=> Waiting(v)' = {}
    BY <1>1, <1>3, <1>6, <1>9, <1>10, <2>2, <2>8
  <2>13. \A q \in Roots : rootLoads'[q] = None <=> Reading(q)' = {}
    <3>1. rootLoads'[r] # None
      BY <1>10, <2>4, <2>9
    <3> QED BY <1>9, <2>9, <2>10, <3>1
  <2>14. Shared'
    BY <2>8, <2>9, <2>11, <2>12, <2>13 DEF Shared
  <2>15. ASSUME NEW d \in Clients, Is(d, "wait"), call[d].alone PROVE Joined(d)'
    <3>1. PICK v \in Workdirs : v = call[d].query.dir
      BY <2>15, QueryIs DEF Is
    <3>2. /\ call[d].refresh
          /\ catalogLoads[v] # None => catalogLoads[v].refresh /\ FreshFor(d, catalogLoads[v])
          /\ \A i \in DOMAIN RootsOf[v] : rootLoads[RootsOf[v][i]] # None => FreshFor(d, rootLoads[RootsOf[v][i]])
      BY <1>9, <2>15, <3>1 DEF Joined
    <3>3. catalogLoads'[v] # None => catalogLoads'[v].refresh /\ FreshFor(d, catalogLoads[v])'
      BY <1>1, <1>3, <1>6, <2>2, <2>8, <3>2 DEF FreshFor
    <3>4. \A i \in DOMAIN RootsOf[v] : RootsOf[v][i] \in Roots
      BY SkillsAssumption
    <3>5. \A i \in DOMAIN RootsOf[v] : rootLoads'[RootsOf[v][i]] # None => FreshFor(d, rootLoads[RootsOf[v][i]])'
      BY <1>6, <2>4, <2>9, <3>2, <3>4 DEF FreshFor
    <3> QED BY <1>6, <3>1, <3>2, <3>3, <3>5 DEF Joined
  <2>16. \A d \in Clients : Joined(d)'
    BY <1>6, <2>15 DEF Joined, Is
  <2> QED BY <1>3, <1>6, <1>8, <2>14, <2>16, LoadsGoOn
<1> QED BY <1>11, <1>12

LEMMA SeesMore ==
  ASSUME NEW l \in Snapshots, NEW u, NEW n \in {[l EXCEPT !.seen = u]}
  PROVE  n = [seen |-> u, complete |-> l.complete]
BY Zenon DEF Snapshots

LEMMA MissesOne ==
  ASSUME NEW l \in Snapshots, NEW u, NEW n \in {[l EXCEPT !.seen = u, !.complete = FALSE]}
  PROVE  n = [seen |-> u, complete |-> FALSE]
BY Zenon DEF Snapshots

LEMMA ScanKeeps == ASSUME IInv, NEW r \in Roots, NEW s \in Skills, Scan(r, s) PROVE IInv'
<1>1. PICK l : l = rootLoads[r]
  OBVIOUS
<1>2. PICK x, b : /\ \/ x = Shown(file[s]) /\ b = l.complete
                     \/ x = Absent /\ b = FALSE
                  /\ rootLoads' = [rootLoads EXCEPT ![r] = [seen |-> With(l.seen, s, x), complete |-> b]]
  <2>1. l \in Snapshots
    BY <1>1 DEF IInv, Shared, Scan
  <2>2. \/ rootLoads' = [rootLoads EXCEPT ![r].seen = With(@, s, Shown(file[s]))]
        \/ rootLoads' = [rootLoads EXCEPT ![r].seen = With(@, s, Absent), ![r].complete = FALSE]
    BY Zenon DEF Scan
  <2>3. rootLoads \in [Roots -> Snapshots \cup {None}]
    BY DEF IInv, Shared
  <2>4. CASE rootLoads' = [rootLoads EXCEPT ![r].seen = With(@, s, Shown(file[s]))]
    <3>1. PICK y : y = Shown(file[s])
      OBVIOUS
    <3>2. PICK n : n = [l EXCEPT !.seen = With(l.seen, s, y)]
      OBVIOUS
    <3>3. rootLoads' = [rootLoads EXCEPT ![r] = n]
      BY <1>1, <2>3, <2>4, <3>1, <3>2, Zenon
    <3>4. n = [seen |-> With(l.seen, s, y), complete |-> l.complete]
      BY <2>1, <3>2, SeesMore, Zenon
    <3> QED BY <3>1, <3>3, <3>4, Zenon
  <2>5. CASE rootLoads' = [rootLoads EXCEPT ![r].seen = With(@, s, Absent), ![r].complete = FALSE]
    <3>1. PICK n : n = [l EXCEPT !.seen = With(l.seen, s, Absent), !.complete = FALSE]
      OBVIOUS
    <3>2. rootLoads' = [rootLoads EXCEPT ![r] = n]
      BY <1>1, <2>3, <2>5, <3>1, Zenon
    <3>3. n = [seen |-> With(l.seen, s, Absent), complete |-> FALSE]
      BY <2>1, <3>1, MissesOne, Zenon
    <3> QED BY <3>2, <3>3, Zenon
  <2> QED BY <2>2, <2>4, <2>5
<1>3. /\ l # None /\ ~closed /\ UNCHANGED <<clients, service, caches, catalogLoads, world>> /\ answer' = None
  BY <1>1, Zenon DEF Scan, CheckPasses
<1>4. /\ UNCHANGED <<clients, service, world>> /\ UNCHANGED caches /\ catalogLoads' = catalogLoads
      /\ call' = call /\ window' = window /\ closed' = closed
  BY <1>3 DEF clients, service
<1>5. l \in Snapshots /\ l.seen \in Seen /\ rootLoads \in [Roots -> Snapshots \cup {None}] /\ None \notin Snapshots
  BY <1>1, <1>3, NoneAssumption DEF IInv, Shared, Snapshots
<1>6. x \in Files /\ b \in BOOLEAN
  <2>1. file[s] \in Files /\ Absent \in Files
    <3>1. file[s] \in Files
      BY DEF IInv, CallsTyped
    <3>2. 0 \in 0..MaxEdits /\ "disabled" \in Rules
      BY SkillsAssumption DEF Rules
    <3> QED BY <3>1, <3>2 DEF Absent, Files
  <2>2. l.complete \in BOOLEAN
    BY <1>5 DEF Snapshots
  <2> QED BY <1>2, <2>1, <2>2 DEF Shown
<1>7. PICK u : u = With(l.seen, s, x)
  OBVIOUS
<1>8. u \in Seen /\ \A t \in DOMAIN u : (t \in DOMAIN l.seen /\ u[t] = l.seen[t]) \/ (t = s /\ u[t] = x)
  BY <1>5, <1>6, <1>7, WithSeen
<1>9. PICK new : new = [seen |-> u, complete |-> b]
  OBVIOUS
<1>10. new \in Snapshots /\ new.seen = u /\ new.complete = b
  <2>1. new \in Snapshots
    BY <1>6, <1>8, <1>9, Zenon DEF Snapshots
  <2> QED BY <1>9, <2>1
<1>11. /\ rootLoads' \in [Roots -> Snapshots \cup {None}] /\ rootLoads'[r] = new
       /\ \A q \in Roots : q # r => rootLoads'[q] = rootLoads[q]
  BY <1>2, <1>5, <1>7, <1>9, <1>10
<1>12. CachesKept'
  BY <1>4, CachesStay DEF IInv
<1>13. Shared'
  <2>1. \A q \in Roots : Reading(q)' = Reading(q) /\ (rootLoads'[q] = None <=> rootLoads[q] = None)
    BY <1>1, <1>3, <1>4, <1>5, <1>10, <1>11 DEF Reading
  <2>2. \A w \in Workdirs : Waiting(w)' = Waiting(w) /\ (InPlace(w) => InPlace(w)')
    BY <1>4 DEF Waiting, Is, InPlace
  <2> QED BY <1>4, <1>11, <2>1, <2>2 DEF IInv, Shared
<1>14. ASSUME NEW d \in Clients, Is(d, "wait"), call[d].alone PROVE Joined(d)'
  <2>1. PICK v \in Workdirs : v = call[d].query.dir
    BY <1>14, QueryIs DEF Is
  <2>2. /\ call[d].refresh
        /\ catalogLoads[v] # None => catalogLoads[v].refresh /\ FreshFor(d, catalogLoads[v])
        /\ \A i \in DOMAIN RootsOf[v] : rootLoads[RootsOf[v][i]] # None => FreshFor(d, rootLoads[RootsOf[v][i]])
    BY <1>14, <2>1 DEF IInv, Joined
  <2>3. catalogLoads'[v] # None => catalogLoads'[v].refresh /\ FreshFor(d, catalogLoads[v])'
    BY <1>4, <2>2 DEF FreshFor
  <2>4. \A i \in DOMAIN RootsOf[v] : RootsOf[v][i] \in Roots
    BY SkillsAssumption
  <2>5. file \in window[d]
    BY <1>14, QueryIs DEF Is
  <2>6. FreshFor(d, l) => FreshFor(d, new)
    BY <1>2, <1>8, <1>10, <2>5 DEF FreshFor
  <2>7. \A i \in DOMAIN RootsOf[v] : rootLoads'[RootsOf[v][i]] # None => FreshFor(d, rootLoads[RootsOf[v][i]])'
    <3>1. ASSUME NEW i \in DOMAIN RootsOf[v], rootLoads'[RootsOf[v][i]] # None
          PROVE  FreshFor(d, rootLoads[RootsOf[v][i]])'
      <4>1. PICK q \in Roots : q = RootsOf[v][i]
        BY <2>4
      <4>2. rootLoads[q] # None => FreshFor(d, rootLoads[q])
        BY <2>2, <4>1
      <4>3. CASE q = r
        <5>1. FreshFor(d, new)
          BY <1>1, <1>3, <2>6, <4>2, <4>3
        <5> QED BY <1>4, <1>11, <4>1, <4>3, <5>1 DEF FreshFor
      <4>4. CASE q # r
        BY <1>4, <1>11, <3>1, <4>1, <4>2, <4>4 DEF FreshFor
      <4> QED BY <4>3, <4>4
    <3> QED BY <3>1
  <2> QED BY <1>4, <2>1, <2>2, <2>3, <2>7 DEF Joined
<1>15. \A d \in Clients : Joined(d)'
  BY <1>4, <1>14 DEF Joined, Is
<1> QED BY <1>3, <1>4, <1>12, <1>13, <1>15, LoadsGoOn

LEMMA EndScanKeeps == ASSUME IInv, NEW r \in Roots, EndScan(r) PROVE IInv'
<1>1. PICK x : x = rootLoads[r]
  OBVIOUS
<1>2. /\ x # None /\ ~closed /\ rootLoads' = [rootLoads EXCEPT ![r] = None]
      /\ rootCache' = Put(rootCache, r, x)
      /\ catalogLoads' = [w \in Workdirs |-> IF w \in Reading(r) THEN Merge(catalogLoads[w], x) ELSE catalogLoads[w]]
      /\ UNCHANGED <<clients, service, catalogs, bodies, world>> /\ answer' = None
  BY <1>1 DEF EndScan, CheckPasses
<1>3. /\ call' = call /\ window' = window /\ closed' = closed /\ catalogs' = catalogs /\ bodies' = bodies
      /\ UNCHANGED <<clients, service, world>>
      /\ \A v : Waiting(v)' = Waiting(v)
  BY <1>2, ServiceOpen
<1>4. /\ catalogLoads \in [Workdirs -> Loads \cup {None}] /\ rootLoads \in [Roots -> Snapshots \cup {None}]
      /\ None \notin Loads /\ None \notin Snapshots
  BY NoneAssumption DEF IInv, Shared
<1>5. x \in Snapshots
  BY <1>1, <1>2, <1>4
<1>6. CachesKept'
  <2>1. rootCache \in Seq(Entries(Roots, Snapshots)) /\ Tidy(rootCache)
    BY DEF IInv, CachesKept
  <2>2. rootCache' \in Seq(Entries(Roots, Snapshots)) /\ Tidy(rootCache')
    BY <1>2, <1>5, <2>1, PutKeeps
  <2> QED BY <1>2, <1>3, <2>2 DEF IInv, CachesKept, Tidy
<1>7. ASSUME NEW w \in Reading(r)
      PROVE  /\ w \in Workdirs /\ catalogLoads[w] \in Loads /\ catalogLoads[w] # None /\ catalogLoads[w].at = "scan"
             /\ catalogLoads[w].next \in DOMAIN RootsOf[w] /\ RootsOf[w][catalogLoads[w].next] = r
             /\ catalogLoads'[w] \in Loads /\ catalogLoads'[w].at = "root"
             /\ catalogLoads'[w].next = catalogLoads[w].next + 1 /\ 1 <= catalogLoads'[w].next
             /\ catalogLoads'[w].refresh = catalogLoads[w].refresh
             /\ \A d : FreshFor(d, catalogLoads[w]) /\ FreshFor(d, x) => FreshFor(d, catalogLoads[w])'
  <2>1. /\ w \in Workdirs /\ catalogLoads[w] # None /\ catalogLoads[w].at = "scan"
        /\ RootsOf[w][catalogLoads[w].next] = r
    BY DEF Reading
  <2>2. catalogLoads[w] \in Loads /\ catalogLoads[w].next \in DOMAIN RootsOf[w] /\ catalogLoads[w].next \in Nat
    BY <2>1, LoadIs
  <2>3. PICK l \in Loads : l = catalogLoads[w]
    BY <2>2
  <2>4. PICK m : m = Merge(l, x)
    OBVIOUS
  <2>5. catalogLoads'[w] = m
    BY <1>2, <2>1, <2>3, <2>4
  <2>6. m \in Loads /\ m.at = "root" /\ m.next = l.next + 1 /\ m.refresh = l.refresh
    BY <1>5, <2>4, MergeFields
  <2>7. 1 <= m.next
    <3>1. l.next \in Nat
      BY <2>2, <2>3
    <3> QED BY <2>6, <3>1
  <2>8. \A d : FreshFor(d, l) /\ FreshFor(d, x) => FreshFor(d, m)
    BY <1>5, <2>4, MergeIsFresh
  <2>9. \A d : FreshFor(d, catalogLoads[w]) /\ FreshFor(d, x) => FreshFor(d, catalogLoads[w])'
    BY <1>3, <2>3, <2>5, <2>8 DEF FreshFor
  <2> QED BY <2>1, <2>2, <2>3, <2>5, <2>6, <2>7, <2>9
<1>8. \A w \in Workdirs : w \notin Reading(r) => catalogLoads'[w] = catalogLoads[w]
  BY <1>2
<1>9. catalogLoads' \in [Workdirs -> Loads \cup {None}]
  <2>1. \A w \in Workdirs : catalogLoads'[w] \in Loads \cup {None}
    BY <1>4, <1>7, <1>8
  <2> QED BY <1>2, <2>1
<1>10. /\ rootLoads' \in [Roots -> Snapshots \cup {None}] /\ rootLoads'[r] = None
       /\ \A q \in Roots : q # r => rootLoads'[q] = rootLoads[q]
  BY <1>2, <1>4
<1>11. Reading(r)' = {} /\ \A q \in Roots : q # r => Reading(q)' = Reading(q)
  <2>1. \A q \in Roots, w \in Workdirs : w \in Reading(q)' <=> q # r /\ w \in Reading(q)
    BY <1>7, <1>8 DEF Reading
  <2>2. \A q \in Roots : Reading(q) \subseteq Workdirs /\ Reading(q)' \subseteq Workdirs
    BY DEF Reading
  <2> QED BY <2>1, <2>2
<1>12. Shared'
  <2>1. \A w \in Workdirs : InPlace(w)'
    BY <1>7, <1>8 DEF IInv, Shared, InPlace
  <2>2. \A w \in Workdirs : catalogLoads'[w] = None <=> Waiting(w)' = {}
    BY <1>3, <1>4, <1>7, <1>8 DEF IInv, Shared
  <2>3. \A q \in Roots : rootLoads'[q] = None <=> Reading(q)' = {}
    BY <1>10, <1>11 DEF IInv, Shared
  <2> QED BY <1>9, <1>10, <2>1, <2>2, <2>3 DEF Shared
<1>13. ASSUME NEW d \in Clients, Is(d, "wait"), call[d].alone PROVE Joined(d)'
  <2>1. PICK v \in Workdirs : v = call[d].query.dir
    BY <1>13, QueryIs DEF Is
  <2>2. /\ call[d].refresh
        /\ catalogLoads[v] # None => catalogLoads[v].refresh /\ FreshFor(d, catalogLoads[v])
        /\ \A i \in DOMAIN RootsOf[v] : rootLoads[RootsOf[v][i]] # None => FreshFor(d, rootLoads[RootsOf[v][i]])
    BY <1>13, <2>1 DEF IInv, Joined
  <2>3. catalogLoads'[v] # None => catalogLoads'[v].refresh /\ FreshFor(d, catalogLoads[v])'
    <3>1. CASE v \in Reading(r)
      <4>1. FreshFor(d, x)
        <5>1. PICK i \in DOMAIN RootsOf[v] : RootsOf[v][i] = r
          BY <1>7, <3>1
        <5> QED BY <1>1, <1>2, <2>2, <5>1
      <4> QED BY <1>7, <2>2, <3>1, <4>1
    <3>2. CASE v \notin Reading(r)
      BY <1>3, <1>8, <2>2, <3>2 DEF FreshFor
    <3> QED BY <3>1, <3>2
  <2>4. \A i \in DOMAIN RootsOf[v] : RootsOf[v][i] \in Roots
    BY SkillsAssumption
  <2>5. \A i \in DOMAIN RootsOf[v] : rootLoads'[RootsOf[v][i]] # None => FreshFor(d, rootLoads[RootsOf[v][i]])'
    BY <1>3, <1>10, <2>2, <2>4 DEF FreshFor
  <2> QED BY <1>3, <2>1, <2>2, <2>3, <2>5 DEF Joined
<1>14. \A d \in Clients : Joined(d)'
  BY <1>3, <1>13 DEF Joined, Is
<1> QED BY <1>2, <1>3, <1>6, <1>12, <1>14, LoadsGoOn

LEMMA EndLoadKeeps == ASSUME IInv, NEW w \in Workdirs, EndLoad(w) PROVE IInv'
<1>1. PICK l : l = catalogLoads[w]
  OBVIOUS
<1>2. PICK k : k = [seen |-> l.seen, complete |-> l.complete]
  OBVIOUS
<1>3. /\ l # None /\ l.at = "root" /\ ~closed
      /\ catalogs' = Put(catalogs, w, k)
      /\ catalogLoads' = [catalogLoads EXCEPT ![w] = None]
      /\ call' = [c \in Clients |-> IF c \in Waiting(w) THEN Found(c, k) ELSE call[c]]
      /\ answer' = None
      /\ UNCHANGED <<chain, window, service, rootCache, bodies, rootLoads, world>>
  BY <1>1, <1>2, Zenon DEF EndLoad, CheckPasses
<1>4. /\ chain' = chain /\ window' = window /\ active' = active /\ closed' = closed
      /\ rootCache' = rootCache /\ bodies' = bodies /\ rootLoads' = rootLoads /\ file' = file /\ edits' = edits
  BY <1>3 DEF service, world
<1>5. /\ catalogLoads \in [Workdirs -> Loads \cup {None}] /\ None \notin Loads
      /\ \A c \in Clients : Watched(c) /\ Fresh(c) /\ Joined(c)
      /\ CallsTyped
  BY NoneAssumption DEF IInv, Shared
<1>6. k \in Snapshots /\ k.seen = l.seen /\ k.complete = l.complete
  <2>1. l.seen \in Seen /\ l.complete \in BOOLEAN
    BY <1>1, <1>3, <1>5 DEF Loads
  <2>2. k \in Snapshots
    BY <1>2, <2>1, Zenon DEF Snapshots
  <2> QED BY <1>2, <2>2
<1>7. CachesKept'
  <2>1. catalogs \in Seq(Entries(Workdirs, Snapshots)) /\ Tidy(catalogs)
    BY DEF IInv, CachesKept
  <2>2. catalogs' \in Seq(Entries(Workdirs, Snapshots)) /\ Tidy(catalogs')
    BY <1>3, <1>6, <2>1, PutKeeps
  <2> QED BY <1>3, <1>4, <2>2 DEF IInv, CachesKept, Tidy
<1>8. ASSUME NEW c \in Waiting(w)
      PROVE  Watched(c)' /\ Fresh(c)' /\ Joined(c)' /\ call'[c] \in Running /\ call'[c].at # "wait"
  <2>1. c \in Clients /\ Is(c, "wait") /\ ~Is(c, "idle") /\ call[c].query.dir = w
    BY DEF Waiting, Is
  <2>2. PICK n : n = Found(c, k)
    OBVIOUS
  <2>3. call'[c] = n
    BY <1>3, <2>1, <2>2
  <2>4. call[c].alone => call[c].refresh /\ FreshFor(c, k)
    BY <1>1, <1>3, <1>5, <1>6, <2>1 DEF Joined, FreshFor
  <2> QED BY <1>4, <1>6, <2>1, <2>2, <2>3, <2>4, FoundIsFine
<1>9. \A c \in Clients : c \notin Waiting(w) => call'[c] = call[c]
  BY <1>3
<1>10. CallsTyped'
  <2>1. call' \in [Clients -> Running \cup {Idle}]
    <3>1. \A c \in Clients : call'[c] \in Running \cup {Idle}
      BY <1>5, <1>8, <1>9 DEF CallsTyped
    <3> QED BY <1>3, <3>1
  <2> QED BY <1>4, <1>5, <2>1 DEF CallsTyped
<1>11. Slots'
  <2>1. ASSUME NEW c \in Clients PROVE call'[c].at # "idle" <=> call[c].at # "idle"
    <3>1. CASE c \in Waiting(w)
      BY <1>8, <3>1, RunningIs DEF Waiting, Is, Steps
    <3> QED BY <1>9, <3>1
  <2>2. Busy' = Busy
    BY <2>1 DEF Busy, Is
  <2> QED BY <1>4, <2>2 DEF IInv, Slots
<1>12. \A v \in Workdirs : Waiting(v)' = IF v = w THEN {} ELSE Waiting(v)
  <2>1. \A v \in Workdirs, c \in Clients : c \in Waiting(v)' <=> c \in Waiting(v) /\ v # w
    BY <1>8, <1>9 DEF Waiting, Is
  <2>2. \A v \in Workdirs : Waiting(v) \subseteq Clients /\ Waiting(v)' \subseteq Clients
    BY DEF Waiting
  <2> QED BY <2>1, <2>2
<1>13. Shared'
  <2>1. /\ catalogLoads' \in [Workdirs -> Loads \cup {None}] /\ catalogLoads'[w] = None
        /\ \A v \in Workdirs : v # w => catalogLoads'[v] = catalogLoads[v]
    BY <1>3, <1>5
  <2>2. \A r \in Roots : Reading(r)' = Reading(r)
    BY <1>1, <1>3, <2>1 DEF Reading
  <2>3. \A v \in Workdirs : InPlace(v)'
    BY <2>1 DEF IInv, Shared, InPlace
  <2>4. \A v \in Workdirs : catalogLoads'[v] = None <=> Waiting(v)' = {}
    BY <1>12, <2>1 DEF IInv, Shared
  <2> QED BY <1>4, <2>1, <2>2, <2>3, <2>4 DEF IInv, Shared
<1>14. ASSUME NEW c \in Clients, c \notin Waiting(w) PROVE Watched(c)' /\ Fresh(c)' /\ Joined(c)'
  <2>1. call'[c] = call[c] /\ window[c] \subseteq window'[c] /\ Watched(c) /\ Fresh(c) /\ Joined(c)
    BY <1>4, <1>5, <1>9, <1>14
  <2>2. ~Is(c, "idle") => file' \in window'[c]
    BY <1>4, <2>1 DEF Watched
  <2>3. Is(c, "wait") => catalogLoads'[call[c].query.dir] \in {catalogLoads[call[c].query.dir], None}
    <3>1. Is(c, "wait") => call[c].query.dir \in Workdirs
      BY QueryIs DEF Is
    <3> QED BY <1>3, <1>5, <3>1
  <2> QED BY <1>4, <1>5, <2>1, <2>2, <2>3, WatchedStays, FreshStays, JoinedStays
<1>15. ReadIsCurrent' /\ RefreshIsFresh'
  BY <1>3, NoAnswer
<1> QED BY <1>7, <1>8, <1>10, <1>11, <1>13, <1>14, <1>15 DEF IInv

LEMMA RejectKeeps ==
  ASSUME IInv, NEW W \in SUBSET Workdirs, Reject(W),
         \A q \in Roots : rootLoads'[q] \in {rootLoads[q], None},
         rootLoads' \in [Roots -> Snapshots \cup {None}],
         \A q \in Roots : rootLoads'[q] = None <=> Reading(q) \ W = {}
  PROVE  IInv'
<1> DEFINE C == UNION {Waiting(w) : w \in W}
<1>1. Leave(C, None) /\ UNCHANGED world /\ UNCHANGED caches /\ chain' = chain
      /\ catalogLoads' = [w \in Workdirs |-> IF w \in W THEN None ELSE catalogLoads[w]]
  BY DEF Reject
<1>2. C \in SUBSET Busy /\ \A c \in Clients : c \in C <=> Is(c, "wait") /\ call[c].query.dir \in W
  BY DEF Waiting, Busy, Is
<1> HIDE DEF C
<1>3. /\ \A c \in Clients : call'[c] = IF c \in C THEN Idle ELSE call[c]
      /\ answer' = None /\ closed' = closed
  BY <1>1 DEF Leave
<1>4. \A v \in Workdirs : Waiting(v)' = IF v \in W THEN {} ELSE Waiting(v)
  <2>1. \A v \in Workdirs, c \in Clients : c \in Waiting(v)' <=> c \in Waiting(v) /\ v \notin W
    BY <1>2, <1>3 DEF Waiting, Is, Idle
  <2>2. \A v \in Workdirs : Waiting(v) \subseteq Clients /\ Waiting(v)' \subseteq Clients
    BY DEF Waiting
  <2> QED BY <2>1, <2>2
<1>5. \A v \in Workdirs : catalogLoads'[v] = IF v \in W THEN None ELSE catalogLoads[v]
  BY <1>1
<1>6. \A q \in Roots : Reading(q)' = Reading(q) \ W
  <2>1. \A q \in Roots, v \in Workdirs : v \in Reading(q)' <=> v \in Reading(q) /\ v \notin W
    BY <1>5 DEF Reading
  <2>2. \A q \in Roots : Reading(q) \subseteq Workdirs /\ Reading(q)' \subseteq Workdirs
    BY DEF Reading
  <2> QED BY <2>1, <2>2
<1>7. Shared'
  <2>1. catalogLoads' \in [Workdirs -> Loads \cup {None}]
    BY <1>1 DEF IInv, Shared
  <2>2. \A v \in Workdirs : InPlace(v)'
    BY <1>5 DEF IInv, Shared, InPlace
  <2>3. \A v \in Workdirs : catalogLoads'[v] = None <=> Waiting(v)' = {}
    BY <1>4, <1>5 DEF IInv, Shared
  <2>4. \A q \in Roots : rootLoads'[q] = None <=> Reading(q)' = {}
    BY <1>6
  <2> QED BY <2>1, <2>2, <2>3, <2>4 DEF Shared
<1>8. CachesKept' /\ ReadIsCurrent' /\ RefreshIsFresh'
  BY <1>1, <1>3, CachesStay, NoAnswer DEF IInv
<1>9. chain' \in [Clients -> ReadQueries \cup {None}]
  BY <1>1 DEF IInv, CallsTyped
<1>10. \A v \in Workdirs : catalogLoads'[v] \in {catalogLoads[v], None}
  BY <1>5
<1> QED BY <1>1, <1>2, <1>7, <1>8, <1>9, <1>10, CallsEnd

LEMMA LoadFailsKeeps == ASSUME IInv, NEW w \in Workdirs, LoadFails(w) PROVE IInv'
<1>1. catalogLoads[w].at = "root" /\ Reject({w}) /\ rootLoads' = rootLoads
  BY DEF LoadFails
<1>2. \A q \in Roots : Reading(q) \ {w} = Reading(q)
  BY <1>1 DEF Reading
<1>3. /\ rootLoads \in [Roots -> Snapshots \cup {None}]
      /\ \A q \in Roots : rootLoads[q] = None <=> Reading(q) = {}
  BY DEF IInv, Shared
<1>4. {w} \in SUBSET Workdirs
  OBVIOUS
<1>5. \A q \in Roots : rootLoads'[q] \in {rootLoads[q], None} /\ (rootLoads'[q] = None <=> Reading(q) \ {w} = {})
  BY <1>1, <1>2, <1>3
<1> QED BY <1>1, <1>3, <1>4, <1>5, RejectKeeps

LEMMA ScanFailsKeeps == ASSUME IInv, NEW r \in Roots, ScanFails(r) PROVE IInv'
<1>1. rootLoads' = [rootLoads EXCEPT ![r] = None] /\ Reject(Reading(r))
  BY DEF ScanFails
<1>2. Reading(r) \in SUBSET Workdirs
  BY DEF Reading
<1>3. /\ rootLoads \in [Roots -> Snapshots \cup {None}]
      /\ \A q \in Roots : rootLoads[q] = None <=> Reading(q) = {}
  BY DEF IInv, Shared
<1>4. rootLoads' \in [Roots -> Snapshots \cup {None}]
      /\ \A q \in Roots : rootLoads'[q] = IF q = r THEN None ELSE rootLoads[q]
  BY <1>1, <1>3
<1>5. \A q \in Roots : Reading(q) \ Reading(r) = IF q = r THEN {} ELSE Reading(q)
  BY DEF Reading
<1>6. PICK W \in SUBSET Workdirs : W = Reading(r)
  BY <1>2
<1>7. \A q \in Roots : rootLoads'[q] \in {rootLoads[q], None} /\ (rootLoads'[q] = None <=> Reading(q) \ W = {})
  BY <1>3, <1>4, <1>5, <1>6
<1>8. Reject(W)
  BY <1>1, <1>6
<1> QED BY <1>4, <1>7, <1>8, RejectKeeps

-----------------------------------------------------------------------------
(* Calls that begin, edits and the close                                      *)

LEMMA BeginKeeps == ASSUME IInv, NEW c \in Clients, NEW q \in Queries(c), Begin(c, q) PROVE IInv'
<1>1. /\ Is(c, "idle") /\ ~closed /\ active < MaxActive /\ active' = active + 1 /\ answer' = None
      /\ window' = [window EXCEPT ![c] = {file}]
      /\ chain' = [chain EXCEPT ![c] = IF q \in Continue(c) THEN @ ELSE None]
      /\ closed' = closed /\ UNCHANGED caches /\ UNCHANGED loads
      /\ catalogLoads' = catalogLoads /\ rootLoads' = rootLoads /\ file' = file /\ edits' = edits
  BY DEF Begin, loads, world
<1>2. q \in Asked /\ q.refresh \in Flags
  <2>1. chain[c] \in ReadQueries \cup {None}
    BY DEF IInv, CallsTyped
  <2>2. CASE q \in Continue(c)
    BY <2>1, <2>2 DEF Continue, Asked, ReadQueries, Flags
  <2>3. CASE \E w \in Workdirs : q \in Discover(w)
    BY <2>3 DEF Discover, Asked, Flags
  <2>4. CASE \E w \in Workdirs : q \in Read(w)
    <3>1. PICK w \in Workdirs : q \in Read(w)
      BY <2>4
    <3>2. None \in Cursors
      BY DEF Cursors
    <3>3. q \in ReadQueries
      BY <3>1, <3>2 DEF Read, ReadQueries
    <3> QED BY <3>3 DEF Asked, ReadQueries, Flags
  <2>5. q \in Continue(c) \/ \E w \in Workdirs : q \in Discover(w) \/ q \in Read(w)
    BY DEF Queries
  <2> QED BY <2>2, <2>3, <2>4, <2>5
<1>3. PICK n : n = Locals("catalog", q, q.refresh, FALSE, None, FALSE, None)
  OBVIOUS
<1>4. call' = [call EXCEPT ![c] = n]
  BY <1>3, Zenon DEF Begin, Locals
<1>5. n.at = "catalog" /\ ~n.alone
  BY <1>3 DEF Locals
<1>6. n \in Running
  <2>1. "catalog" \in Steps /\ FALSE \in Flags /\ None \in Snapshots \cup {None} /\ None \in Bodies \cup {None}
    BY DEF Steps, Flags
  <2> QED BY <1>2, <1>3, <2>1, LocalsAre
<1>7. call \in [Clients -> Running \cup {Idle}] /\ window \in [Clients -> SUBSET [Skills -> Files]] /\ file \in [Skills -> Files]
  BY DEF IInv, CallsTyped
<1>8. /\ call' \in [Clients -> Running \cup {Idle}] /\ call'[c] = n
      /\ window' \in [Clients -> SUBSET [Skills -> Files]] /\ window'[c] = {file}
      /\ \A d \in Clients : d # c => call'[d] = call[d] /\ window'[d] = window[d]
  BY <1>1, <1>4, <1>6, <1>7
<1>9. CallsTyped'
  <2>1. chain' \in [Clients -> ReadQueries \cup {None}]
    BY <1>1 DEF IInv, CallsTyped
  <2> QED BY <1>1, <1>8, <2>1 DEF IInv, CallsTyped
<1>10. Slots'
  <2>1. Busy' = Busy \cup {c} /\ c \notin Busy
    BY <1>1, <1>5, <1>8 DEF Busy, Is
  <2>2. IsFiniteSet(Busy) /\ active = Cardinality(Busy) /\ MaxActive \in Nat
    BY SkillsAssumption DEF IInv, Slots
  <2>3. IsFiniteSet(Busy \cup {c}) /\ Cardinality(Busy \cup {c}) = Cardinality(Busy) + 1
    BY <2>1, <2>2, FS_AddElement
  <2>4. PICK k \in Nat : k = Cardinality(Busy) /\ active = k
    BY <2>2, FS_CardinalityType
  <2>5. active' = k + 1 /\ Cardinality(Busy \cup {c}) = k + 1
    BY <1>1, <2>3, <2>4
  <2>6. k + 1 <= MaxActive
    BY <1>1, <2>2, <2>4
  <2> QED BY <2>1, <2>3, <2>5, <2>6 DEF Slots
<1>11. \A w \in Workdirs : Waiting(w)' = Waiting(w)
  <2>1. \A w \in Workdirs, d \in Clients : d \in Waiting(w)' <=> d \in Waiting(w)
    BY <1>1, <1>5, <1>8 DEF Waiting, Is
  <2> QED BY <2>1 DEF Waiting
<1>12. Shared'
  BY <1>1, <1>11, SharedStays DEF IInv
<1>13. ASSUME NEW d \in Clients PROVE Watched(d)' /\ Fresh(d)' /\ Joined(d)'
  <2>1. CASE d = c
    BY <1>1, <1>5, <1>8, <2>1 DEF Watched, Fresh, Joined, Is
  <2>2. CASE d # c
    <3>1. Watched(d) /\ Fresh(d) /\ Joined(d) /\ CallsTyped
      BY DEF IInv
    <3>2. call'[d] = call[d] /\ window[d] \subseteq window'[d]
      BY <1>8, <2>2
    <3>3. ~Is(d, "idle") => file' \in window'[d]
      BY <1>1, <1>8, <2>2, <3>1 DEF Watched
    <3> QED BY <1>1, <3>1, <3>2, <3>3, WatchedStays, FreshStays, JoinedStays
  <2> QED BY <2>1, <2>2
<1>14. CachesKept' /\ ReadIsCurrent' /\ RefreshIsFresh'
  BY <1>1, CachesStay, NoAnswer DEF IInv
<1> QED BY <1>9, <1>10, <1>12, <1>13, <1>14 DEF IInv

LEMMA EditKeeps == ASSUME IInv, NEW s \in Skills, Edit(s) PROVE IInv'
<1>1. /\ edits < MaxEdits /\ edits' = edits + 1 /\ answer' = None
      /\ window' = [c \in Clients |-> IF c \in Busy THEN window[c] \cup {file'} ELSE window[c]]
      /\ call' = call /\ chain' = chain /\ active' = active /\ closed' = closed
      /\ UNCHANGED caches /\ UNCHANGED loads /\ catalogLoads' = catalogLoads /\ rootLoads' = rootLoads
  BY DEF Edit, service, loads
<1>2. /\ file \in [Skills -> Files] /\ edits \in 0..MaxEdits /\ MaxEdits \in Nat
      /\ window \in [Clients -> SUBSET [Skills -> Files]]
  BY SkillsAssumption DEF IInv, CallsTyped
<1>3. file[s] \in Files /\ file[s].text \in 0..MaxEdits /\ file[s].rule \in Rules
  BY <1>2 DEF Files
<1>4. PICK x \in Files : file' = [file EXCEPT ![s] = x]
  <2>1. \/ file' = [file EXCEPT ![s] = [text |-> edits + 1, rule |-> IF @ = Absent THEN "open" ELSE @.rule]]
        \/ file' = [file EXCEPT ![s] = Absent]
        \/ \E rule \in Rules : file' = [file EXCEPT ![s].rule = rule]
    BY Zenon DEF Edit
  <2>2. CASE file' = [file EXCEPT ![s] = [text |-> edits + 1, rule |-> IF @ = Absent THEN "open" ELSE @.rule]]
    <3>1. PICK rule \in Rules : rule = IF file[s] = Absent THEN "open" ELSE file[s].rule
      BY <1>3 DEF Rules
    <3>2. edits + 1 \in 0..MaxEdits
      BY <1>1, <1>2
    <3>3. PICK x : x = [text |-> edits + 1, rule |-> rule]
      OBVIOUS
    <3>4. x \in Files
      BY <3>2, <3>3 DEF Files
    <3>5. file' = [file EXCEPT ![s] = x]
      BY <1>2, <2>2, <3>1, <3>3, Zenon
    <3> QED BY <3>4, <3>5, Zenon
  <2>3. CASE file' = [file EXCEPT ![s] = Absent]
    <3>1. Absent \in Files
      BY <1>2 DEF Absent, Files, Rules
    <3> QED BY <2>3, <3>1
  <2>4. CASE \E rule \in Rules : file' = [file EXCEPT ![s].rule = rule]
    <3>1. PICK rule \in Rules : file' = [file EXCEPT ![s].rule = rule]
      BY <2>4
    <3>2. PICK x : x = [file[s] EXCEPT !.rule = rule]
      OBVIOUS
    <3>3. file' = [file EXCEPT ![s] = x]
      BY <1>2, <3>1, <3>2, Zenon
    <3>4. x \in Files
      BY <1>3, <3>2, Zenon DEF Files
    <3> QED BY <3>3, <3>4, Zenon
  <2> QED BY <2>1, <2>2, <2>3, <2>4
<1>5. file' \in [Skills -> Files]
  BY <1>2, <1>4
<1>6. \A c \in Clients : window[c] \subseteq window'[c] /\ (c \in Busy => file' \in window'[c])
  BY <1>1
<1>7. CallsTyped'
  <2>1. window' \in [Clients -> SUBSET [Skills -> Files]]
    <3>1. \A c \in Clients : window'[c] \in SUBSET [Skills -> Files]
      BY <1>1, <1>2, <1>5
    <3> QED BY <1>1, <3>1
  <2>2. edits' \in 0..MaxEdits
    BY <1>1, <1>2
  <2> QED BY <1>1, <1>5, <2>1, <2>2 DEF IInv, CallsTyped
<1>8. Slots'
  BY <1>1 DEF IInv, Slots, Busy, Is
<1>9. Shared'
  BY <1>1, SharedStays DEF IInv, Waiting, Is
<1>10. ASSUME NEW d \in Clients PROVE Watched(d)' /\ Fresh(d)' /\ Joined(d)'
  <2>1. Watched(d) /\ Fresh(d) /\ Joined(d) /\ CallsTyped
    BY DEF IInv
  <2>2. ~Is(d, "idle") => file' \in window'[d]
    BY <1>6 DEF Busy
  <2> QED BY <1>1, <1>6, <2>1, <2>2, WatchedStays, FreshStays, JoinedStays
<1>11. CachesKept' /\ ReadIsCurrent' /\ RefreshIsFresh'
  BY <1>1, CachesStay, NoAnswer DEF IInv
<1> QED BY <1>7, <1>8, <1>9, <1>10, <1>11 DEF IInv

LEMMA EmptyIsTidy == Tidy(<<>>) /\ \A E : <<>> \in Seq(E)
BY SkillsAssumption DEF Tidy

LEMMA CloseKeeps == ASSUME IInv, Close PROVE IInv'
<1>1. /\ closed' = TRUE /\ answer' = None /\ active' = active
      /\ rootCache' = <<>> /\ catalogs' = <<>> /\ bodies' = <<>>
      /\ UNCHANGED clients /\ UNCHANGED loads /\ UNCHANGED world
  BY DEF Close
<1>2. call' = call /\ chain' = chain /\ window' = window /\ file' = file /\ edits' = edits
      /\ catalogLoads' = catalogLoads /\ rootLoads' = rootLoads
  BY <1>1 DEF clients, world, loads
<1>3. CachesKept'
  BY <1>1, EmptyIsTidy DEF CachesKept, Tidy
<1>4. CallsTyped' /\ Slots'
  BY <1>1, <1>2 DEF IInv, CallsTyped, Slots, Busy, Is
<1>5. Shared'
  BY <1>1, <1>2, SharedStays DEF IInv, Waiting, Is
<1>6. ASSUME NEW d \in Clients PROVE Watched(d)' /\ Fresh(d)' /\ Joined(d)'
  <2>1. Watched(d) /\ Fresh(d) /\ Joined(d) /\ CallsTyped
    BY DEF IInv
  <2>2. ~Is(d, "idle") => file' \in window'[d]
    BY <1>2, <2>1 DEF Watched
  <2> QED BY <1>2, <2>1, <2>2, WatchedStays, FreshStays, JoinedStays
<1>7. ReadIsCurrent' /\ RefreshIsFresh'
  BY <1>1, NoAnswer
<1> QED BY <1>3, <1>4, <1>5, <1>6, <1>7 DEF IInv

-----------------------------------------------------------------------------
LEMMA InitIInv == ASSUME Init PROVE IInv
<1>1. \A c \in Clients : call[c].at = "idle"
  BY DEF Init, Idle
<1>2. CallsTyped
  <2>1. Absent \in Files
    BY SkillsAssumption DEF Absent, Files, Rules
  <2>2. closed \in BOOLEAN /\ edits \in 0..MaxEdits
    <3>1. edits = 0 /\ MaxEdits \in Nat
      BY SkillsAssumption DEF Init
    <3>2. closed \in BOOLEAN
      BY DEF Init
    <3> QED BY <3>1, <3>2
  <2>3. call \in [Clients -> Running \cup {Idle}] /\ chain \in [Clients -> ReadQueries \cup {None}]
    BY DEF Init
  <2>4. file \in [Skills -> Files] /\ window \in [Clients -> SUBSET [Skills -> Files]]
    BY <2>1 DEF Init
  <2> QED BY <2>2, <2>3, <2>4 DEF CallsTyped
<1>3. CachesKept
  BY EmptyIsTidy DEF Init, CachesKept
<1>4. Shared
  BY <1>1 DEF Init, Shared, InPlace, Waiting, Reading, Is
<1>5. Slots
  <2>1. Busy = {}
    BY <1>1 DEF Busy, Is
  <2> QED BY <2>1, FS_EmptySet, SkillsAssumption DEF Init, Slots
<1>6. \A c \in Clients : Watched(c) /\ Fresh(c) /\ Joined(c)
  BY <1>1 DEF Watched, Fresh, Joined, Is
<1>7. ReadIsCurrent /\ RefreshIsFresh
  BY DEF Init, ReadIsCurrent, RefreshIsFresh, Answered
<1> QED BY <1>2, <1>3, <1>4, <1>5, <1>6, <1>7 DEF IInv

LEMMA StutterKeeps == ASSUME IInv, UNCHANGED vars PROVE IInv'
<1>1. UNCHANGED clients /\ answer' = answer /\ UNCHANGED service /\ UNCHANGED caches /\ UNCHANGED loads /\ UNCHANGED world
  BY DEF vars
<1>2. /\ call' = call /\ chain' = chain /\ window' = window /\ answer' = answer /\ active' = active /\ closed' = closed
      /\ rootCache' = rootCache /\ catalogs' = catalogs /\ bodies' = bodies
      /\ rootLoads' = rootLoads /\ catalogLoads' = catalogLoads /\ file' = file /\ edits' = edits
  BY <1>1 DEF clients, service, caches, loads, world
<1>3. CallsTyped' /\ Slots' /\ CachesKept'
  BY <1>1, <1>2, CachesStay DEF IInv, CallsTyped, Slots, Busy, Is
<1>4. Shared'
  BY <1>1, <1>2, SharedStays DEF IInv, Waiting, Is
<1>5. ASSUME NEW d \in Clients PROVE Watched(d)' /\ Fresh(d)' /\ Joined(d)'
  <2>1. Watched(d) /\ Fresh(d) /\ Joined(d) /\ CallsTyped
    BY DEF IInv
  <2>2. ~Is(d, "idle") => file' \in window'[d]
    BY <1>2, <2>1 DEF Watched
  <2> QED BY <1>2, <2>1, <2>2, WatchedStays, FreshStays, JoinedStays
<1>6. ReadIsCurrent' /\ RefreshIsFresh'
  BY <1>2 DEF IInv, ReadIsCurrent, RefreshIsFresh, Answered, FromDuring
<1> QED BY <1>3, <1>4, <1>5, <1>6 DEF IInv

\* Every step keeps IInv, one lemma per action.
THEOREM IInvInvariant == Spec => []IInv
<1>1. Init => IInv
  BY InitIInv
<1>2. ASSUME IInv, [Next]_vars PROVE IInv'
  <2>1. ASSUME NEW c \in Clients, Progress(c) PROVE IInv'
    <3>1. CASE Cached(c) \/ Join(c) \/ Policy(c) \/ Identity(c)
      BY <1>2, <3>1, CachedKeeps, JoinKeeps, PolicyKeeps, IdentityKeeps
    <3>2. CASE Text(c) \/ Decide(c) \/ CallFails(c)
      BY <1>2, <3>2, TextKeeps, DecideKeeps, CallFailsKeeps
    <3>3. CASE List(c)
      <4>1. Is(c, "list") /\ Answer(c, "list", call[c].found, <<>>) /\ UNCHANGED chain
        BY <3>3 DEF List
      <4>2. PICK kind \in {"list", "missing"} : kind = "list"
        OBVIOUS
      <4>3. Answer(c, kind, call[c].found, <<>>)
        BY <4>1, <4>2
      <4> QED BY <1>2, <4>1, <4>3, ListKeeps
    <3>4. CASE Missing(c)
      <4>1. Is(c, "missing") /\ Answer(c, "missing", call[c].found, <<>>) /\ UNCHANGED chain
        BY <3>4 DEF Missing
      <4>2. PICK kind \in {"list", "missing"} : kind = "missing"
        OBVIOUS
      <4>3. Answer(c, kind, call[c].found, <<>>)
        BY <4>1, <4>2
      <4> QED BY <1>2, <4>1, <4>3, ListKeeps
    <3> QED BY <2>1, <3>1, <3>2, <3>3, <3>4 DEF Progress
  <2>2. ASSUME NEW c \in Clients, Refuse(c) \/ \E q \in Queries(c) : Begin(c, q) PROVE IInv'
    BY <1>2, <2>2, RefuseKeeps, BeginKeeps
  <2>3. ASSUME NEW w \in Workdirs, Load(w) PROVE IInv'
    BY <1>2, <2>3, LoadRootKeeps, EndLoadKeeps, LoadFailsKeeps DEF Load
  <2>4. ASSUME NEW r \in Roots, ScanStep(r) PROVE IInv'
    BY <1>2, <2>4, EndScanKeeps, ScanFailsKeeps, ScanKeeps DEF ScanStep
  <2>5. ASSUME NEW s \in Skills, Edit(s) PROVE IInv'
    BY <1>2, <2>5, EditKeeps
  <2>6. CASE Close
    BY <1>2, <2>6, CloseKeeps
  <2>7. CASE UNCHANGED vars
    BY <1>2, <2>7, StutterKeeps
  <2> QED BY <1>2, <2>1, <2>2, <2>3, <2>4, <2>5, <2>6, <2>7 DEF Next
<1> QED BY <1>1, <1>2, PTL DEF Spec

-----------------------------------------------------------------------------
\* Every call, cache and load is as its code declares it, and no cache exceeds its capacity.
THEOREM TypeCorrect == Spec => []TypeOK
<1>1. IInv => TypeOK
  <2> SUFFICES ASSUME IInv PROVE TypeOK
    OBVIOUS
  <2>1. \A c \in Clients : call[c].at \in Steps \cup {"idle"}
    <3>1. \A c \in Clients : call[c] \in Running \/ call[c].at = "idle"
      BY DEF IInv, CallsTyped, Idle
    <3> QED BY <3>1, RunningIs
  <2>2. active \in 0..MaxActive
    <3>1. active \in Nat /\ active <= MaxActive /\ MaxActive \in Nat
      BY SkillsAssumption, FS_CardinalityType DEF IInv, Slots
    <3> QED BY <3>1
  <2>3. \A cache \in {rootCache, catalogs, bodies} :
          Len(cache) <= Capacity /\ \A i, j \in DOMAIN cache : cache[i].key = cache[j].key => i = j
    BY DEF IInv, CachesKept, Tidy
  <2> QED BY <2>1, <2>2, <2>3 DEF IInv, CallsTyped, TypeOK
<1> QED BY <1>1, IInvInvariant, PTL

\* Each running call has one slot, and a load or a scan is under way just while somebody
\* waits for it.
THEOREM EveryWaitIsServed == Spec => []WaitIsServed
<1>1. IInv => WaitIsServed
  BY DEF IInv, Slots, Shared, WaitIsServed
<1> QED BY <1>1, IInvInvariant, PTL

\* A page comes from the files as they were during the call.
THEOREM PagesAreCurrent == Spec => []ReadIsCurrent
<1>1. IInv => ReadIsCurrent
  BY DEF IInv
<1> QED BY <1>1, IInvInvariant, PTL

\* A refreshing call that found no load under way answers by the files as they were during it.
THEOREM RefreshesAreFresh == Spec => []RefreshIsFresh
<1>1. IInv => RefreshIsFresh
  BY DEF IInv
<1> QED BY <1>1, IInvInvariant, PTL

LEMMA ClosedAnswersNothing ==
  ASSUME closed, Next
  PROVE  closed' /\ (answer' = None \/ answer'.kind = "missing")
<1>0. ASSUME NEW c, NEW n, Update(c, n) PROVE closed' /\ answer' = None
  BY <1>0 DEF Update, service
<1>1. ASSUME NEW C, NEW result, Leave(C, result) PROVE closed' /\ answer' = result
  BY <1>1 DEF Leave
<1>2. ASSUME NEW c \in Clients, Progress(c) PROVE closed' /\ (answer' = None \/ answer'.kind = "missing")
  <2>1. ~Cached(c) /\ ~Join(c) /\ ~List(c) /\ ~Text(c)
    BY Zenon DEF Cached, Join, List, Text, CheckPasses
  <2>2. CASE Missing(c)
    <3>1. Answer(c, "missing", call[c].found, <<>>)
      BY <2>2 DEF Missing
    <3>2. PICK k, p : k = call[c].found /\ p = <<>>
      OBVIOUS
    <3>3. Answer(c, "missing", k, p)
      BY <3>1, <3>2
    <3>4. answer'.kind = "missing" /\ closed' = closed
      BY <3>3, AnswerSays
    <3> QED BY <3>4
  <2>3. CASE Policy(c)
    <3>1. PICK n : n = [call[c] EXCEPT !.at = "identity", !.open = ImplicitAllowed(Target(c))]
      OBVIOUS
    <3>2. Update(c, n)
      BY <2>3, <3>1, Zenon DEF Policy
    <3> QED BY <1>0, <3>2
  <2>4. CASE Identity(c)
    <3>1. (\E n : Update(c, n)) \/ Fail(c)
      BY <2>4, Zenon DEF Identity
    <3>2. ASSUME Fail(c) PROVE closed' /\ answer' = None
      BY <1>1, <3>2 DEF Fail
    <3> QED BY <1>0, <3>1, <3>2
  <2>5. CASE Decide(c)
    <3>1. Fail(c)
      BY <2>5 DEF Decide, CheckPasses
    <3> QED BY <1>1, <3>1 DEF Fail
  <2>6. CASE CallFails(c)
    BY <1>1, <2>6 DEF CallFails, Fail
  <2> QED BY <1>2, <2>1, <2>2, <2>3, <2>4, <2>5, <2>6 DEF Progress
<1>3. ASSUME NEW c \in Clients, Refuse(c) PROVE closed' /\ answer' = None
  BY <1>3 DEF Refuse, service
<1>4. ASSUME NEW c \in Clients, NEW q \in Queries(c) PROVE ~Begin(c, q)
  BY DEF Begin
<1>5. ASSUME NEW w \in Workdirs, Load(w) PROVE closed' /\ answer' = None
  <2>1. ~LoadRoot(w) /\ ~EndLoad(w)
    BY Zenon DEF LoadRoot, EndLoad, CheckPasses
  <2>2. Leave(UNION {Waiting(v) : v \in {w}}, None)
    BY <1>5, <2>1 DEF Load, LoadFails, Reject
  <2> QED BY <2>2 DEF Leave
<1>6. ASSUME NEW r \in Roots, ScanStep(r) PROVE closed' /\ answer' = None
  <2>1. ~EndScan(r) /\ \A s \in Skills : ~Scan(r, s)
    BY Zenon DEF EndScan, Scan, CheckPasses
  <2>2. Leave(UNION {Waiting(v) : v \in Reading(r)}, None)
    BY <1>6, <2>1 DEF ScanStep, ScanFails, Reject
  <2> QED BY <2>2 DEF Leave
<1>7. ASSUME NEW s \in Skills, Edit(s) PROVE closed' /\ answer' = None
  BY <1>7 DEF Edit, service
<1>8. CASE Close
  BY <1>8 DEF Close
<1> QED BY <1>2, <1>3, <1>4, <1>5, <1>6, <1>7, <1>8 DEF Next

\* Once close() has returned nothing is cached again and no call succeeds.
THEOREM ClosedForGood == Spec => ClosedIsFinal
<1>1. IInv /\ [Next]_vars /\ IInv' =>
        [closed => /\ rootCache' = <<>> /\ catalogs' = <<>> /\ bodies' = <<>>
                   /\ answer' = None \/ answer'.kind = "missing"]_vars
  BY ClosedAnswersNothing DEF IInv, CachesKept
<1> QED BY <1>1, IInvInvariant, PTL DEF Spec, ClosedIsFinal
=============================================================================
