------------------------------ MODULE LogQuery ------------------------------
(***************************************************************************)
(* The output log of one command (output-log.ts) and the queries over it    *)
(* (log-query.ts), followed page by page while output arrives and the front *)
(* of the log is trimmed away.  Offsets count bytes; of a byte the model    *)
(* keeps whether it goes on with a character, is a newline, or another.     *)
(* The blocks of OutputLog are storage only.  A query is one step: reads of *)
(* a live log are synchronous, and a log on disk, of which HistoryStore     *)
(* takes the end when the call starts, is only appended to (Capacity large, *)
(* no Squeeze).                                                             *)
(***************************************************************************)
EXTENDS Integers, Sequences, FiniteSets, FiniteSetsExt

CONSTANTS Texts,        \* the characters the process may write, as their bytes
          Needle,       \* what is searched for, whole characters too
          Capacity,     \* of this log; the budget of all logs may leave it less
          Budget,       \* bytes of an answer, at least a character
          Scan,         \* SCAN_BYTES
          MaxMatches, MaxLines,
          MaxBytes      \* bound: bytes written

ASSUME LogAssumption == /\ {Capacity, Budget, Scan, MaxMatches, MaxLines} \subseteq Nat \ {0}
                        /\ MaxBytes \in Nat
                        /\ Texts \subseteq Seq(STRING) \ {<<>>} /\ Needle \in Seq(STRING) \ {<<>>}
                        /\ \A t \in Texts : Len(t) <= Budget
                        \* UTF-8: the first byte of a character is no byte inside one, and tells its length,
                        \* so that the needle begins and ends where characters do.
                        /\ \A t \in Texts : t[1] # "more" /\ \A k \in 2..Len(t) : t[k] = "more"
                        /\ Needle[1] # "more"
                        /\ \A t \in Texts, k \in 1..Len(Needle) :
                             Needle[k] = t[1] /\ (\A j \in (k + 1)..Len(Needle) : Needle[j] = "more") =>
                               Len(t) = Len(Needle) - k + 1
                        \* A window is wider than the needle and the characters cut at both its ends.
                        /\ \A t \in Texts : 2 * Len(t) + Len(Needle) < Scan + 3

VARIABLES output,       \* every byte written so far; offset i is output[i + 1]
          retainedFrom,
          cursor,       \* the session's default cursor
          search,       \* a client's search: where it goes on, and whether there is more
          matches,      \* the offsets it was told
          lost          \* history: offsets that were gone when its pages asked for them

logVars == <<output, retainedFrom, cursor, search, matches, lost>>

Greater(a, b) == IF a > b THEN a ELSE b
Lesser(a, b) == IF a < b THEN a ELSE b
\* No character is cut at offset i of the bytes t; the next and the last such offset.
Boundary(t, i) == i < Len(t) => t[i + 1] # "more"
NextBoundary(t, i) == Min({j \in i..Len(t) : Boundary(t, j)})
LastBoundary(t, from, i) == Max({from} \cup {j \in from..i : Boundary(t, j)})
End == Len(output)
NewlineAt(i) == output[i + 1] = "newline"

LogInit == /\ output = <<>> /\ retainedFrom = 0 /\ cursor = 0
           /\ search = [at |-> 0, more |-> TRUE] /\ matches = {} /\ lost = {}

-----------------------------------------------------------------------------
(* OutputLog                                                                 *)

\* Where the log starts once only `bytes' of t are to be kept.
TrimmedToByte(t, bytes) == Greater(retainedFrom, Len(t) - bytes)
Trimmed(t, bytes) == NextBoundary(t, Greater(retainedFrom, Len(t) - bytes))

Write(t) == /\ End + Len(t) <= MaxBytes
            /\ output' = output \o t
            /\ retainedFrom' = Trimmed(output', Capacity)
            /\ UNCHANGED <<cursor, search, matches, lost>>
\* enforceOutputBudget() leaves this log less than its own capacity.
Squeeze(bytes) == /\ bytes < End - retainedFrom
                  /\ retainedFrom' = Trimmed(output, bytes)
                  /\ UNCHANGED <<output, cursor, search, matches, lost>>

\* read(): what a cursor may be, and the bytes first..(next - 1) it gives.
Usable(c) == c <= End /\ Boundary(output, Greater(c, retainedFrom))
Page(c, budget) == LET first == Greater(c, retainedFrom)
                   IN [first |-> first, next |-> LastBoundary(output, first, Lesser(End, first + budget))]

Poll == /\ Usable(cursor)
        /\ cursor' = Page(cursor, Budget).next
        /\ UNCHANGED <<output, retainedFrom, search, matches, lost>>

-----------------------------------------------------------------------------
(* queryLog()                                                                *)

Occurrences(from, to) == {o \in from..(to - Len(Needle)) : SubSeq(output, o + 1, o + Len(Needle)) = Needle}

\* The first n matches in from..(to - 1), one after another, and where the last of them ends.
Greedy(from, to, n) ==
  LET found[k \in 0..n] ==
        IF k = 0 THEN [taken |-> {}, at |-> from]
        ELSE LET here == Occurrences(found[k - 1].at, to)
             IN IF here = {} THEN found[k - 1]
                ELSE [taken |-> found[k - 1].taken \cup {Min(here)}, at |-> Min(here) + Len(Needle)]
  IN found[n]

\* Where the next scan starts: at the match that found no room, or so that one across the window is not lost.
GoOnAtWindow(at, page) == IF Occurrences(at, page.next) # {} THEN Min(Occurrences(at, page.next)) ELSE page.next
GoOn(at, page) ==
  LET left == Occurrences(at, page.next)
  IN IF left # {} THEN Min(left)
     ELSE IF page.next = End THEN page.next
     ELSE LastBoundary(output, at, Greater(at, page.next - Len(Needle) + 1))

\* One answer of a search.  Its budget may leave room for fewer matches than were asked for, but for one at least.
Search == LET page == Page(search.at, Scan) IN
  /\ search.more /\ Usable(search.at)
  /\ \E n \in 1..MaxMatches :
       LET found == Greedy(page.first, page.next, n)
           next == GoOn(found.at, page)
       IN /\ search' = [at |-> next, more |-> next < End]
          /\ matches' = matches \cup found.taken
  /\ lost' = lost \cup (search.at..(page.first - 1))
  /\ UNCHANGED <<output, retainedFrom, cursor>>

\* The newlines that end a line before the last, a newline at the very end not counted.
EveryNewline(from) == {i \in from..(End - 1) : NewlineAt(i)}
Newlines(from) == {i \in from..(End - 2) : NewlineAt(i)}

\* The last n lines, within the scanned window and then the budget.
LastLines(n) ==
  LET from == NextBoundary(output, Greater(retainedFrom, End - Scan))
      newlines == Newlines(from)
      desired == IF Cardinality(newlines) < n THEN from
                 ELSE 1 + CHOOSE i \in newlines : Cardinality({j \in newlines : j >= i}) = n
      first == NextBoundary(output, Greater(desired, End - Budget))
      limited == from > retainedFrom /\ Cardinality(newlines) < n
  IN [first |-> first, truncated |-> first > desired \/ limited]

LogNext == \/ \E t \in Texts : Write(t)
           \/ \E bytes \in 0..Capacity : Squeeze(bytes)
           \/ Poll \/ Search

LogSpec == LogInit /\ [][LogNext]_logVars

-----------------------------------------------------------------------------
(* A cursor once handed out can be used at any later time, whatever was      *)
(* written and trimmed since, and leads on as long as there is something     *)
(* behind it: no client is stuck inside a character, on an empty page or on  *)
(* a search that goes on where it was.                                       *)
LeadsOn(c, budget) == Usable(c) /\ (c < End => Page(c, budget).next > c)
CursorsLeadOn == /\ LeadsOn(cursor, Budget) /\ LeadsOn(search.at, Scan)
                 /\ search.at < End =>
                      LET page == Page(search.at, Scan)
                      IN GoOn(Greedy(page.first, page.next, 1).at, page) > search.at

(* A search followed by search_next_cursor reports occurrences only, none    *)
(* overlapping another, and passes none over: where it has been, each one    *)
(* was reported, overlaps a reported one, or had lost bytes.                 *)
Touches(o, p) == o - p \in (1 - Len(Needle))..(Len(Needle) - 1)
SearchIsComplete ==
  /\ matches \subseteq Occurrences(0, search.at)
  /\ \A o, p \in matches : o # p => ~Touches(o, p)
  /\ \A o \in Occurrences(0, search.at) : \/ \E p \in matches : Touches(o, p)
                                          \/ \E i \in lost : i \in o..(o + Len(Needle) - 1)

(* A tail that does not say it was truncated holds exactly the last n lines  *)
(* of what is retained; a truncated one is an end of them; neither exceeds   *)
(* the budget or cuts a character.                                           *)
StartOfLast(n) == Min({s \in retainedFrom..End : Cardinality({i \in s..(End - 2) : NewlineAt(i)}) < n})
TailIsLastLines == \A n \in 1..MaxLines : LET answer == LastLines(n) IN
  /\ answer.first >= StartOfLast(n) /\ (~answer.truncated => answer.first = StartOfLast(n))
  /\ Boundary(output, answer.first) /\ End - answer.first <= Budget
=============================================================================
