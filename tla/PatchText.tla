------------------------------ MODULE PatchText ------------------------------
(***************************************************************************)
(* updateText() of src/runtime/patch-parser.ts: the chunks of an update      *)
(* hunk, as parsePatch() leaves them, applied to the text of a file.  A line *)
(* is its text and its ending; of a text the model keeps a word and how it   *)
(* is dressed: plainly, with space behind, with space before, in typographic *)
(* characters.  seekSequence() looks through one dressing more at each pass. *)
(* An offset counts the lines before it.                                     *)
(***************************************************************************)
EXTENDS Integers, Sequences, FiniteSets, SequencesExt, FiniteSetsExt

CONSTANTS Words,        \* what a line may say, however it is dressed
          Sources,      \* the files that updates are made to
          ChunkLists    \* and the chunks of these updates

Dressed == [word : Words, dressing : 0..3]
Line == [text : Dressed, eol : {"lf", "crlf", ""}]
(* A chunk: its lines, marked kept, removed or added; an @@ context or none;  *)
(* End of File.                                                              *)
ChunkLine == [mark : {"kept", "removed", "added"}, text : Dressed]
Chunk == [lines : Seq(ChunkLine), context : {<<>>} \cup {<<t>> : t \in Dressed}, eof : BOOLEAN]

ASSUME TextAssumption == Sources \subseteq Seq(Line) /\ ChunkLists \subseteq Seq(Chunk)

NotFound == -1
Larger(m, n) == IF m > n THEN m ELSE n
Looks(t, pass) == IF t.dressing < pass THEN [t EXCEPT !.dressing = 0] ELSE t
TextsOf(lines) == [i \in DOMAIN lines |-> lines[i].text]

\* Behind offset i the lines of a pattern follow; the first such offset of the earliest pass that finds one.
Reads(texts, pattern, i, pass) == \A j \in DOMAIN pattern : Looks(texts[i + j], pass) = Looks(pattern[j], pass)
Seek(texts, pattern, start, eof) ==
  LET first == IF eof THEN Larger(start, Len(texts) - Len(pattern)) ELSE start
      Places(pass) == {i \in first..(Len(texts) - Len(pattern)) : Reads(texts, pattern, i, pass)}
      passes == {pass \in 1..4 : Places(pass) # {}}
  IN IF pattern = <<>> THEN start ELSE IF passes = {} THEN NotFound ELSE Min(Places(Min(passes)))

\* What parsePatch() makes of a chunk's lines: those sought, and what is to stand there, of
\* which each is a text or the place of one of the former.
Taken(parsed, line) ==
  [old |-> IF line.mark = "added" THEN parsed.old ELSE Append(parsed.old, line.text),
   new |-> IF line.mark = "removed" THEN parsed.new
           ELSE Append(parsed.new, [text |-> line.text, old |-> IF line.mark = "kept" THEN Len(parsed.old) + 1 ELSE 0])]
Parsed(lines) ==
  LET parsed[j \in 0..Len(lines)] == IF j = 0 THEN [old |-> <<>>, new |-> <<>>] ELSE Taken(parsed[j - 1], lines[j])
  IN parsed[Len(lines)]
Old(chunk) == Parsed(chunk.lines).old
NoContext(chunk) == chunk.context = <<>>

\* Where each chunk goes, and from where the next one is sought.
FromTheTop(chunk, at) == 0
GoOnAfter(chunk, at) == at + Len(Old(chunk))
Nowhere == [at |-> NotFound, from |-> 0]
PlaceOf(texts, chunk, last) ==
  LET context == Seek(texts, chunk.context, last.from, FALSE)
      from == IF NoContext(chunk) THEN last.from ELSE IF context = NotFound THEN NotFound ELSE context + 1
      at == IF from = NotFound THEN NotFound
            ELSE IF Old(chunk) # <<>> THEN Seek(texts, Old(chunk), from, chunk.eof)
            ELSE IF NoContext(chunk) THEN Len(texts) ELSE from
  IN IF last.at = NotFound \/ at = NotFound THEN Nowhere ELSE [at |-> at, from |-> GoOnAfter(chunk, at)]
Placed(texts, chunks) ==
  LET placed[k \in 0..Len(chunks)] == IF k = 0 THEN [at |-> 0, from |-> 0] ELSE PlaceOf(texts, chunks[k], placed[k - 1])
  IN placed

\* The most frequent line ending, of equals the one that comes first.
DefaultEol(source) ==
  LET Of(e) == {i \in DOMAIN source : source[i].eol = e}
      used == {e \in {"lf", "crlf"} : Of(e) # {}}
      Before(e, f) == \/ Cardinality(Of(e)) > Cardinality(Of(f))
                      \/ Cardinality(Of(e)) = Cardinality(Of(f)) /\ Min(Of(e)) <= Min(Of(f))
  IN IF used = {} THEN "lf" ELSE CHOOSE e \in used : \A f \in used : Before(e, f)

\* What stands in the place of a chunk: kept lines are the file's own.
Replacement(source, chunk, at) ==
  LET new == Parsed(chunk.lines).new
  IN [i \in DOMAIN new |-> IF new[i].old = 0 THEN [text |-> new[i].text, eol |-> DefaultEol(source)]
                           ELSE source[at + new[i].old]]

\* The lines inside get an ending, the last one as the last of the file had it.
WithEol(line, eol) == IF line.eol = "" THEN [line EXCEPT !.eol = eol] ELSE line
WithEndings(lines, source) ==
  [i \in DOMAIN lines |->
     IF i = Len(lines) /\ source # <<>> /\ Last(source).eol = "" THEN [lines[i] EXCEPT !.eol = ""]
     ELSE WithEol(lines[i], DefaultEol(source))]

\* CONTEXT_MISMATCH, or else the new text.
Mismatch(source, chunks) == Placed(TextsOf(source), chunks)[Len(chunks)].at = NotFound
UpdateText(source, chunks) ==
  LET placed == Placed(TextsOf(source), chunks)
      joined[k \in 0..Len(chunks)] ==
        IF k = 0 THEN <<>>
        ELSE joined[k - 1] \o SubSeq(source, placed[k - 1].from + 1, placed[k].at)
                           \o Replacement(source, chunks[k], placed[k].at)
  IN WithEndings(joined[Len(chunks)] \o SubSeq(source, placed[Len(chunks)].from + 1, Len(source)), source)

-----------------------------------------------------------------------------
(* The reference: a placement gives every chunk, in order and apart from each *)
(* other, lines that read as it says (in the pass `pass'), after its context   *)
(* and, if it says so, at the end of the file; a chunk that only adds stands   *)
(* after its context, or at the end.                                           *)
Fits(texts, chunk, from, at, pass) ==
  /\ from <= at /\ at + Len(Old(chunk)) <= Len(texts)
  /\ Reads(texts, Old(chunk), at, pass)
  /\ ~NoContext(chunk) => \E c \in from..(at - 1) : Reads(texts, chunk.context, c, pass)
  /\ (IF Old(chunk) = <<>> THEN NoContext(chunk) ELSE chunk.eof) => at + Len(Old(chunk)) = Len(texts)
EndBefore(chunks, at, k) == IF k = 1 THEN 0 ELSE at[k - 1] + Len(Old(chunks[k - 1]))
Placements(texts, chunks, pass) ==
  {at \in [DOMAIN chunks -> 0..Len(texts)] :
     \A k \in DOMAIN chunks : Fits(texts, chunks[k], EndBefore(chunks, at, k), at[k], pass)}

\* The texts that a placement leaves: of the file what no chunk removes, and what each adds.
Sought(lines, j) == Cardinality({i \in 1..j : lines[i].mark # "added"})
Left(texts, lines, at) ==
  [j \in DOMAIN lines |-> IF lines[j].mark = "kept" THEN <<texts[at + Sought(lines, j)]>>
                          ELSE IF lines[j].mark = "added" THEN <<lines[j].text>> ELSE <<>>]
Edited(texts, chunks, at) ==
  LET Gap(k, end) == SubSeq(texts, EndBefore(chunks, at, k) + 1, end)
      Edit(k) == Gap(k, at[k]) \o FlattenSeq(Left(texts, chunks[k].lines, at[k]))
  IN FlattenSeq([k \in DOMAIN chunks |-> Edit(k)]) \o Gap(Len(chunks) + 1, Len(texts))

(* An update is an edit that the patch describes: it replaces lines that read  *)
(* as the chunks say and leaves all others alone, keeps a final newline, or    *)
(* its absence, and loses none inside; and a patch whose lines are exactly     *)
(* those of the file is never refused.                                         *)
IsAnEdit(source, chunks) ==
  LET texts == TextsOf(source)
      result == UpdateText(source, chunks)
  IN IF Mismatch(source, chunks) THEN Placements(texts, chunks, 1) = {}
     ELSE /\ \E at \in Placements(texts, chunks, 4) : TextsOf(result) = Edited(texts, chunks, at)
          /\ \A i \in DOMAIN result : result[i].eol = "" <=> /\ i = Len(result)
                                                             /\ source # <<>> /\ Last(source).eol = ""

\* The files and chunks whose update is not the edit that the patch describes.
Misedits == {e \in Sources \X ChunkLists : ~IsAnEdit(e[1], e[2])}
=============================================================================
