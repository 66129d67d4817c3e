----------------------------- MODULE MCPatchText -----------------------------
(* Files and patches for PatchText: every file of up to three lines, in two   *)
(* ways of ending them, and every patch of one or two chunks of one or two    *)
(* lines, of three lines in all.                                              *)
EXTENDS PatchText

Plain(w) == [word |-> w, dressing |-> 0]
Texts == {Plain(w) : w \in Words} \cup {[word |-> "a", dressing |-> 1]}
Endings == {<<"crlf", "lf", "lf">>, <<"lf", "crlf", "">>}
MCSources == UNION {{[i \in 1..n |-> [text |-> texts[i], eol |-> endings[i + 3 - n]]] : texts \in [1..n -> Texts], endings \in Endings} : n \in 0..3}

Lines == [mark : {"kept", "removed", "added"}, text : {Plain(w) : w \in Words}]
Chunks == [lines : UNION {[1..n -> Lines] : n \in 1..2}, context : {<<>>, <<Plain("a")>>}, eof : BOOLEAN]
MCChunkLists == {<<c>> : c \in Chunks}
                \cup {p \in Chunks \X Chunks : ~p[1].eof /\ Len(p[1].lines) + Len(p[2].lines) <= 3}
=============================================================================
