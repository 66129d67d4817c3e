--------------------------- MODULE MCPatchEngine ---------------------------
(* Instances of PatchEngine for TLC: two files in a directory that exists,   *)
(* one in a directory that may not.                                          *)
EXTENDS PatchEngine, TLC, MCPatchText

CONSTANTS fa, fb, fx, top, sub
MCDirOf == [p \in Paths |-> IF p = fx THEN sub ELSE top]
Add(p) == [operation |-> "add", path |-> p, target |-> p]
Update(p) == [operation |-> "update", path |-> p, target |-> p]
Delete(p) == [operation |-> "delete", path |-> p, target |-> p]
Move(p, q) == [operation |-> "move", path |-> p, target |-> q]
MCPatches == {<<Update(fa), Delete(fb)>>, <<Update(fa), Add(fx)>>, <<Move(fa, fx), Update(fb)>>,
              <<Add(fb)>>, <<Update(fa), Move(fa, fb)>>}
=============================================================================
