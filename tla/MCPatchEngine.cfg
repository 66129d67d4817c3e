SPECIFICATION FairSpec
CONSTANTS
  Calls = {c1, c2}
  fa = fa
  fb = fb
  fx = fx
  top = top
  sub = sub
  Paths = {fa, fb, fx}
  DirOf <- MCDirOf
  Patches <- MCPatches
  MaxEdits = 1
  MaxFaults = 1
  Absent = Absent
  Words = {"a", "b"}
  Sources <- MCSources
  ChunkLists <- MCChunkLists
INVARIANTS ReportIsExact PartialOnlyIfDisturbed UpdateIsAnEdit
PROPERTIES NothingUnreadIsLost CallsEnd
CHECK_DEADLOCK FALSE
