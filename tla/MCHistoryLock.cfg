SPECIFICATION FairLockSpec
CONSTANTS
  Procs = {p1, p2, p3}
  Nobody = Nobody
INVARIANTS OneWriterUnlessOverlap
PROPERTIES DeadLockIsReclaimed
CHECK_DEADLOCK FALSE
