SPECIFICATION LockSpec
CONSTANTS
  Procs = {p1, p2, p3}
  Nobody = Nobody
SYMMETRY Symmetry
INVARIANT SingleWriter
CHECK_DEADLOCK FALSE
