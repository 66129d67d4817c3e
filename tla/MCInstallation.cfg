SPECIFICATION Spec
CONSTANTS
  Programs = {p1, p2}
  Versions = {v1, v2}
  MaxPrograms = 3
  MaxStarts = 1
  MaxMeddles = 1
  None = None
INVARIANT CurrentIsComplete
PROPERTIES OthersAreKept ServiceIsSpared
CHECK_DEADLOCK FALSE
SYMMETRY Alike
