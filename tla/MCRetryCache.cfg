SPECIFICATION Spec
CONSTANTS
  Ids = {i1, i2, i3}
  NoId = NoId
  Digests = {d1, d2}
  TTL = 2
  Capacity = 2
  MaxOps = 3
  MaxTime = 3
SYMMETRY IdSymmetry
INVARIANTS TypeOK OneOperationPerId
PROPERTIES KeptForTTL LedgerSpec
CHECK_DEADLOCK FALSE
