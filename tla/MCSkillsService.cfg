SPECIFICATION Spec
CONSTANTS
  Clients = {c1, c2}
  Followers = {c1, c2}
  Workdirs = {w}
  Roots = {r}
  Skills = {s}
  RootsOf <- OneRootOf
  Home <- OneHome
  MaxActive = 4
  Capacity = 1
  MaxEdits = 2
  None = None
INVARIANTS ReadIsCurrent WaitIsServed RefreshIsFresh
PROPERTIES ClosedIsFinal
CHECK_DEADLOCK FALSE
SYMMETRY Alike
