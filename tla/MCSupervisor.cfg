SPECIFICATION FairSpec
CONSTANTS
  Launchers = {la, lb, lc}
  Earlier = {la}
  Outsider = Outsider
  Nobody = Nobody
  Contested = {"mcp"}
INVARIANT ManagedIsOnRecord
PROPERTIES ShutdownIsClean 
CONSTRAINT UntilOverlap
CHECK_DEADLOCK FALSE
