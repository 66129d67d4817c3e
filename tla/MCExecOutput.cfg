SPECIFICATION Spec
CONSTANTS
  MaxSessions = 2
  MaxTime = 2
  MaxOutput = 3
  Ttys = {1}
  Escaped = {}
  MaxActive = 2
  MaxEnded = 1
  RetainFor = 2
  PerSession = 2
  Total = 3
  ReadBudget = 1
CONSTRAINT Undisturbed
INVARIANTS NoLostWakeup OutputIsAccounted
CHECK_DEADLOCK FALSE
