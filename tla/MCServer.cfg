SPECIFICATION FairSpec
CONSTANTS
  MaxSessions = 2
  MaxTime = 0
  MaxOutput = 0
  Ttys = {1}
  Escaped = {2}
  MaxActive = 1
  MaxEnded = 1
  RetainFor = 0
  PerSession = 1
  Total = 1
  ReadBudget = 1
  Requests = {q1}
  Http = TRUE
INVARIANTS ProcessLimit InUseIsKept ExitIsHonest SkillsEndClosed
PROPERTIES FirstReasonDecides ProcessExits TerminationCompletes CallsAreAnswered
CHECK_DEADLOCK FALSE
