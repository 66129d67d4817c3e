SPECIFICATION ServiceSpec
CONSTANTS
  MaxSessions = 2
  MaxTime = 2
  MaxOutput = 1
  Ttys = {}
  Escaped = {}
  MaxActive = 2
  MaxEnded = 1
  RetainFor = 0
  PerSession = 1
  Total = 1
  ReadBudget = 1
  Ids = {i1}
  NoId = NoId
  Digests = {d1}
  TTL = 1
  Capacity = 1
  MaxOps = 2
CONSTRAINT Quiet
INVARIANT BooksAgree
PROPERTIES NoRerunBeforeTTL
CHECK_DEADLOCK FALSE
