SPECIFICATION LogSpec
CONSTANTS
  Texts <- Characters
  Needle <- TwoLetters
  Capacity = 5
  Budget = 2
  Scan = 4
  MaxMatches = 2
  MaxLines = 2
  MaxBytes = 7
INVARIANTS CursorsLeadOn SearchIsComplete TailIsLastLines
CHECK_DEADLOCK FALSE
