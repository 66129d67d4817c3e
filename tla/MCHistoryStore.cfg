SPECIFICATION FairSpec
CONSTANTS
  Ids = {a, b}
  Captured = {a, b}
  MaxRecords = 2
  MaxTotal = 4
  MaxLog = 2
  MaxPending = 1
  MaxMeta = 1
  MaxPrinted = 2
  MaxCrashes = 1
  Faults = {"create", "write", "sync", "write_tmp", "rename", "unlink_log", "unlink_json"}
  Nothing = Nothing
INVARIANTS DiskWithinLimit RecordsAreHonest
PROPERTIES ActiveFilesStay 
CHECK_DEADLOCK FALSE
