\* Do the ZBX-1229 scenarios print "NOT OK" against a frontend that does
\* what they expect?  No fault is injected; the server housekeeper runs.
CONSTANTS
  Run <- ZbxRun
  CaptVars <- ZbxCaptVars
  Seed <- SeedDB
  SeedNext <- SeedNextIds
  Leftover <- LeftoverDB
  LeftoverNext <- LeftoverNextIds
  Facts <- ZbxFacts
  FoldCase <- ZbxFold
  Dependent <- TriggerFunctions
  MaxFaults = 0
  PurgeEnabled = TRUE
  SnapshotReads = FALSE
  CaseInsensitive = TRUE
  UniqueTables = {"hosts", "groups", "sysmaps"}
  SoftDeleteTables = {"hosts"}
  DeletedRowsBlockNames = FALSE
SPECIFICATION Spec
CHECK_DEADLOCK FALSE
INVARIANT NoFalseAlarm
