\* Does every id a fault-free run of the ZBX-1229 harness captures name a
\* row its own scenario inserted?
CONSTANTS
  Run <- ZbxRun
  CaptVars <- ZbxCaptVars
  Seed <- SeedDB
  SeedNext <- SeedNextIds
  Leftover <- LeftoverDB
  LeftoverNext <- LeftoverNextIds
  Facts <- ZbxFacts
  FoldCase <- ZbxFold
  Dependent <- TriggerFunctions
  MaxFaults = 0
  PurgeEnabled = FALSE
  SnapshotReads = FALSE
  CaseInsensitive = TRUE
  UniqueTables = {"hosts", "groups", "sysmaps"}
  SoftDeleteTables = {"hosts"}
  DeletedRowsBlockNames = FALSE
SPECIFICATION Spec
CHECK_DEADLOCK FALSE
INVARIANT CapturedIdOwn
