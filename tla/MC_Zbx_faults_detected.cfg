\* Does every write the frontend loses show up as "NOT OK" in the
\* ZBX-1229 scenario it happened in?
CONSTANTS
  Run <- ZbxRun
  CaptVars <- ZbxCaptVars
  Seed <- SeedDB
  SeedNext <- SeedNextIds
  Leftover <- LeftoverDB
  LeftoverNext <- LeftoverNextIds
  Facts <- ZbxFacts
  FoldCase <- ZbxFold
  Dependent <- TriggerFunctions
  MaxFaults = 1
  PurgeEnabled = FALSE
  SnapshotReads = FALSE
  CaseInsensitive = TRUE
  UniqueTables = {"hosts", "groups", "sysmaps"}
  SoftDeleteTables = {"hosts"}
  DeletedRowsBlockNames = FALSE
SPECIFICATION Spec
CHECK_DEADLOCK FALSE
INVARIANT FaultsDetected
