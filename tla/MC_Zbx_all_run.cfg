\* Does every scenario function of the ZBX-1229 harness run, whatever one
\* fault of the environment happens?
CONSTANTS
  Run <- ZbxRun
  CaptVars <- ZbxCaptVars
  Seed <- SeedDB
  SeedNext <- SeedNextIds
  Leftover <- LeftoverDB
  LeftoverNext <- LeftoverNextIds
  Facts <- ZbxFacts
  FoldCase <- ZbxFold
  Dependent <- TriggerFunctions
  MaxFaults = 1
  PurgeEnabled = FALSE
  SnapshotReads = FALSE
  CaseInsensitive = TRUE
  UniqueTables = {"hosts", "groups", "sysmaps"}
  SoftDeleteTables = {"hosts"}
  DeletedRowsBlockNames = FALSE
SPECIFICATION Spec
CHECK_DEADLOCK FALSE
PROPERTY AllScenariosRun
