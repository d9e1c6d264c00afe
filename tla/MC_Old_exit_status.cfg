\* Does test/regression/gui.py exit non-zero exactly when it printed
\* "NOT OK" or stopped early, with one fault of the environment anywhere?
CONSTANTS
  Run <- OldRun
  CaptVars <- OldCaptVars
  Seed <- SeedDB
  SeedNext <- SeedNextIds
  Leftover <- LeftoverDB
  LeftoverNext <- LeftoverNextIds
  Facts <- OldFacts
  FoldCase <- OldFold
  Dependent <- TriggerFunctions
  MaxFaults = 1
  PurgeEnabled = FALSE
  SnapshotReads = FALSE
  CaseInsensitive = TRUE
  UniqueTables = {"hosts", "groups", "sysmaps"}
  SoftDeleteTables = {}
  DeletedRowsBlockNames = FALSE
SPECIFICATION Spec
CHECK_DEADLOCK FALSE
INVARIANT ExitStatusReflectsVerdicts
