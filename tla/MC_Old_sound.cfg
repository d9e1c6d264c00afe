\* The test/regression/gui.py scenarios against a frontend that does what
\* they expect, with one environment fault of any kind anywhere.
CONSTANTS
  Run <- OldRun
  CaptVars <- OldCaptVars
  Seed <- SeedDB
  SeedNext <- SeedNextIds
  Leftover <- LeftoverDB
  LeftoverNext <- LeftoverNextIds
  Facts <- OldFacts
  FoldCase <- OldFold
  Dependent <- TriggerFunctions
  MaxFaults = 1
  PurgeEnabled = FALSE
  SnapshotReads = FALSE
  CaseInsensitive = TRUE
  UniqueTables = {"hosts", "groups", "sysmaps"}
  SoftDeleteTables = {}
  DeletedRowsBlockNames = FALSE
SPECIFICATION Spec
CHECK_DEADLOCK FALSE
INVARIANT TypeOK
INVARIANT NoFalseAlarm
INVARIANT NoSpuriousCrash
INVARIANT CapturedIdOwn
PROPERTY RunnerSafe
