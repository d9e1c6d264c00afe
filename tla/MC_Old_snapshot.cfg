\* Do the test/regression/gui.py scenarios print "NOT OK" against a correct
\* frontend when the connection they query through reads one InnoDB snapshot?
CONSTANTS
  Run <- OldRun
  CaptVars <- OldCaptVars
  Seed <- SeedDB
  SeedNext <- SeedNextIds
  Leftover <- LeftoverDB
  LeftoverNext <- LeftoverNextIds
  Facts <- OldFacts
  FoldCase <- OldFold
  Dependent <- TriggerFunctions
  MaxFaults = 0
  PurgeEnabled = FALSE
  SnapshotReads = TRUE
  CaseInsensitive = TRUE
  UniqueTables = {"hosts", "groups", "sysmaps"}
  SoftDeleteTables = {}
  DeletedRowsBlockNames = FALSE
SPECIFICATION Spec
CHECK_DEADLOCK FALSE
INVARIANT NoFalseAlarm
