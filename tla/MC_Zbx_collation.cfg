\* Does the ZBX-1229 harness run through against a frontend whose database
\* compares strings case-sensitively (a utf8_bin collation)?
CONSTANTS
  Run <- ZbxRun
  CaptVars <- ZbxCaptVars
  Seed <- SeedDB
  SeedNext <- SeedNextIds
  Leftover <- LeftoverDB
  LeftoverNext <- LeftoverNextIds
  Facts <- ZbxFacts
  FoldCase <- ZbxFold
  Dependent <- TriggerFunctions
  MaxFaults = 0
  PurgeEnabled = FALSE
  SnapshotReads = FALSE
  CaseInsensitive = FALSE
  UniqueTables = {"hosts", "groups", "sysmaps"}
  SoftDeleteTables = {"hosts"}
  DeletedRowsBlockNames = FALSE
SPECIFICATION Spec
CHECK_DEADLOCK FALSE
INVARIANT NoSpuriousCrash
