SPECIFICATION Spec
CONSTANTS
  Procs = {p1, p2}
  MaxDay = 3
  V2Enabled = TRUE
  BatchDays = 2
  MaxRetries = 2
  Kinds = {"backfill", "command"}
  ReadsFail = TRUE
  WritesFail = TRUE
  MaxRuns = 2
  MaxCrashes = 1
CHECK_DEADLOCK FALSE
SYMMETRY Symmetry
INVARIANTS
  ResumePositionIsBacked
  ReleasedIsComplete
