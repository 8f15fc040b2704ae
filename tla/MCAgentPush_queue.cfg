SPECIFICATION Spec
CONSTANTS
  Procs = {p1}
  MaxDay = 2
  V2Enabled = TRUE
  BatchDays = 2
  MaxRetries = 2
  Kinds = {"cron", "command"}
  ReadsFail = FALSE
  WritesFail = TRUE
  MaxRuns = 4
  MaxCrashes = 1
CHECK_DEADLOCK FALSE
INVARIANT TypeOK
PROPERTY OutboxSpec
