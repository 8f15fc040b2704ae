SPECIFICATION FairSpec
CONSTANTS
  Procs = {p1, p2}
  MaxDay = 1
  V2Enabled = FALSE
  BatchDays = 2
  MaxRetries = 2
  Kinds = {"cron", "command"}
  ReadsFail = FALSE
  WritesFail = FALSE
  MaxRuns = 3
  MaxCrashes = 0
CHECK_DEADLOCK FALSE
PROPERTY LeavesDeliveredOrExhausted
