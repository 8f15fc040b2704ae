SPECIFICATION FairSpec
CONSTANTS
  Tenants = {t1}
  JobIds = {j1, j2}
  Callers = {c1}
  None = None
  MaxDay = 4
  ChunkDays = 2
  MaxBackfillDays = 4
  MaxRangeDays = 2
  ActiveDays <- MCActiveDays
  Requested <- MCRequested
  MaxStalled = 1
  MaxCrashes = 1
  MaxDbErrors = 0
CHECK_DEADLOCK FALSE
PROPERTY QueuedJobsSettle
