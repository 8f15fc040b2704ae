SPECIFICATION Spec
CONSTANTS
  Tenants = {t1}
  JobIds = {j1, j2}
  Callers = {c1, c2}
  None = None
  MaxDay = 4
  ChunkDays = 2
  MaxBackfillDays = 4
  MaxRangeDays = 2
  ActiveDays <- MCActiveDays
  Requested <- MCOneRange
  MaxStalled = 1
  MaxCrashes = 2
  MaxDbErrors = 1
CHECK_DEADLOCK FALSE
SYMMETRY Symmetry
INVARIANTS
  TypeOK
  SingleDelivery
  ProgressIsBacked
  CompletedIsComplete
  ImportedWithinTotal
  DeliveredHasRow
PROPERTIES
  OutcomeIsKept
  LedgerSpec
