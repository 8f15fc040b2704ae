SPECIFICATION FairSpec
CONSTANTS
  t1 = t1
  t2 = t2
  Tenants = {t1, t2}
  Clients = {c1}
  Agents = {a1}
  None = None
  LastDay = 4
  MaxCount = 1
  Open <- MCOpen
  Asked <- MCAsked
  Sent <- MCSent
  Lookback = 4
  MaxStalled = 1
  MaxFaults = 2
CHECK_DEADLOCK FALSE
INVARIANTS
  TypeOK
  OkWindowIsExact
PROPERTY ClosedDaysBecomeFinal
