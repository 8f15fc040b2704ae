SPECIFICATION FairSpec
CONSTANTS
  Selections = {"s1", "s2", "s3"}
  TenantOf <- MCTenantOf
  HomeTenant = "t1"
  RowsOf <- MCRowsOf
  Tenants = {"t1", "t2"}
  Rows = {1, 2}
  Calls = {c1, c2}
  None = None
  MaxChanges = 3
  MaxRows = 1
  MaxFailures = 1
CHECK_DEADLOCK FALSE
INVARIANTS
  TypeOK
  DisplaysSelection
  ListAgreesWithTotals
PROPERTIES
  LoadingEnds
  MessagesCatchUp
