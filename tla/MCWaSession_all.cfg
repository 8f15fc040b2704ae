SPECIFICATION FairSpec
CONSTANTS
  Pages = {p1, p2}
  MaxScans = 2
  MaxFaults = 1
INVARIANTS
  TypeOK
  ConnectedIsOn
PROPERTIES
  OnlyLateWritesHide
  PollingSeesConnection
