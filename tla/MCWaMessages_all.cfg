SPECIFICATION FairSpec
CONSTANTS
  Messages = {m1, m2}
  s1 = s1
  t1 = t1
  Senders = {s1}
  Tenants = {t1}
  SenderOf <- OneSender
  TenantOf <- OneTenant
  Handlers = {h1, h2}
  Attempts = 2
  MaxStalled = 1
  MaxMessages = 2
  None = None
  MaxDeliveries = 2
  MaxFaults = 1
CHECK_DEADLOCK FALSE
INVARIANTS
  TypeOK
  CompletedIsAnswered
  RepliesAreBounded
  ContextIsTruthful
PROPERTIES MessagesSettle ServiceSpec
