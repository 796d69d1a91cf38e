SPECIFICATION FairSpec
CONSTANTS
  a1 = a1
  a2 = a2
  Thread <- TwoThreads
  Nobody = Nobody
  Env = {"uninitialize", "exit"}
  MaxContext = 2
  MaxPublished = 3
INVARIANTS TypeOK
PROPERTIES QuickNotificationsDelivered ExitReturns
CHECK_DEADLOCK FALSE
