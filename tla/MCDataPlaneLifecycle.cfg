SPECIFICATION FairSpec
CONSTANTS
  l1 = l1
  l2 = l2
  q1 = q1
  q2 = q2
  Listeners <- TwoListeners
  None = None
  Requests <- TwoRequests
  MaxQueue = 2
INVARIANTS  FinalizedAfterUnwind
PROPERTIES ImplementsGateway OperationsEnd TeardownEnds
CHECK_DEADLOCK FALSE
