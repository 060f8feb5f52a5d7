SPECIFICATION Spec
CONSTANTS
  l1 = l1
  l2 = l2
  q1 = q1
  q2 = q2
  Listeners <- TwoListeners
  None = None
  Requests <- TwoRequests
  MaxQueue = 2
SYMMETRY Symmetry
CHECK_DEADLOCK FALSE
INVARIANTS LeaseReleasedLast
