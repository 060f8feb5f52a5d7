SPECIFICATION Spec
CONSTANTS
  p1 = p1
  p2 = p2
  Nothing = Nothing
  Order <- TwoProviders
  Contents <- OneContent
  Reselected <- FirstOnly
  MaxGen = 2
  MaxQueue = 1
  MaxFaults = 2
CHECK_DEADLOCK FALSE
INVARIANTS RefreshingNeverSticks
