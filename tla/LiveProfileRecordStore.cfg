SPECIFICATION FairSpec
CONSTANTS
  c1 = c1  c2 = c2
  Callers = {c1, c2}
  a = a  b = b
  Ids = {a}
  Managed = {a}
  NoId = NoId  Free = Free  Stale = Stale
  MaxRev = 2  MaxToken = 1  MaxCrashes = 1  MaxStalls = 1
PROPERTIES CallTerminates
CHECK_DEADLOCK FALSE
