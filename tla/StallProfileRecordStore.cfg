SPECIFICATION Spec
CONSTANTS
  c1 = c1  c2 = c2
  Callers = {c1, c2}
  a = a  b = b
  Ids = {a, b}
  Managed = {}
  NoId = NoId  Free = Free  Stale = Stale
  MaxRev = 4  MaxToken = 1  MaxCrashes = 0  MaxStalls = 1
SYMMETRY Symmetry
PROPERTIES SwitchKeepsNewerManagement
CHECK_DEADLOCK FALSE
