SPECIFICATION FairSpec
CONSTANTS
  s1 = s1  s2 = s2
  Shells = {s1, s2}
  Build <- TwoBuilds
  c1 = c1
  Clis = {c1}
  b1 = b1  b2 = b2
  Backends = {b1, b2}
  None = None
INVARIANTS LeaseConsistent OneBackendServes ServerIsDiscoverable
PROPERTIES ViewersBeginNothing NoShellEndsCli OrphansRetire
CHECK_DEADLOCK FALSE
