SPECIFICATION FairSpec
CONSTANTS
  r1 = r1
  r2 = r2
  r3 = r3
  Ids <- Three
  Root = Root
  Policy = "memory"
  Sizes = {1, 2}
  MaxEntries = 2
  MaxHistory = 2
  MaxSnapshot = 2
  Ttl = 0
  MaxQueue = 2
INVARIANTS ForestConsistent SnapshotLoads FlushIsDurable
PROPERTIES FileCatchesUp
