SPECIFICATION FairSpec
CONSTANTS
  p1 = p1
  p2 = p2
  m1 = m1
  m2 = m2
  m3 = m3
  x = x
  x2 = x2
  x3 = x3
  z = z
  Absent = Absent
  Providers <- TwoProviders
  Models <- ThreeModels
  Aliases <- FourAliases
  Owner <- Owners
  Prefix <- Prefixes
  Default <- Defaults
  Reports <- FiveReports
  Ports = {3000, 3001}
  InitialPort = 3000
  MaxFavoriteProviders = 1
  MaxFavoriteModels = 1
  MaxChanges = 3
CHECK_DEADLOCK FALSE
INVARIANTS DirectoryConsistent TargetsDistinct
PROPERTIES AliasKeepsModel ChoicesSurvive DiscoveriesReachDisk
