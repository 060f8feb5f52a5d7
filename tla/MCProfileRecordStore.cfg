SPECIFICATION Spec
CONSTANTS
  c1 = c1  c2 = c2
  Callers = {c1, c2}
  a = a  b = b
  Ids = {a, b}
  Managed = {a}
  NoId = NoId  Free = Free  Stale = Stale
  MaxRev = 3  MaxToken = 2  MaxCrashes = 1  MaxStalls = 0
SYMMETRY Symmetry
INVARIANTS ReferencedDocuments RecordIsValid ActsOnCurrentRecord SpentTokenNotReplayed NewestTokenKept
PROPERTIES RefreshNeedsEnabledProfile ImplementsLedger
CHECK_DEADLOCK FALSE
