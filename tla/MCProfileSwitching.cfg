SPECIFICATION Spec
CONSTANTS
  a = a  b = b  c = c
  Ids = {a, b, c}
  NoId = NoId
  Kind <- OneKind
  r1 = r1  r2 = r2
  Requests = {r1, r2}
  g1 = g1  g2 = g2  g3 = g3  g4 = g4
  Gens = {g1, g2, g3, g4}
  NoGen = NoGen
  MaxAttempts = 2
SYMMETRY Symmetry
INVARIANTS SelectionConsistent AttemptsAreDistinct
PROPERTIES UserChoiceStands SwitchHasCause RequestsCountDown
