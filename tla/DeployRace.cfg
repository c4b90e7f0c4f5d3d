CONSTANTS
  t1 = t1
  t2 = t2
  t3 = t3
  c1 = c1
  c2 = c2
  Null = Null
  Trains <- TwoTrains
  Bases <- TwoBases
  MaxVersion = 2
  Cutover = 1
  Envs <- Production
  MaxActive = 2
  KeySigners <- NoTrains
  LateLanding = TRUE
  ReadsMayFail = TRUE
SYMMETRY Symmetric
SPECIFICATION Spec
INVARIANTS TypeOK TagNamesRecord
PROPERTIES KeepsPromise ReadBackSound
CHECK_DEADLOCK FALSE
