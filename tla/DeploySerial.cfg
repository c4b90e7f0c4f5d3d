CONSTANTS
  t1 = t1
  t2 = t2
  t3 = t3
  c1 = c1
  c2 = c2
  Null = Null
  Trains <- ThreeTrains
  Bases <- TwoBases
  MaxVersion = 3
  Cutover = 2
  Envs <- Production
  MaxActive = 1
  KeySigners <- OneTrain
  LateLanding = FALSE
  ReadsMayFail = FALSE
SYMMETRY ButForSigners
SPECIFICATION Spec
INVARIANTS FloorsChain
PROPERTIES TagOnlyForward RedRestoresPrior
CHECK_DEADLOCK FALSE
