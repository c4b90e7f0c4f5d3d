CONSTANTS
  t1 = t1
  t2 = t2
  t3 = t3
  c1 = c1
  c2 = c2
  Null = Null
  Trains <- TwoTrains
  Bases <- OneBase
  MaxVersion = 1
  Cutover = 1
  Envs <- Production
  MaxActive = 2
  KeySigners <- OneTrain
  LateLanding = TRUE
  ReadsMayFail = TRUE
SPECIFICATION FairSpec
INVARIANTS AppliedOnce
PROPERTIES Terminates
CHECK_DEADLOCK FALSE
