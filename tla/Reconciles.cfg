CONSTANTS
  c1 = c1
  c2 = c2
  f1 = f1
  f2 = f2
  i1 = i1
  i2 = i2
  api = api
  auth = auth
  None = None
  Consoles <- TwoConsoles
  Fingerprints <- TwoFingerprints
  Images <- TwoImages
  ImageOf <- ImageEach
  Databases <- TwoDatabases
  MaxPublishes = 2
  MaxRestarts = 1
SPECIFICATION FairSpec
INVARIANTS DatabasesFirst
PROPERTIES PublishDeploys DriftEnds
CHECK_DEADLOCK FALSE
