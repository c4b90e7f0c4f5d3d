CONSTANTS
  k1 = k1
  k2 = k2
  u1 = u1
  u2 = u2
  u3 = u3
  None = None
  Plugins <- OneKey
  Users <- ThreeUsers
  MaxLoads = 3
  Shutdowns = TRUE
SPECIFICATION FairSpec
INVARIANTS ScopesReachable OneInstancePerKey FailureForgotten
PROPERTIES EveryCallEnds
CHECK_DEADLOCK FALSE
