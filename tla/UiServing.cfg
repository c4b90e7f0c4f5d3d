CONSTANTS
  t1 = t1
  t2 = t2
  r1 = r1
  r2 = r2
  core = core
  apps = apps
  None = None
  Base = Base
  Core = core
  Tenants <- TwoTenants
  Plugins <- OnePlugin
  OverrideOf <- CoreAndPlugin
  Bare <- OnePlugin
  Unpinned <- AnotherTenant
  Requests <- TwoRequests
  AssetRequests <- AnotherRequest
  Asks <- AssetOfTheFirst
  Redeployed <- BaseAndFirst
  MaxChecks = 2
  Versions = 2
SPECIFICATION FairSpec
INVARIANTS PageOfOneGeneration
PROPERTIES AdmittedWasVerified DriftIsRefused RequestsEnd
CHECK_DEADLOCK FALSE
