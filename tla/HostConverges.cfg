CONSTANTS
  d1 = d1
  d2 = d2
  d3 = d3
  Inherit = Inherit
  None = None
  Digests <- ThreeDigests
  Uncomposable <- Second
  BadEntry <- Third
  HasPlugins = TRUE
  PluginsExtended = FALSE
  PersistMayFail = FALSE
  Staging = FALSE
  DeleteDisk = FALSE
  MaxPublishes = 2
  MaxCrashes = 1
SPECIFICATION FairSpec
INVARIANTS DiskIsLive
PROPERTIES Converges OutageSurvived AlertsIffMismatch
