CONSTANTS
  d1 = d1
  d2 = d2
  d3 = d3
  Inherit = Inherit
  None = None
  Digests <- ThreeDigests
  Uncomposable <- Second
  BadEntry <- Third
  HasPlugins = TRUE
  PluginsExtended = TRUE
  PersistMayFail = TRUE
  Staging = TRUE
  DeleteDisk = TRUE
  MaxPublishes = 2
  MaxCrashes = 2
SPECIFICATION Spec
INVARIANTS TypeOK QuietMeansServing
PROPERTIES ServesWhatItPromised
