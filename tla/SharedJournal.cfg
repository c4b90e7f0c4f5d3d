CONSTANTS
  p = p
  q = q
  old = old
  new = new
  twin = twin
  t1 = t1
  t2 = t2
  u = u
  v = v
  None = None
  Plugins <- TwoPlugins
  Migrators <- TwoBoots
  PluginOf <- OfEachPlugin
  LengthOf <- BothUpToDate
  Longest = 2
  Tables <- BothTables
  Creates <- CreatesTables
  Drops <- RenamesOne
  Found <- FoundTables
  AllowAhead = FALSE
  Retries = 2
SPECIFICATION FairSpec
INVARIANTS RefusedMeansNewer
