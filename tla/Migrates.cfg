CONSTANTS
  p = p
  q = q
  old = old
  new = new
  twin = twin
  t1 = t1
  t2 = t2
  u = u
  v = v
  None = None
  Plugins <- OnePlugin
  Migrators <- ThreeBoots
  PluginOf <- OfOnePlugin
  LengthOf <- OneBehind
  Longest = 2
  Tables <- OwnTables
  Creates <- CreatesTables
  Drops <- RenamesOne
  Found <- FoundTables
  AllowAhead = FALSE
  Retries = 2
SPECIFICATION FairSpec
INVARIANTS JournaledOnce JournalBacked ReadyMeansMigrated
PROPERTIES BootsConverge
