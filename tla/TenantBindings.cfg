CONSTANTS
  h1 = h1
  h2 = h2
  r1 = r1
  r2 = r2
  None = None
  Hosts <- TwoHosts
  Requests <- TwoRequests
  MaxFetches = 2
  MaxStamp = 2
SPECIFICATION FairSpec
INVARIANTS OutageHidesNobody
PROPERTIES EntriesNeverGoBack ChangesGetThrough RequestsEnd
CHECK_DEADLOCK FALSE
