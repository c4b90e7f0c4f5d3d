CONSTANTS
  e1 = e1
  s1 = s1
  s2 = s2
  a1 = a1
  a2 = a2
  p1 = p1
  p2 = p2
  k1 = k1
  None = None
  Entities <- OneEntity
  Submitters <- TwoSubmitters
  Admins <- TwoAdmins
  Payloads <- TwoPayloads
  Keys <- OneKey
  Policy = "rejected-or-removed"
  Timeout = 1
  MaxClock = 4
  MaxVersion = 5
SPECIFICATION Spec
INVARIANTS AuditTellsState KeyOnce QueueMatchesGuards
PROPERTIES DecisionOnWhatWasSeen LifecycleOwnsRow
SYMMETRY Interchangeable
CHECK_DEADLOCK FALSE
