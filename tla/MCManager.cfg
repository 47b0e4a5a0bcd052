SPECIFICATION MCSpec
CONSTANTS
  Callers = {c1, c2}
  Sources = {s1}
  Revisions = {r1}
  Checksums = {k1, k2}
  Nil = Nil
  s1 = s1
  r1 = r1
  k1 = k1
  k2 = k2
  LoadResults <- MCLoadResults
  ExternalResults <- MCExternalResults
  NumObservers = 2
  DefaultAttemptHistoryLimit = 2
  ConfiguredLimits = {0, 1}
  MaxCalls = 3
SYMMETRY Symmetry
INVARIANTS
  ManagerTypeOK
  StatusFollowsLog
  HistoryIsRecentLog
  IDsDense
  EventsMatchManager
  DeliveredInOrder
  EventsTellPublications
PROPERTIES
  KeepsLastKnownGood
