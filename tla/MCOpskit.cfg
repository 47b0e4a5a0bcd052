SPECIFICATION OpskitSpec
CONSTANTS
  Callers = {c1, c2}
  Probers = {p1}
  Sources = {s1, s2}
  Revisions = {r1}
  Checksums = {k1, k2}
  Nil = Nil
  s1 = s1
  s2 = s2
  r1 = r1
  k1 = k1
  k2 = k2
  LoadResults <- MCLoadResults
  ExternalResults <- MCExternalResults
  NumObservers = 1
  DefaultAttemptHistoryLimit = 2
  ConfiguredLimits = {0}
  MaxCalls = 3
SYMMETRY Symmetry
INVARIANTS
  ReadingsTellLog
  PagesTellLog
PROPERTIES
  ReadinessKept
