SPECIFICATION MCSpec
CONSTANTS
  Callers = {c1, c2}
  Sources = {s1}
  Revisions = {r1}
  Checksums = {k1, k2}
  Nil = Nil
  s1 = s1
  r1 = r1
  k1 = k1
  k2 = k2
  LoadResults <- MCLoadResults
  ExternalResults <- MCExternalResults
  NumObservers = 2
  DefaultAttemptHistoryLimit = 1
  ConfiguredLimits = {}
  MaxCalls = 3
  OTel = 1
  Slog = 2
SYMMETRY Symmetry
INVARIANTS
  CountersTellLog
  SpansTellLog
  RecordsTellLog
