SPECIFICATION MCSpec
CONSTANTS
  Callers = {c1, w, n}
  Worker = w
  Nested = n
  Endings <- MCEndings
  Sources = {s1}
  Revisions = {r1}
  Checksums = {k1}
  Nil = Nil
  s1 = s1
  r1 = r1
  k1 = k1
  LoadResults <- MCLoadResults
  ExternalResults <- MCExternalResults
  NumObservers = 2
  DefaultAttemptHistoryLimit = 1
  ConfiguredLimits = {}
  MaxCalls = 3
  DefaultBuffer = 1
  ConfiguredBuffers = {}
  MaxEvents = 9
  NoEvent = NoEvent
INVARIANTS
  NestedNeverAdmitted
  AsyncEventsTellLog
PROPERTIES
  EveryCallReturns
