SPECIFICATION MCSpec
CONSTANTS
  Callers = {c1}
  Sources = {s1}
  Revisions = {r1}
  Checksums = {k1}
  Nil = Nil
  s1 = s1
  r1 = r1
  k1 = k1
  LoadResults <- MCLoadResults
  ExternalResults <- MCExternalResults
  NumObservers = 2
  DefaultAttemptHistoryLimit = 1
  ConfiguredLimits = {}
  MaxCalls = 2
  MaxReads = 1
  MaxEdits = 1
CONSTRAINT OneDeadContext
INVARIANTS
  MemoryTellsState
  AnswersAreOwn
