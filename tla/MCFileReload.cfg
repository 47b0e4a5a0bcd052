SPECIFICATION MCSpec
CONSTANTS
  Callers = {c1, c2}
  Sources = {s1}
  Revisions = {h0, h1, h2, h11, h12, h21, h22}
  Checksums = {k1}
  Nil = Nil
  s1 = s1
  k1 = k1
  h0 = h0
  h1 = h1
  h2 = h2
  h11 = h11
  h12 = h12
  h21 = h21
  h22 = h22
  Hash <- MCHash
  LoadResults <- MCLoadResults
  ExternalResults <- MCExternalResults
  NumObservers = 1
  DefaultAttemptHistoryLimit = 1
  ConfiguredLimits = {}
  MaxCalls = 2
  NumBlocks = 2
  MaxWrites = 2
SYMMETRY Symmetry
CONSTRAINT OneDeadContext
INVARIANTS
  SourceLoadsNeverGoBack
  AttemptsSeeWrites
