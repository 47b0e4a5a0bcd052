SPECIFICATION MCFairSpec
CONSTANTS
  Sources = {s1, s2}
  Revisions = {r1}
  Checksums = {k1, k2}
  Nil = Nil
INVARIANTS
  SnapshotIsWhatWasInspected
  CancellationHonoured
  ResultTellsWhatHappened
PROPERTIES
  KeepsContract
  LoadReturns
