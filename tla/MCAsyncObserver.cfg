SPECIFICATION MCSpec
CONSTANTS
  Notifiers = {n1, n2, w}
  Worker = w
  Closers = {k1, k2}
  DefaultBuffer = 2
  ConfiguredBuffers <- MCBuffers
  MaxEvents = 2
  NoEvent = NoEvent
SYMMETRY Symmetry
INVARIANTS
  AsyncTypeOK
  NeverSendsOnClosed
  EveryEventAccounted
  CloseMeansDrained
PROPERTIES
  IsLossyQueue
