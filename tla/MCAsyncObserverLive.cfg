SPECIFICATION MCFairSpec
CONSTANTS
  Notifiers = {n1, w}
  Worker = w
  Closers = {k1, k2}
  DefaultBuffer = 1
  ConfiguredBuffers = {0}
  MaxEvents = 2
  NoEvent = NoEvent
PROPERTIES
  NotifyReturns
  CloseReturns
  AcceptedIsDelivered
