SPECIFICATION FairAdmSpec
CONSTANTS
  Callers = {c1, c2, c3}
PROPERTIES
  CanceledCallerReturns
  EveryEntryDecided
