SPECIFICATION AdmSpec
CONSTANTS
  Callers = {c1, c2, c3}
SYMMETRY Symmetry
INVARIANTS
  MutualExclusion
  TokenHasOwner
