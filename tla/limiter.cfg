SPECIFICATION Spec
CONSTANTS
  Checks = {c1, c2, c3, c4}
  Limits = {0, 1, 2}
  Window = 4
  MaxDelay = 1
  MaxTime = 7
  MaxLosses = 1
SYMMETRY CheckSymmetry
INVARIANTS
  AtMostLimit
  DenialHasCause
CHECK_DEADLOCK FALSE
