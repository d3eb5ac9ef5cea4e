SPECIFICATION Spec
CONSTANTS
  Checks = {c1, c2, c3}
  Limits = {1}
  Window = 3
  MaxDelay = 1
  MaxTime = 4
  MaxLosses = 0
SYMMETRY CheckSymmetry
INVARIANTS
  NeverBothPastThreshold
CHECK_DEADLOCK FALSE
