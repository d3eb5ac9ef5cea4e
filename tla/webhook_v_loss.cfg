SPECIFICATION Spec
CONSTANTS
  Workers = {w1, w2}
  Secrets = {s1, s2}
  NoHook = NoHook
  Modes = {"webhook"}
  Malformed = {}
  MaxUpdates = 2
  MaxFaults = 0
  MaxStops = 1
  MaxLeaves = 0
  MaxEdits = 1
SYMMETRY WorkerSymmetry
PROPERTIES
  RotationDropsNothing
CHECK_DEADLOCK FALSE
