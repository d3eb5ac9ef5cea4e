SPECIFICATION Spec
CONSTANTS
  Workers = {w1, w2}
  Secrets = {s1}
  NoHook = NoHook
  Modes = {"webhook"}
  Malformed = {}
  MaxUpdates = 1
  MaxFaults = 0
  MaxStops = 1
  MaxLeaves = 0
  MaxEdits = 0
INVARIANTS
  OneModeAtATime
CHECK_DEADLOCK FALSE
