SPECIFICATION FairSpec
CONSTANTS
  Workers = {w1, w2}
  Secrets = {s1}
  NoHook = NoHook
  Modes = {"webhook", "polling"}
  Malformed = {}
  MaxUpdates = 1
  MaxFaults = 1
  MaxStops = 1
  MaxLeaves = 0
  MaxEdits = 1
PROPERTIES
  PollingHears
CHECK_DEADLOCK FALSE
