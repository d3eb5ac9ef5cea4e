\* Two processes that both modes are configured for and the polling process: update 1
\* validates, update 2 does not.
SPECIFICATION FairSpec
CONSTANTS
  Workers = {w1, w2}
  Secrets = {s1, s2}
  NoHook = NoHook
  Modes = {"webhook", "polling"}
  Malformed = {2}
  MaxUpdates = 2
  MaxFaults = 1
  MaxStops = 2
  MaxLeaves = 1
  MaxEdits = 1
INVARIANTS
  TypeOK
  NoneSkipped
  RepeatHasCause
PROPERTIES
  PendingEnds
CHECK_DEADLOCK FALSE
