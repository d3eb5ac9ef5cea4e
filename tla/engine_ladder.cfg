SPECIFICATION Spec
CONSTANTS
  MinutesPerHour = 2
  HoursPerDay = 5
  JitterMax = 1
  Triggers = {t1}
  NoTrigger = NoTrigger
  Handlers = {h1}
  IntervalAfter <- MCInterval
  CapSnooze = 2
  Windows <- OnlyLate
  DefaultWindow <- Late
  StartTimes = {0}
  MaxLogs = 4
  MaxTime = 4
  MaxFaults = 0
INVARIANTS
  ToneTracksIteration
  IgnoredNudgesPaced
