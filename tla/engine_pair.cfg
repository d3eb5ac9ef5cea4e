SPECIFICATION FairSpec
CONSTANTS
  MinutesPerHour = 2
  HoursPerDay = 5
  JitterMax = 1
  Triggers = {t1, t2}
  NoTrigger = NoTrigger
  Handlers = {}
  IntervalAfter <- MCInterval
  CapSnooze = 2
  Windows <- AnySetting
  DefaultWindow <- Late
  StartTimes = {0}
  MaxLogs = 5
  MaxTime = 1
  MaxFaults = 1
PROPERTIES
  DueIsHandled
INVARIANTS
  ButtonsPointHome
  SessionInvariant
