SPECIFICATION Spec
CONSTANTS
  MinutesPerHour = 60
  HoursPerDay = 24
  JitterMax = 30
  Settings <- DefaultSettings
INVARIANTS
  AlwaysLaterDay
