SPECIFICATION Spec
CONSTANTS
  MinutesPerHour = 60
  HoursPerDay = 24
  JitterMax = 30
  Settings <- ManySettings
INVARIANTS
  AlwaysAwake
  AlwaysExact
