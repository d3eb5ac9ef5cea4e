\* Two containers, nothing goes wrong.
SPECIFICATION Spec
CONSTANTS
  c1 = c1
  c2 = c2
  r1 = r1
  Containers = {c1, c2}
  Skipping = {c2}
  Reminders = {r1}
  MaxFaults = 0
INVARIANT NoRaceOnTriggers
CHECK_DEADLOCK FALSE
