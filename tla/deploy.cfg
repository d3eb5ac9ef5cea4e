\* Three containers with their schedulers, one of them without migrations.
SPECIFICATION FairSpec
CONSTANTS
  c1 = c1
  c2 = c2
  c3 = c3
  r1 = r1
  r2 = r2
  Containers = {c1, c2, c3}
  Skipping = {c3}
  Reminders = {r1, r2}
  MaxFaults = 2
INVARIANTS SchemaWhole ServesSchema OnceEach
PROPERTY EachServes
CHECK_DEADLOCK FALSE
