SPECIFICATION Spec
CONSTANTS
  Users = {u1}
  NoUser = NoUser
  MaxEntries = 1
  MaxKey = 2
INVARIANTS
  AnnouncedStays
CHECK_DEADLOCK FALSE
