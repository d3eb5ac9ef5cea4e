SPECIFICATION Spec
CONSTANTS
  Users = {u1}
  NoUser = NoUser
  MaxEntries = 1
  MaxKey = 2
INVARIANTS
  SafePath
CHECK_DEADLOCK FALSE
