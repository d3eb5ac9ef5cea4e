SPECIFICATION Spec
CONSTANTS
  Users = {u1, u2}
  NoUser = NoUser
  MaxEntries = 2
  MaxKey = 3
SYMMETRY UserSymmetry
INVARIANTS
  TypeOK
  EntriesHaveOwner
  SettledReadable
PROPERTIES
  DeletedStaysDeleted
