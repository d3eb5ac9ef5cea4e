\* Two people, one of them on the whitelist, and two updates in flight.
SPECIFICATION Spec
CONSTANTS
  People = {ann, bob}
  Nobody = Nobody
  Handlers = {h1, h2}
  Names = {n1}
  NoName = NoName
  Whitelist = {n1}
  Modes = {"open", "whitelist"}
  QuietChoices <- Clashing
  DefaultQuiet <- Nine
  Zones = {z1}
  DefaultZone = z1
  Voices = {v1}
  DefaultVoice = v1
  MaxUsers = 2
  MaxTokens = 2
  MaxEvents = 1
  MaxRestarts = 1
SYMMETRY HandlerSymmetry
INVARIANTS
  TypeOK
  OneAccount
  EventsHaveOwner
  LinkIsOwn
  OwnerActsAsOwner
  QuietHoursDiffer
PROPERTIES
  OnlyOwnUpdates
  RevokedStaysRevoked
CHECK_DEADLOCK FALSE
