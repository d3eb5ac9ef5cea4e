SPECIFICATION Spec
CONSTANTS
  People = {ann}
  Nobody = Nobody
  Handlers = {h1, h2}
  Names = {}
  NoName = NoName
  Whitelist = {}
  Modes = {"open"}
  QuietChoices <- Mixing
  DefaultQuiet <- Nine
  Zones = {z1}
  DefaultZone = z1
  Voices = {v1}
  DefaultVoice = v1
  MaxUsers = 1
  MaxTokens = 1
  MaxEvents = 0
  MaxRestarts = 0
SYMMETRY HandlerSymmetry
INVARIANTS
  QuietAsAnswered
CHECK_DEADLOCK FALSE
