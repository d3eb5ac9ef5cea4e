SPECIFICATION Spec
CONSTANTS
  People = {ann}
  Nobody = Nobody
  Handlers = {h1, h2}
  Names = {}
  NoName = NoName
  Whitelist = {}
  Modes = {"open"}
  QuietChoices <- NoQuiet
  DefaultQuiet <- Nine
  Zones = {z1}
  DefaultZone = z1
  Voices = {v1}
  DefaultVoice = v1
  MaxUsers = 1
  MaxTokens = 2
  MaxEvents = 0
  MaxRestarts = 0
SYMMETRY HandlerSymmetry
PROPERTIES
  ShownLinkWorks
CHECK_DEADLOCK FALSE
