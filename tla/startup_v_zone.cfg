SPECIFICATION Spec
CONSTANTS
  Envs <- OtherEnvs
  Workers = {}
  Bot = bot
  Users = {u1}
  Refusing <- EmptyRefused
  MaxEdits = 1
  MaxKills = 0
INVARIANT
  RegisteredZoneLoads
CHECK_DEADLOCK FALSE
