SPECIFICATION Spec
CONSTANTS
  Envs <- LLMEnvs
  Workers = {}
  Bot = bot
  Users = {u1}
  Refusing <- EmptyRefused
  MaxEdits = 1
  MaxKills = 0
INVARIANT
  NoKeyNeeded
CHECK_DEADLOCK FALSE
