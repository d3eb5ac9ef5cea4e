SPECIFICATION FairSpec
CONSTANTS
  Envs <- LLMEnvs
  Workers = {}
  Bot = bot
  Users = {u1}
  Refusing <- EmptyRefused
  MaxEdits = 1
  MaxKills = 0
PROPERTY
  TextRegardless
CHECK_DEADLOCK FALSE
