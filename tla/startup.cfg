\* Two people, one api worker, every kind of LLM and of broken setting.
SPECIFICATION FairSpec
CONSTANTS
  Envs <- AllEnvs
  Workers = {api}
  Bot = bot
  Users = {u1, u2}
  Refusing <- EmptyRefused
  MaxEdits = 1
  MaxKills = 1
INVARIANTS
  TypeOK
  SettingsSuffice
  DueZonesLoad
  NeverBlank
PROPERTIES
  DueGetsText
CHECK_DEADLOCK FALSE
