SPECIFICATION SvcFairSpec
CONSTANTS
  Session <- TwoSessions
  MayReset = TRUE
  MaxIntents = 2
  Intents = {"START", "STOP", "PAUSE"}
  Config = {1}
  Extras = {1}
  Modes = {"VPN"}
  EstablishFails = FALSE
  EngineFails = TRUE
PROPERTIES
  HandlersFinish
CHECK_DEADLOCK FALSE
