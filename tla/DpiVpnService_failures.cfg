SPECIFICATION SvcSpec
CONSTANTS
  Session <- TwoSessions
  MayReset = FALSE
  MaxIntents = 2
  Intents = {"START", "STOP", "PAUSE", "RESUME"}
  Config = {1, 2}
  Extras = {0, 1}
  Modes = {"VPN", "Proxy"}
  EstablishFails = TRUE
  EngineFails = TRUE
INVARIANTS
  SvcTypeOK
  WorkingOwnsInterface
  
  
CHECK_DEADLOCK FALSE
