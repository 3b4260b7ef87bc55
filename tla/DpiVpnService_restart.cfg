SPECIFICATION SvcSpec
CONSTANTS
  Session <- ThreeSessions
  MayReset = FALSE
  MaxIntents = 3
  Intents = {"START", "STOP"}
  Config = {1}
  Extras = {1}
  Modes = {"VPN"}
  EstablishFails = FALSE
  EngineFails = FALSE
INVARIANTS
  OneSession
  NoLeakedInterface
  ProtectedWhileServing
CONSTRAINT TwoStarts
CHECK_DEADLOCK FALSE
