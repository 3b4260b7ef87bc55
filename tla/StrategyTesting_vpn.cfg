SPECIFICATION STSpec
CONSTANTS
  Session <- TwoSingles
  MayReset = FALSE
  MaxCommands = 2
  Batch <- OneStrategy
  Sites = {w1}
  Prompt = TRUE
  EnginesFail = FALSE
  VpnUsed = TRUE
PROPERTIES
  VpnAfterTests
CHECK_DEADLOCK FALSE
