SPECIFICATION STFairSpec
CONSTANTS
  Session <- TwoJobs
  MayReset = TRUE
  MaxCommands = 2
  Batch <- WithDirect
  Sites = {w1}
  Prompt = TRUE
  EnginesFail = FALSE
  VpnUsed = FALSE
PROPERTIES
  TestsEnd
CHECK_DEADLOCK FALSE
