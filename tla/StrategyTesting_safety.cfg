SPECIFICATION STSpec
CONSTANTS
  Session <- TwoJobs
  MayReset = TRUE
  MaxCommands = 2
  Batch <- TwoStrategies
  Sites = {w1}
  Prompt = FALSE
  EnginesFail = TRUE
  VpnUsed = FALSE
INVARIANTS
  STTypeOK
  OneTest
  OwnEngineMeasured
  OneEnginePerJob
CHECK_DEADLOCK FALSE
