SPECIFICATION LoopSpec
CONSTANTS
  a1 = a1
  a2 = a2
  t1 = t1
  Agent = {a1}
  Nobody = Nobody
  BoardTask = {}
  Concurrency = 2
  ErrorRetries = 1
  HandoffLimit = 1
  Budget = 2
  StormLimit = 1
  BatchRun = TRUE
  Outcomes = {"completed", "error"}
  RunnerFailures = FALSE
  Operator = {"dm", "stop"}
  Timers = FALSE
  MaxEnvironment = 2
  MaxActivations = 2
  MaxLaunches = 1
  MaxCrashes = 1
PROPERTIES
  AttentionServed
  BreakerEndsBatch
CHECK_DEADLOCK FALSE
