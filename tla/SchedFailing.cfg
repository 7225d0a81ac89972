SPECIFICATION Spec
CONSTANTS
  a1 = a1
  a2 = a2
  t1 = t1
  Agent = {a1}
  Nobody = Nobody
  BoardTask = {}
  Concurrency = 2
  ErrorRetries = 0
  HandoffLimit = 1
  Budget = 2
  StormLimit = 1
  BatchRun = TRUE
  Outcomes = {"handoff", "provider"}
  RunnerFailures = TRUE
  Operator = {"dm", "stop", "reset_breaker"}
  Timers = TRUE
  MaxEnvironment = 2
  MaxActivations = 3
  MaxLaunches = 2
  MaxCrashes = 1
INVARIANTS
  OneActivation
  DrivesBounded
PROPERTIES
  StoppedIsOver
CHECK_DEADLOCK FALSE
