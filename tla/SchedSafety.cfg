SPECIFICATION Spec
CONSTANTS
  a1 = a1
  a2 = a2
  t1 = t1
  Agent = {a1, a2}
  Nobody = Nobody
  BoardTask = {t1}
  Concurrency = 2
  ErrorRetries = 0
  HandoffLimit = 1
  Budget = 99
  StormLimit = 99
  BatchRun = FALSE
  Outcomes = {"completed", "error", "handoff"}
  RunnerFailures = FALSE
  Operator = {"dm", "room", "task", "close", "reset_agent", "stop"}
  Timers = FALSE
  MaxEnvironment = 2
  MaxActivations = 3
  MaxLaunches = 1
  MaxCrashes = 1
SYMMETRY MCSymmetry
INVARIANTS
  ShownOnce
  RefoldAgrees
PROPERTIES
  QuiescentIsIdle
CHECK_DEADLOCK FALSE
