SPECIFICATION FairSpec
CONSTANTS
  r1 = r1
  r2 = r2
  Run = {r1, r2}
  Slot = {1, 2}
  Parallel = 1
  Reason = {"breaker:budget", "breaker:provider", "goals_cancelled", "human"}
  Poll = 2
  MaxPause = 1
  MaxRounds = 2
  Nudges = 0
  MaxCrashes = 1
  MaxLaunches = 2
INVARIANTS
  ResultsAreGenuine
  WaitKept
PROPERTIES
  ResultsStand
  SupervisorEnds
CHECK_DEADLOCK FALSE
