SPECIFICATION FairSpec
CONSTANTS
  Turns <- Replies
  ToolSizes = {2}
  SummarySize = 3
  Threshold = 5
  Keep = 4
  MaxSteps = 2
  WarnAt = 1
  DecideAt = 2
  StatusEvery = 2
  FinishReviews = 1
  EmptyTurnRetries = 1
  LengthRetries = 1
  MaxIncoming = 1
  MayOverflow = TRUE
  MaxCrashes = 2
INVARIANTS
  CallsAnswered
  EffectsOnce
  BudgetKept
PROPERTIES
  TailKept
  Terminates
CHECK_DEADLOCK FALSE
