SPECIFICATION Spec
CONSTANTS
  lead = lead
  Member = {lead}
  Agent = {}
  Policy <- FlatPolicy
  WakeOn <- FlatWakeOn
  Creator = {lead}
  Reviewer = {None}
  DepTypes = {"SF"}
  UpdatesDeps = TRUE
  Subtasks = TRUE
  MaxTasks = 3
  MaxDeps = 2
  MaxCrashes = 0
  None = None
INVARIANTS
  DepsAcyclic
  NeverStuck
PROPERTIES
  CancelCascades
CHECK_DEADLOCK FALSE
