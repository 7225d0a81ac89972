SPECIFICATION Spec
CONSTANTS
  dev = dev
  lead = lead
  Member = {lead, dev}
  Agent = {dev}
  Policy <- FlatPolicy
  WakeOn <- OfferingWakeOn
  Creator = {lead}
  Reviewer = {lead}
  DepTypes = {"FS", "SS"}
  UpdatesDeps = FALSE
  Subtasks = FALSE
  MaxTasks = 2
  MaxDeps = 1
  MaxCrashes = 1
  None = None
PROPERTIES
  UnlockRaisesItem
CHECK_DEADLOCK FALSE
