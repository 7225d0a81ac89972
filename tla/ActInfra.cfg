SPECIFICATION WorkerSpec
CONSTANTS
  t1 = t1
  Proc = {Team}
  Team = Team
  Task = {t1}
  Validator = {v1, v2}
  Approval = Approval
  Rules <- Amended
  MaxActs = 2
  MaxCrashes = 0
  Evidence <- Resubmitted
  Digest = {e1, e2}
  e1 = e1
  e2 = e2
  None = None
  PrivateMount = FALSE
  MaxParallel = 1
  MaxEdits = 0
  v1 = v1
  v2 = v2
  c1 = c1
INVARIANTS
  InfraIsNotCharged
CHECK_DEADLOCK FALSE
