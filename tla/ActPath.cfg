SPECIFICATION FairWorkerSpec
CONSTANTS
  t1 = t1
  Proc = {Team}
  Team = Team
  Task = {t1}
  Validator = {v1, v2}
  Approval = Approval
  Rules <- Amended
  MaxActs = 2
  MaxCrashes = 1
  Evidence <- Resubmitted
  Digest = {e1, e2}
  e1 = e1
  e2 = e2
  None = None
  PrivateMount = TRUE
  MaxParallel = 1
  MaxEdits = 1
  v1 = v1
  v2 = v2
  c1 = c1
INVARIANTS
  OnePending
  EffectOnce
  VerdictsAreEarned
PROPERTIES
  EffectIsLawful
  ImplementsLedger
  ImplementsActPath
  PendingResolves
CHECK_DEADLOCK FALSE
