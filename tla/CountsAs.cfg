SPECIFICATION Spec
CONSTANTS
  m1 = m1
  m2 = m2
  Task = {root, kid}
  Parent <- Tree
  NoTask = NoTask
  Member = {m1, m2}
  Proc = {Team}
  Team = Team
  MaxChanges = 5
  MaxCrashes = 2
  root = root
  kid = kid
INVARIANTS
  PaidOnce
  AsIfAtOnce
CHECK_DEADLOCK FALSE
