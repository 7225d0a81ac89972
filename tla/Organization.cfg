SPECIFICATION FairSpec
CONSTANTS
  a1 = a1
  a2 = a2
  lead = lead
  dev = dev
  t1 = t1
  Team = Team
  Cli = Cli
  NoOne = NoOne
  Proc = {Team, Cli}
  Settling = {Team}
  Agent = {a1, a2}
  Seat = {lead, dev}
  Contents <- Versions
  Ratified = {"manifest"}
  YesAtLeast = 0
  NoAtMost = 0
  MaxCrashes = 1
  Start <- AtStart
  ReportsTo <- Lines
  Staffing = {lead, dev}
  Task = {t1}
  MaxActs = 2
INVARIANTS
  SeatsFit
  DismissedHoldNothing
PROPERTIES
  ChangesAreLawful
  AmendmentsEnd
  OrgFollows
CHECK_DEADLOCK FALSE
