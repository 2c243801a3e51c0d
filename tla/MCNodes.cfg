SPECIFICATION FairNodeSpec
CONSTANTS
  Process = {p, q}
  Command = {c1, c2}
  Nobody = Nobody
  Refused = {}
  HalfApplied = {}
  Foreign = {}
  MaxCrashes = 1
  MaxFailures = 1
  MaxDoubts = 1
  MaxLosses = 1
  MaxFailedPromotions = 1
  MaxFaults = 3
  GraveWeight = 3
INVARIANTS
  KeyGivesOneConsumer
  StandbyFollowsLog
  StatusIsTrue
  LoggedOnce
PROPERTIES
  ImplementsTurns
  SomeNodeLeads
  LossIsNoticed
CHECK_DEADLOCK FALSE
