SPECIFICATION FairFeedSpec
CONSTANTS
  Process = {p, q}
  Command = {c1, c2}
  Nobody = Nobody
  Refused = {c2}
  HalfApplied = {}
  Foreign = {}
  MaxCrashes = 1
  MaxFailures = 1
  MaxDoubts = 1
  Client = {k1}
  MaxDrops = 1
INVARIANTS
  ToldOnceInOrder
  NoGap
PROPERTIES
  OutcomeIsTold
CHECK_DEADLOCK FALSE
