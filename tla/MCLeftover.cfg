SPECIFICATION NodeSpec
CONSTANTS
  Process = {p, q}
  Command = {c1, c2}
  Nobody = Nobody
  Refused = {}
  HalfApplied = {}
  Foreign = {}
  MaxCrashes = 0
  MaxFailures = 0
  MaxDoubts = 0
  MaxLosses = 0
  MaxFailedPromotions = 1
  MaxFaults = 1
  GraveWeight = 1
INVARIANTS
  OneConsumer
CHECK_DEADLOCK FALSE
