SPECIFICATION FairGoSpec
CONSTANTS
  Process = {p, q}
  Command = {c1, c2, c3}
  Nobody = Nobody
  Refused = {}
  HalfApplied = {}
  Foreign = {c3}
  MaxCrashes = 1
  MaxFailures = 1
  MaxDoubts = 0
  MaxFaults = 1
INVARIANTS
  HandoversAreSafe
  EndCostsOneCommand
PROPERTIES
  EveryCommandIsDecided
CHECK_DEADLOCK FALSE
