SPECIFICATION Spec
CONSTANTS
  Process = {p, q}
  Command = {c1, c2, c3}
  Nobody = Nobody
  Refused = {c3}
  HalfApplied = {c2}
  Foreign = {}
  MaxCrashes = 0
  MaxFailures = 0
  MaxDoubts = 0
INVARIANTS
  BookIsRecoverable
CHECK_DEADLOCK FALSE
