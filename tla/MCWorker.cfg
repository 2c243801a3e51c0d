SPECIFICATION FairSpec
CONSTANTS
  Process = {p, q}
  Command = {c1, c2, c3, c4}
  Nobody = Nobody
  Refused = {c4}
  HalfApplied = {}
  Foreign = {c3}
  MaxCrashes = 1
  MaxFailures = 1
  MaxDoubts = 1
INVARIANTS
  TypeOK
  LiveBookIsReplay
  SnapshotIsReplay
  StatusIsTrue
  ProcessedSurvives
PROPERTIES
  ImplementsLog
  EveryCommandSettles
CHECK_DEADLOCK FALSE
