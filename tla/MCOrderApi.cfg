SPECIFICATION FairSpec
CONSTANTS
  Modulus <- Integers25
  PartitionCount = 3
  Command = {c1, c2}
  Symbols <- TradedSymbols
  Retries = 2
  MaxStops = 1
INVARIANTS
  QueuedIsUndecided
  InOwnQueue
PROPERTIES
  EveryRequestIsAnswered
  AcceptedIsDecided
CHECK_DEADLOCK FALSE
