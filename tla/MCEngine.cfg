SPECIFICATION FairSpec
CONSTANTS
  o1 = o1
  o2 = o2
  o3 = o3
  o4 = o4
  o5 = o5
  NoOrder = NoOrder
  OrderId = {o1, o2, o3, o4, o5}
  Orders <- EngineOrders
  MaxCycles = 2
  MaxSequence = 13
INVARIANTS
  TypeOK
  Uncrossed
  IndexesAgree
  TotalsMatch
  IdsAreUnique
  EligibleIsCurrent
  CascadeSettled
  LastPriceIsLastTrade
PROPERTIES
  ImplementsPriority
  CallsEnd
CHECK_DEADLOCK FALSE
