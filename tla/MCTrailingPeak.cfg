SPECIFICATION Spec
CONSTANTS
  o1 = o1
  o2 = o2
  o3 = o3
  o4 = o4
  o5 = o5
  NoOrder = NoOrder
  OrderId = {o1, o2, o3, o4, o5}
  Orders <- TrailingOrders
  MaxCycles = 2
  MaxSequence = 20
INVARIANTS
  PeakIsHighest
CHECK_DEADLOCK FALSE
