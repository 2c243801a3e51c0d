SPECIFICATION RecoverySpec
CONSTANTS
  o1 = o1
  o2 = o2
  o3 = o3
  o4 = o4
  NoOrder = NoOrder
  OrderId = {o1, o2, o3, o4}
  Orders <- RecoveredOrders
  MaxCycles = 3
  MaxSequence = 16
INVARIANTS
  QueuesAreInOrder
  TrailsTheMarket
PROPERTIES
  RecoveryIsFaithful
  TriggerRatchets
CHECK_DEADLOCK FALSE
