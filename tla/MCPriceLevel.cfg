SPECIFICATION Spec
CONSTANTS
  Level = {l1, l2}
  Order = {a, b, c, d}
  Null = Null
  MaxQuantity = 2
INVARIANTS
  WellLinked
PROPERTIES
  ImplementsFifo
