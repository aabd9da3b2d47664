SPECIFICATION Spec
CONSTANTS
  Size = 4
  ArgCounts <- TheArgCounts
  MaxMessages = 6
INVARIANTS DeliveredWhole DeliveredInOrder
PROPERTY KeepsPromise
CHECK_DEADLOCK FALSE
