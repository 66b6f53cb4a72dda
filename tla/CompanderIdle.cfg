SPECIFICATION ShapingSpec
CONSTANTS
  Unit = 3
  Block = 2
  Have = 0
  CpdLen = 4
  Points = {0, 1, 2, 3}
  MaxOrders = 5
INVARIANTS CompanderWorks
CHECK_DEADLOCK FALSE
