SPECIFICATION BucketSpec
CONSTANTS
  Rate = 4
  Capacity = 3
  Pauses <- MCPauses
  MaxMessages = 9
INVARIANTS WindowBound
PROPERTY RefusesOnlyOverRate
CHECK_DEADLOCK FALSE
