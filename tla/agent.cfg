SPECIFICATION FairSpec
CONSTANTS
  i1 = i1
  b1 = b1
  b2 = b2
  w1 = w1
  Requests = {i1, b1, b2}
  Workers = {w1}
  Slots = 2
  Priority <- MCPriority
CHECK_DEADLOCK FALSE
INVARIANT ExpiredStaysDown
INVARIANT OvertakenOnce
PROPERTY LaneSpec
PROPERTY CallsReturn
