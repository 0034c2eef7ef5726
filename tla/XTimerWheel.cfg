SPECIFICATION Spec
CONSTANTS
  TVR_SIZE = 2
  TVN_SIZE = 4
  Levels = 3
  MAX_DELTA = 15
  Nodes = {n1}
  None = none
  Intervals = {1, 2, 8, 20}
  Repeats = {1, 3}
  Steps = {1, 11}
  Backs = {3}
  MaxTime = 40
INVARIANT FiresOnTime
PROPERTY NoneDropped
CHECK_DEADLOCK FALSE
