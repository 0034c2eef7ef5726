SPECIFICATION Spec
CONSTANTS
  TVR_SIZE = 2
  TVN_SIZE = 4
  Levels = 3
  MAX_DELTA = 15
  Nodes = {n1}
  None = none
  Intervals = {3}
  Repeats = {1}
  Steps = {1}
  Backs = {}
  MaxTime = 12
INVARIANT SleepsToNextExpiry
CHECK_DEADLOCK FALSE
