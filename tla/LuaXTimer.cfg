SPECIFICATION LuaSpec
CONSTANTS
  TVR_SIZE = 2
  TVN_SIZE = 2
  Levels = 2
  MAX_DELTA = 1
  Nodes = {n1, n2, n3}
  None = none
  LuaTimers = {t1, t2}
  Infinite = 99
  Reinit = FALSE
  Intervals = {1, 2}
  Repeats = {1, 2, 99}
  Steps = {1, 3}
  Backs = {}
  MaxTime = 5
SYMMETRY Symmetry
INVARIANTS TimerTypeOK Reclaimed HandleFresh CallbackHasOwner PinnedIffArmed
PROPERTY NoCallAfterDelete
CHECK_DEADLOCK FALSE
