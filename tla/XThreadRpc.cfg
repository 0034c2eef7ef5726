SPECIFICATION FairSpec
CONSTANTS
  Cos = {c1, c2}
  NoCo = noco
  MaxCalls = 2
  MaxReplies = 2
  QueueMax = 2
INVARIANTS TypeOK WaitsForItsCall OwnResult TimerGuardsWait
PROPERTIES ReturnsOnce TimedCallReturns
CHECK_DEADLOCK FALSE
