SPECIFICATION FairSpec
CONSTANTS
  Producers = {p1, p2}
  Nodes = {n1}
  Heap = heap
  Kinds = {"reply", "deadline"}
  Caps = {0, 1}
  PipeCap = 1
  Roles = {"poll", "cond", "main"}
  MaxPosts = 1
PROPERTIES EventuallyTaken UnregisterReturns
CHECK_DEADLOCK FALSE
