SPECIFICATION Spec
CONSTANTS
  Producers = {p1, p2}
  Nodes = {n1}
  Heap = heap
  Kinds = {"post"}
  Caps = {1}
  PipeCap = 1
  Roles = {"poll", "cond", "main"}
  MaxPosts = 2
SYMMETRY Symmetry
INVARIANTS TypeOK NoLostWakeup NoLostStop TasksInOrder PoolConserved SoftCap OnlyLateTasksLost
PROPERTY MailboxSpec
CHECK_DEADLOCK FALSE
