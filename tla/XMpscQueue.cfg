SPECIFICATION Spec
CONSTANTS
  Producers = {p1, p2}
  Nodes = {n1, n2, n3}
  Null = null
  Kinds = {"post"}
  MaxPending = 1
  MaxPosts = 2
SYMMETRY Symmetry
INVARIANTS TypeOK NoLostWakeup NodesConserved DepthKept
PROPERTY MailboxSpec
CHECK_DEADLOCK FALSE
