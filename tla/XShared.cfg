SPECIFICATION FairSpec
CONSTANTS
  k1 = k1
  k2 = k2
  k3 = k3
  k4 = k4
  Keys = {k1, k2, k3, k4}
  ShardOf <- MCShardOf
  Hash <- MCHash
  NShards = 2
  KeyLen <- MCKeyLen
  EntrySize = 1
  Lengths <- MCLengths
  VlenRange = 2
  MaxLost = 1
  Budget = 3
  InitBuckets = 1
  SweepBudget = 2
  GrowFails = FALSE
  TTLs = {0, 1}
  MaxTime = 2
INVARIANTS Accounting NoResurrection
PROPERTIES ExpiredReclaimed
CHECK_DEADLOCK FALSE
