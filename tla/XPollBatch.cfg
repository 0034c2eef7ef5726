SPECIFICATION Spec
CONSTANTS
  Fds = {0, 1}
  Socks = {s1, s2, s3}
  Addrs = {a1, a2}
  None = none
  MaxRegs = 3
SYMMETRY Symmetry
INVARIANT EventReachesItsSocket
CHECK_DEADLOCK FALSE
