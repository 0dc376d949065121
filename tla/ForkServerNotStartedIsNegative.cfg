SPECIFICATION Spec
CONSTANTS
  Server = server
  Children = {k1, k2}
  Conns = {c1, c2, c3}
  MaxFd = 3
  Backlog = 2
  MaxSignals = 0
INVARIANT NotStartedIsNegative
CHECK_DEADLOCK FALSE
