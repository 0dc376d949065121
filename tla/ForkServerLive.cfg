SPECIFICATION FairSpec
CONSTANTS
  Server = server
  Children = {k1}
  Conns = {c1, c2, c3}
  MaxFd = 3
  Backlog = 1
  MaxSignals = 1
PROPERTIES
  SignalEndsServer
  AcceptedConnectionEnds
  QueuedPeerIsAnswered
CHECK_DEADLOCK FALSE
