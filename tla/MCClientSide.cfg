SPECIFICATION ClientSideSpec
CONSTANTS
  Conns = {c1, c2}
  READ_BUFFER_SIZE = 2
  MaxDescriptors = 1
  MaxReply = 3
  MaxClientCalls = 3
  MaxInterrupts = 1
  Backlog = 1
  Processes = {p1, p2}
  PtrSize = 2
  DataLens = {2}
  MaxFileCalls = 3
  Digit <- DigitValues
  Other = {"z"}
  Longest = 4
INVARIANTS
  ClientSideTypeOK
  ContentIsStream
  DiesOnlyOfResets
  DescriptorsAreAccounted
  FileIsAccounted
  DataKeepsItsPlace
  StringsAreMade
PROPERTIES
  ReturnsAtTheEnd
  WaitEnds
  LoadGivesTheFile
CHECK_DEADLOCK FALSE
