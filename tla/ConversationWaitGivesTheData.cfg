SPECIFICATION ConversationSpec
CONSTANTS
  Conns = {c1, c2}
  READ_BUFFER_SIZE = 2
  MaxDescriptors = 1
  MaxReply = 1
  MaxClientCalls = 1
  MaxInterrupts = 0
  Backlog = 1
PROPERTY WaitGivesTheData
CHECK_DEADLOCK FALSE
