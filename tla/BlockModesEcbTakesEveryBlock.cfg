SPECIFICATION ModesSpec
CONSTANTS
  BlockBytes = 2
  ByteBits <- OneBit
  Keys = {k1}
  Encrypt <- Rotating
  Decrypt <- RotatingBack
  MemSize = 8
  Memories <- Scattered
  Lens = {4}
  MaxCalls = 1
INVARIANT EcbTakesEveryBlock
CHECK_DEADLOCK FALSE
