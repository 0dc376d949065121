SPECIFICATION StreamsSpec
CONSTANTS
  Algorithm <- Tiny
  Width = 128
  CallSizes = {0, 1, 2, 3, 5, 8, 9, 64}
  MaxBytes = 26
  MaxMessages = 2
  FORTUNA_POOLS = 3
  FORTUNA_WD = 2
  IVs = 16
  InLens = {20, 33}
  OutLens = {0, 17}
  ExportSizes = {95, 96}
  MaxEvents = 5
  MaxReseeds = 4
  MaxKeys = 6
  BlockBytes = 2
  ByteBits <- OneBit
  Keys = {k1}
  Encrypt <- Rotating
  Decrypt <- RotatingBack
  MemSize = 7
  Memories <- Scattered
  Lens = {0, 1, 4, 6}
  MaxCalls = 2
INVARIANTS
  StreamsTypeOK
  AbsorbedIsPrefix
  DigestIsOfPaddedMessage
  EntropyIsKept
  PoolsFollowSchedule
  BlocksAreFresh
  ReseedsInTime
  OnlyOutputIsWritten
  CbcEncryptIsChained
  CbcDecryptInverts
PROPERTIES
  CallsReturn
  RefusedIsTooLong
CHECK_DEADLOCK FALSE
