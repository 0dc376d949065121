SPECIFICATION FortunaSpec
CONSTANTS
  FORTUNA_POOLS = 3
  FORTUNA_WD = 2
  IVs = 16
  InLens = {20}
  OutLens = {16}
  ExportSizes = {96}
  MaxEvents = 3
  MaxReseeds = 2
  MaxKeys = 4
INVARIANT KeepZeroCloses
CHECK_DEADLOCK FALSE
