SPECIFICATION PrimitivesSpec
CONSTANTS
  Bits <- TwoBits
  S <- AesSBox
  Si <- AesSBoxInverse
  Mix <- CirculantMix
  InvMix <- CirculantInvMix
  Rcon <- Powers
  UserKeys <- SampleKeys
  KeyLens = {15, 16, 24, 32}
  Garbage <- SampleGarbage
  MaxSetups = 2
  Blocks <- SampleBlocks
  MaxBlocks = 2
  SBox <- DesSBox
  DesKeys <- ExampleKeys
  DesGarbage <- ExampleGarbage
  DesBlocks <- ExampleBlocks
  MaxDesSetups = 2
  MaxDesBlocks = 2
  Constants <- ScatteredConstants
  InitialValues <- ScatteredValues
  HashBlocks <- ScatteredBlocks
  MaxCompressions = 2
INVARIANTS
  PrimitivesTypeOK
  KeyIsExpanded
  InverseKeyMatches
  EncryptsAsFips197
  DecryptInverts
  EncryptsAsFips46
  TripleDecryptInverts
PROPERTY
  ImplementsStandard
CHECK_DEADLOCK FALSE
