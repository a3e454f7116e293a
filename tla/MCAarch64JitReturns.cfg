SPECIFICATION FairSpec
CONSTANTS
  InitialCapacity = 1
  CellMod = 4
  PtrMod = 64
  TapeSize = 3
  AddressWords = 3
  JitCapacity = 140
  MaxOutput = 4
  Programs <- Echo
  Inputs <- EchoInput
  MaxMixed = 0
  MaxLoops = 0
  MaxCode = 0
PROPERTIES
  Returns
CHECK_DEADLOCK FALSE
