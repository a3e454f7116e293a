SPECIFICATION FairSpec
CONSTANTS
  InitialCapacity = 1
  CellMod = 4
  PtrMod = 5
  TapeSize = 3
  MaxOutput = 4
  MaxFrames = 4
  MaxCode = 5
  Programs <- MCPrograms
  Inputs <- MCInputs
INVARIANTS
  TypeOK
  FramesMatchCode
  ReturnsAreMatched
PROPERTIES
  LoopsExitOnZero
  CallsReturn
CHECK_DEADLOCK FALSE
