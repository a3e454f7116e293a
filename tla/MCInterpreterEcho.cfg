SPECIFICATION Spec
CONSTANTS
  InitialCapacity = 1
  CellMod = 4
  PtrMod = 5
  TapeSize = 3
  MaxOutput = 4
  MaxFrames = 4
  MaxCode = 1
  Programs <- Echo
  Inputs <- EchoInput
INVARIANTS
  EchoWritesItsInput
CHECK_DEADLOCK FALSE
