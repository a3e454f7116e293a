SPECIFICATION MCSpec
CONSTANTS
  InitialCapacity = 1
  CellMod = 4
  PtrMod = 64
  TapeSize = 3
  JitCapacity = 120
  MaxOutput = 4
  MaxMixed = 2
  MaxLoops = 0
  MaxCode = 0
  Programs <- MCPrograms
  Inputs <- MCInputs
INVARIANTS
  CalleeSavedRegisters
CHECK_DEADLOCK FALSE
