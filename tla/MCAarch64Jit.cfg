SPECIFICATION Spec
CONSTANTS
  InitialCapacity = 1
  CellMod = 4
  PtrMod = 64
  TapeSize = 3
  AddressWords = 3
  JitCapacity = 190
  MaxOutput = 4
  Programs <- MCPrograms
  Inputs <- MCInputs
  MaxMixed = 4
  MaxLoops = 6
  MaxCode = 5
INVARIANTS
  TypeOK
  JumpsReachTargets
  FailsCleanly
PROPERTIES
  ImplementsInterpreter
CHECK_DEADLOCK FALSE
