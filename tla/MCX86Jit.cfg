SPECIFICATION MCSpec
CONSTANTS
  InitialCapacity = 1
  CellMod = 4
  PtrMod = 64
  TapeSize = 3
  JitCapacity = 130
  MaxOutput = 4
  MaxMixed = 3
  MaxLoops = 6
  MaxCode = 5
  Programs <- MCPrograms
  Inputs <- MCInputs
INVARIANTS
  TypeOK
  NeverDerails
  JumpsReachTargets
  LambdaAddresses
  FailsCleanly
PROPERTIES
  ImplementsInterpreter
  Compiles
CHECK_DEADLOCK FALSE
