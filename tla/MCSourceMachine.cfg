SPECIFICATION MCSpec
CONSTANTS
  InitialCapacity = 1
  CellMod = 3
  PtrMod = 5
  TapeSize = 3
  MaxOutput = 4
  MaxFrames = 0
  MaxText = 3
  MaxBurst = 9
  Programs <- MCPrograms
  Inputs <- MCInputs
PROPERTIES
  ImplementsSource
CHECK_DEADLOCK FALSE
