SPECIFICATION FairSpec
CONSTANTS
  InitialCapacity = 2
  MaxMixed = 6
  MaxLoops = 8
  Inputs <- MCInputs
INVARIANTS
  TypeOK
  MapIsExact
  TargetsSurvive
  ResultIsMatched
  ResultIsOptimised
  MapIsFreed
PROPERTIES
  Terminates
CHECK_DEADLOCK FALSE
