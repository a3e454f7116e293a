SPECIFICATION Spec
CONSTANTS
  InitialCapacity = 2
  MaxMixed = 2
  MaxLoops = 0
  Sources <- MCSources
INVARIANTS
  UnclosedLambdaIsRefused
CHECK_DEADLOCK FALSE
