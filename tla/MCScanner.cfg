SPECIFICATION FairSpec
CONSTANTS
  InitialCapacity = 2
  MaxMixed = 4
  MaxLoops = 7
  Sources <- MCSources
INVARIANTS
  TypeOK
  StackIsTheOpenLoops
  PrefixIsMatched
  ResultIsMatched
  NothingLeaks
PROPERTIES
  EmittedIsFinal
  Terminates
  ImplementsTranslation
CHECK_DEADLOCK FALSE
