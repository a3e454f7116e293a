SPECIFICATION FairSpec
CONSTANTS
  InitialCapacity = 2
  CellMod = 3
  PtrMod = 64
  TapeSize = 2
  JitCapacity = 120
  MaxOutput = 8
  Fuel = 40
  CommandLines <- MCCommandLines
  Files <- MCFiles
  Contents <- MCContents
  Inputs <- MCInputs
  Hosts <- MCHosts
INVARIANTS
  TypeOK
  StagesGetWhatTheyExpect
  ReleasedAtExit
  ExitTellsWhatHappened
  OutputIsTheMeaning
PROPERTIES
  Exits
CHECK_DEADLOCK FALSE
