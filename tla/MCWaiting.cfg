CONSTANTS
  ApTop = 1
  DataTop = 1
  StatSize = 1
  IpSize = 3
  BootBase = 2
  LoopSize = 2
  Insns <- MCInsns
  Programs <- MCPrograms
  Configs <- MCConfigs
  Inputs <- MCInputs
  MaxQueue = 1
  MaxTx = 1
SPECIFICATION LoadSpec
INVARIANTS
  HaltedIsFresh
  WaitIsConsistent
  LoadIsContiguous
PROPERTIES
  CinIsServed
  ImplementsArchitecture
