CONSTANTS
  ApTop = 2
  DataTop = 2
  StatSize = 1
  IpSize = 15
  BootBase = 13
  LoopSize = 4
  Insns <- MCNone
  Programs <- MCNone
  Configs <- MCConfigs
  Inputs <- MCInputs
  MaxQueue = 0
  MaxTx = 3
  Unlimited <- MCUnlimited
  Jobs <- MCJobs
  Typed <- MCTyped
SPECIFICATION RunSpec
INVARIANTS
  ExitTells
PROPERTIES
  RunsBrainfuck
CHECK_DEADLOCK FALSE
