CONSTANTS
  ApTop = 1
  DataTop = 1
  StatSize = 1
  IpSize = 220
  BootBase = 210
  LoopSize = 100
  Insns <- MCNone
  Programs <- MCNone
  Configs <- MCConfigs
  Inputs <- MCNone
  MaxQueue = 0
  MaxTx = 0
  Unlimited <- MCUnlimited
  Jobs <- MCJobs
  Typed <- MCTyped
SPECIFICATION RunSpec
INVARIANTS
  DocumentedNesting
CHECK_DEADLOCK FALSE
