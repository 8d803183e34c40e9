CONSTANTS
  ApTop = 4
  DataTop = 2
  StatSize = 1
  IpSize = 17
  BootBase = 2
  LoopSize = 3
  Insns <- MCNone
  Programs <- MCNone
  Configs <- MCConfigs
  Inputs <- MCInputs
  MaxQueue = 0
  MaxTx = 0
  Unlimited <- MCUnlimited
  Jobs <- MCJobs
  Typed <- MCTyped
SPECIFICATION BootSpec
INVARIANTS
  BootClears
PROPERTIES
  Ends
CHECK_DEADLOCK FALSE
