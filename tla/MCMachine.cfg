CONSTANTS
  ApTop = 1
  DataTop = 1
  StatSize = 1
  IpSize = 5
  BootBase = 4
  LoopSize = 3
  Insns <- Nothing
  Programs <- MachinePrograms
  Configs <- NoSwitches
  Inputs <- Bits
  MaxQueue = 0
  MaxTx = 0
SPECIFICATION HistorySpec
INVARIANTS
  TypeOK
  PendingTestValid
PROPERTIES
  ImplementsCellStore
  ImplementsArchitecture
  StepReturns
