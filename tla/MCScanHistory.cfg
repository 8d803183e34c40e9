CONSTANTS
  IpSize = 5
  BootBase = 4
  LoopSize = 4
  Insns <- MCInsns
  Programs <- MCPrograms
SPECIFICATION HistorySpec
INVARIANTS
  TypeOK
  LoopCounterClean
  LatchedInsn
  CountsDepth
  EndsInTime
PROPERTIES
  EndsOnMatch
  ScanEnds
