CONSTANTS
  IpSize = 4
  BootBase = 3
  LoopSize = 3
  Insns <- MCInsns
  Programs <- MCPrograms
SPECIFICATION Spec
PROPERTIES
  ScanEnds
