SPECIFICATION Spec
CONSTANTS
  BiasSize = 32
  ByteSize = 4
  ApShift = 252
  Garbage = {3}
  HalfWord = 16
  MaxOut = 4
  MaxReads = 12
  Jobs <- MCLongSource
INVARIANTS ImageHolds
CHECK_DEADLOCK FALSE
