CONSTANTS
  ApTop = 2
  DataTop = 2
  StatSize = 2
SPECIFICATION Spec
INVARIANTS
  TypeOK
  RegCoherent
PROPERTIES
  LazyRead
  ImplementsCellStore
