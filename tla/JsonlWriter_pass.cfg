SPECIFICATION Spec
CONSTANTS
  Sizes = {1, 2, 4}
  BufferSize = 2
  FileBufferSize = 3
  MaxRecords = 3
  Faults = {"disk", "crash", "deadline"}
  MaxFaults = 3
INVARIANTS
  TypeOK
  LinesIntact
  DamageBounded
  PiecesInOrder
PROPERTIES
  ImplementsTraceLog
