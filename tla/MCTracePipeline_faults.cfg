SPECIFICATION Spec
CONSTANTS
  m = m
  h1 = h1
  Handles <- MCHandles
  Main <- m
  Capacity = 2
  FlushBatchSize = 2
  MaxSubmits = 5
  Faults <- AllFaults
INVARIANTS
  TypeOK
  NothingLost
  InOrder
  LossBound
  NoRefusalWhileRunning
PROPERTIES
  FileAppendOnly
  ImplementsTraceLog
