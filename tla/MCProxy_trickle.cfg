SPECIFICATION LiveSpec
CONSTANTS
  m = m
  s = s
  r1 = r1
  r2 = r2
  Requests <- OneRequest
  Trickling <- OneRequest
  Main <- m
  Server <- s
  Capacity = 1
  FlushBatchSize = 2
  MaxSubmits = 2
  Faults <- NoFaults
PROPERTIES
  ShutdownEnds
