SPECIFICATION Spec
CONSTANTS
  m = m
  s = s
  r1 = r1
  r2 = r2
  Requests <- OneRequest
  Trickling <- NoRequests
  Main <- m
  Server <- s
  Capacity = 1
  FlushBatchSize = 2
  MaxSubmits = 2
  Faults <- NoFaults
INVARIANTS
  StatusZeroMeansNoResponse
