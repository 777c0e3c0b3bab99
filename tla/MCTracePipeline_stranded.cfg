SPECIFICATION LiveSpec
CONSTANTS
  m = m
  h1 = h1
  Handles <- MCHandles
  Main <- m
  Capacity = 2
  FlushBatchSize = 2
  MaxSubmits = 2
  Faults <- DiskFaults
PROPERTIES
  FlushedWithinInterval
