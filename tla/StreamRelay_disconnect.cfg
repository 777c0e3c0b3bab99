SPECIFICATION LiveSpec
CONSTANTS
  ChunkCapacity = 2
  MaxChunks = 6
INVARIANTS
  PartialTraceWasReceived
