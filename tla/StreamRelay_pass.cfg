SPECIFICATION LiveSpec
CONSTANTS
  ChunkCapacity = 2
  MaxChunks = 6
INVARIANTS
  TypeOK
  NothingInBetween
  CompleteMeansWhole
  ReadAheadBounded
  StopsAfterDisconnect
  TraceCoversClient
PROPERTIES
  ImplementsStreamedBody
  EveryStreamTraced
