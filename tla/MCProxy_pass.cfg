SPECIFICATION LiveSpec
CONSTANTS
  m = m
  s = s
  r1 = r1
  r2 = r2
  Requests <- MCRequests
  Trickling <- NoRequests
  Main <- m
  Server <- s
  Capacity = 1
  FlushBatchSize = 2
  MaxSubmits = 4
  Faults <- DiskAndDeadline
INVARIANTS
  TypeOK
  WritersAccounted
  RecordMatchesReply
  CleanExitAccounts
PROPERTIES
  WritersReleased
  StreamsTraced
  ShutdownEnds
