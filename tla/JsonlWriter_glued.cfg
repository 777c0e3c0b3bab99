SPECIFICATION Spec
CONSTANTS
  Sizes = {1, 2, 4}
  BufferSize = 2
  FileBufferSize = 3
  MaxRecords = 2
  Faults = {"disk"}
  MaxFaults = 1
INVARIANT OneRecordPerLine
