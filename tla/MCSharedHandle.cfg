SPECIFICATION Spec
CONSTANTS
  Readers <- MCReaders
  Writers <- MCWriters
  Handles <- MCHandles
  Assignments <- MCAssignments
  Offset = 1
  Length = 2
  DataLength = 3
  BufferSize = 2
  MaxSize = 3
  MaxResizes = 1
INVARIANT WritersInterleave
PROPERTIES
  ReadersDoNotDisturb
  Terminates
CHECK_DEADLOCK FALSE
