SPECIFICATION FairSpec
CONSTANTS
  Offset = 1
  Length = 7
  BufferSize = 2
  QueueSize = 3
  MaxSize = 9
INVARIANTS
  TypeOK
  InOrder
  Complete
PROPERTIES
  ReadsLikeAStream
  Terminates
CHECK_DEADLOCK FALSE
