SPECIFICATION Spec
CONSTANTS
  Total = 13
  BufferSize = 3
  MaxWriteLength = 2
  QueueSize = 3
INVARIANTS
  TypeOK
  UploadIsComplete
  RemoteIsAPrefix
  ProgressIsNearlyTrue
PROPERTY Terminates
CHECK_DEADLOCK FALSE
