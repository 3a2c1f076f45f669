SPECIFICATION DownloadSpec
CONSTANTS
  Offset = 0
  Length = 12
  BufferSize = 2
  QueueSize = 3
  MaxSize = 8
INVARIANTS
  DownloadIsComplete
PROPERTIES
  DownloadsLikeAStream
  DownloadTerminates
CHECK_DEADLOCK FALSE
