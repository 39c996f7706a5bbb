CONSTANTS
  MaxSeq = 3
  MaxSegs = 2
  MaxKeys = 1
  MaxStarts = 3
  MaxStamps = 1
  MaxFailures = 2
  QueueDepth = 4
  MaxAttempts = 2
  BufferLimit = 1
  Faults = {}
SPECIFICATION Spec
PROPERTY FilesAreSent
CHECK_DEADLOCK FALSE
