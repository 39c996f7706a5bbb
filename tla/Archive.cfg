CONSTANTS
  MaxSeq = 2
  MaxSegs = 2
  MaxKeys = 2
  MaxStarts = 2
  MaxStamps = 1
  MaxFailures = 2
  QueueDepth = 4
  MaxAttempts = 2
  BufferLimit = 4
  Faults = {"kill", "net", "sign"}
SPECIFICATION Spec
INVARIANTS TypeOK ShutdownComplete NoFalseMismatch DamageReported
PROPERTIES NothingShrinks
CHECK_DEADLOCK FALSE
