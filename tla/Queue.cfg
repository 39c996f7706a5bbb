SPECIFICATION FairSpec
CONSTANTS
  Calls = {c1, c2, c3}
  QueueDepth = 1
  Faults <- AllFaults
INVARIANTS
  TypeOK
  WrittenInCallOrder
  AcceptedIsWritten
  LossIsReported
PROPERTIES
  NothingAfterClose
  EveryCallEnds
  CloseReturns
CHECK_DEADLOCK FALSE
