CONSTANTS
  r1 = r1  r2 = r2  r3 = r3  s1 = s1
  Requests = {r1, r2, r3}
  Sessions = {s1}
  NoSession = NoSession
  SessionOf <- MCSessionOf
  MaxKeys = 3
  CompactAt = 1
  MaxStarts = 2
  MaxErasures = 3
  Faults = {"kill", "io", "torn"}
SPECIFICATION Spec
INVARIANTS TypeOK SealedKeyIsDurable RecordedIsInChain
PROPERTIES KeepsContentPromise ErasureIsFinal
CHECK_DEADLOCK FALSE
