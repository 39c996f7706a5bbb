SPECIFICATION Spec
CONSTANTS
  Calls = {c1, c2, c3}
  QueueDepth = 1
  Faults <- SignFaults
INVARIANT SigningCostsNoRecord
CHECK_DEADLOCK FALSE
