SPECIFICATION Spec
CONSTANTS
  SegmentMax = 2
  MaxWrites = 3
  Faults <- CheckpointFaults
INVARIANT RestartPossible
CHECK_DEADLOCK FALSE
