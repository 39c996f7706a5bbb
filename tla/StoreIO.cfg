SPECIFICATION FairSpec
CONSTANTS
  SegmentMax = 2
  MaxWrites = 5
  Faults <- IOFaults
INVARIANT TypeOK
INVARIANT ChainIntact
INVARIANT AttestedNeverLost
INVARIANT CheckpointChainIntact
INVARIANT DeletionAccounted
PROPERTY ImplementsLog
PROPERTY WrittenIsAttested
CHECK_DEADLOCK FALSE
