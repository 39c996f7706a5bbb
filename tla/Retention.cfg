CONSTANTS
  Enforcers = {e1}
  MaxSeq = 3
  MaxSegs = 3
  MaxCks = 3
  Legacy = 1
SPECIFICATION Spec
INVARIANTS TypeOK NoFalseAlarm PruneAccounted PruneResumes ChangeReported BundleHoldsTogether
CHECK_DEADLOCK FALSE
