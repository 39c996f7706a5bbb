CONSTANTS
  Enforcers = {e1}
  MaxSeq = 4
  MaxSegs = 3
  MaxCks = 2
  Legacy = 0
SPECIFICATION Spec
INVARIANT VerifiedBundleVerifies
CHECK_DEADLOCK FALSE
