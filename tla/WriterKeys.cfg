CONSTANTS
  Procs = {p1, p2}
  Hosts = {h1, h2}
  Pids = {n1, n2}
  MaxKeys = 3
  MaxStarts = 4
  MaxLog = 2
  Faults = {"kill", "reuse", "start"}
SPECIFICATION Spec
SYMMETRY Symmetry
INVARIANTS TypeOK OneWriter NoForkedChain CheckpointsVerifiable KeysRecoverable
PROPERTIES KeyNeverLost
CHECK_DEADLOCK FALSE
