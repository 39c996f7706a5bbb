CONSTANTS
  Procs = {p1, p2}
  Hosts = {h1, h2}
  Pids = {n1, n2}
  MaxKeys = 3
  MaxStarts = 4
  MaxLog = 2
  Faults = {"race"}
SPECIFICATION Spec
SYMMETRY Symmetry
INVARIANT NoForkedChain
CHECK_DEADLOCK FALSE
