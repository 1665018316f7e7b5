SPECIFICATION FairSpec
CONSTANTS
  a = a
  b = b
  p = p
  q = q
  None = None
  Runtimes = {a, b}
  Procs = {p}
  ProcOf <- OneProc
  SnapshotInterval = 2
  ReadPage = 2
  MaxCalls <- TwoAndOne
CHECK_DEADLOCK FALSE
INVARIANTS
  OneWriterInOrder
PROPERTIES
  CloseEnds
