SPECIFICATION Spec
CONSTANTS
  a = a
  b = b
  p = p
  q = q
  None = None
  Runtimes = {a, b}
  Procs = {p, q}
  ProcOf <- TwoProcs
  SnapshotInterval = 1
  ReadPage = 1
  MaxCalls <- OneAndOne
CHECK_DEADLOCK FALSE
INVARIANTS
  TypeOK
  StateIsReplay
  FeedIsComplete
  AnsweredIsDurable
PROPERTIES
  ImplementsEventLog
