SPECIFICATION Spec
CONSTANTS
  Roots = {r, s}
  Paths = {a}
  MaxEdits = 0
  MaxClears = 2
  MaxStops = 1
  MaxRestarts = 0
CHECK_DEADLOCK FALSE
INVARIANT
  ReadyIsAlwaysFaithful
