SPECIFICATION FairSpec
CONSTANTS
  Roots = {r, s}
  Paths = {a}
  MaxEdits = 1
  MaxClears = 1
  MaxStops = 1
  MaxRestarts = 1
CHECK_DEADLOCK FALSE
INVARIANTS
  IndexIsRight
PROPERTIES
  ClearEnds
