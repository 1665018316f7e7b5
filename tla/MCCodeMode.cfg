\* Two programs with two calls between them, one refused record.
SPECIFICATION FairSpec
CONSTANTS
  None = None
  Programs = {p, q}
  MaxCalls = 2
  MaxFailures = 1
CHECK_DEADLOCK FALSE
INVARIANTS
  ProgramsAreSound
PROPERTIES
  
  RunEnds
