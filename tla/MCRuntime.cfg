SPECIFICATION PartsSpec
CONSTANTS
  MaxItems = 4
  MaxStops = 2
  Ids = {"i", "j"}
  Runs = {"r1", "r2", "r3"}
  None = "none"
  MaxSessions = 1
  Calls = {"c1", "c2"}
  Pieces = 2
  MaxCrashes = 1
  Sizes = {3, 8}
  Capacities = {20, 40}
  RecentRawTurns = 2
  MaxCompactions = 2
  SummaryTokens = 2
  MaxTurns = 6
  MaxRetries = 2
  MaxChunks = 3
CHECK_DEADLOCK FALSE
INVARIANTS
  OneTurnAtATime
  InboxIsExact
  TerminalsAreSound
  OneEnd
  EachTurnOnce
  OneAnswer
  CompleteIsWhole
  
PROPERTIES
  QueuedIsDriven
  CommandEnds
  
