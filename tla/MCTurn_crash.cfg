SPECIFICATION FairSpec
CONSTANTS
  MaxParallelCalls = 2
  MaxIterations = 2
  MaxTurns = 2
  MaxReplies = 1
  MaxCallsPer = 2
  MaxInjections = 1
  MaxCrashes = 2
  MaxStops = 1
  MaxRejections = 1
  AnswersPrompt = TRUE
CHECK_DEADLOCK FALSE
INVARIANTS
  
  ResultsFollowReply
PROPERTIES
  StopEnds
