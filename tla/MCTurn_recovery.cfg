SPECIFICATION Spec
CONSTANTS
  MaxParallelCalls = 2
  MaxIterations = 2
  MaxTurns = 1
  MaxReplies = 1
  MaxCallsPer = 2
  MaxInjections = 0
  MaxCrashes = 1
  MaxStops = 0
  MaxRejections = 0
  AnswersPrompt = TRUE
CHECK_DEADLOCK FALSE
INVARIANTS
  RecoveryAnswersAll
