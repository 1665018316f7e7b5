SPECIFICATION Spec
CONSTANTS
  MaxParallelCalls = 2
  MaxIterations = 3
  MaxTurns = 2
  MaxReplies = 2
  MaxCallsPer = 2
  MaxInjections = 0
  MaxCrashes = 0
  MaxStops = 1
  MaxRejections = 0
  AnswersPrompt = TRUE
CHECK_DEADLOCK FALSE
INVARIANTS
  DispatchIsRight
PROPERTIES
  ImplementsCallProtocol
