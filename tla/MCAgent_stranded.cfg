SPECIFICATION FairSpec
CONSTANTS
  MaxItems = 2
  MaxStops = 1
CHECK_DEADLOCK FALSE
PROPERTY
  QueuedIsSettled
