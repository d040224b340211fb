SPECIFICATION Spec
CONSTANTS
  c1 = c1
  c2 = c2
  Operations <- MCStopOperations
  Nodes <- MCStopNodes
  Clients <- MCOneClient
  MaxAttempts = 3
  MaxVersion = 8
  MaxCrashes = 0
  MaxStops = 1
INVARIANT RunningIsCarried
CHECK_DEADLOCK FALSE
