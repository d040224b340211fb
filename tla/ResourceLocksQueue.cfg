SPECIFICATION FairSpec
CONSTANTS
  run1 = run1
  run2 = run2
  run3 = run3
  rem = rem
  market = market
  Runs <- MCRuns
  Resources <- MCResources
  Need <- MCNeed
  Lease = 2
  MaxTime = 2
  MaxCrashes = 0
PROPERTY QueueMoves
CHECK_DEADLOCK FALSE
