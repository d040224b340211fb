SPECIFICATION Spec
CONSTANTS
  run1 = run1
  run2 = run2
  run3 = run3
  rem = rem
  market = market
  Runs <- MCRuns
  Resources <- MCResources
  Need <- MCNeed
  Lease = 2
  MaxTime = 5
  MaxCrashes = 1
INVARIANT NoDoubleUse
CHECK_DEADLOCK FALSE
