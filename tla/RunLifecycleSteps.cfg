SPECIFICATION FairSpec
CONSTANTS
  c1 = c1
  c2 = c2
  Operations <- MCStepOperations
  Nodes <- MCLongNodes
  Clients <- MCOneClient
  MaxAttempts = 2
  MaxVersion = 9
  MaxCrashes = 1
  MaxStops = 0
INVARIANTS
  TypeOK
  VersionFencesSnapshots
  StepsInOrder
  StatusMatchesStep
  OneHandlerAtATime
  RunningIsCarriedThroughCrashes
PROPERTIES
  OnlyLegalMoves
  RunningSettles
\* A run that has ended may stay as it is for ever.
CHECK_DEADLOCK FALSE
