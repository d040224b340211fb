SPECIFICATION Spec
CONSTANTS
  c1 = c1
  c2 = c2
  Operations <- MCRunOperations
  Nodes <- MCShortNodes
  Clients <- MCClients
  MaxAttempts = 2
  MaxVersion = 4
  MaxCrashes = 0
  MaxStops = 1
SYMMETRY MCSymmetry
INVARIANTS
  LocksFollowStatus
PROPERTIES
  EndIsFinal
\* A run that has ended may stay as it is for ever.
CHECK_DEADLOCK FALSE
