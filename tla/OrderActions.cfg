SPECIFICATION Spec
CONSTANTS
  MaxSends = 2
  MaxRetries = 1
  MaxCrashes = 1
  HistoryLimit = 1
INVARIANTS
  TypeOK
  ActionsRemembered
  OneActionAtATime
PROPERTIES
  EndedStepStays
\* The run ends and the bounds are reached.
CHECK_DEADLOCK FALSE
