SPECIFICATION Spec
CONSTANTS
  MaxSends = 2
  MaxRetries = 0
  MaxCrashes = 0
  HistoryLimit = 2
INVARIANT NoCompletionDuringSend
CHECK_DEADLOCK FALSE
