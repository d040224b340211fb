\* Two configurations, two requests to analyse and two analyses.
SPECIFICATION Spec
CONSTANTS
  Configs = {c1, c2}
  Limits = {l1}
  Unset = unset
  Requests = {r1, r2}
  MaxNo = 2
  MaxRev = 2
INVARIANTS
  CompletedAsSaved
CHECK_DEADLOCK FALSE
