\* Small instances of the seven services; MCServices says which constants are whose. The
\* two requests also stand for the events, documents, savers, conversations of one user,
\* confirmations and clicks of the other parts: one symmetry set serves all.
SPECIFICATION ServicesSpec
CONSTANTS
  Events = {r1, r2, e3}
  QueueSize = 2
  BatchSize = 2
  MaxFaults = 2
  MaxReplays = 1
  Docs = {r1, r2}
  MaxTasks = 2
  MaxConf = 2
  MaxAttempts = 2
  MaxStalls = 1
  MaxPub = 3
  Files = {f1}
  Savers = {r1, r2}
  MaxVersions = 2
  MaxSum = 2
  MaxRev = 2
  c1 = r1
  c2 = r2
  c3 = c3
  u1 = u1
  u2 = u2
  Capacity = 2
  MaxMessages = 2
  Requests = {r1, r2}
  MaxVerdicts = 2
  MaxAnalyses = 2
  MaxReports = 2
  Confirmations = {r1, r2}
  Clicks = {r1, r2}
  MaxRows = 2
  Limit = 1
SYMMETRY Symmetry
CONSTRAINT NoOverlap
INVARIANTS TypesOK NothingIsLost SucceededIsCurrent DeletionIsComplete EnabledWasValidated AnswersAreCarried DownloadIsSound NewestShowsVerdict VersionsAreNotReused FreshComparisonIsTrue UpdatesAsConfirmed
CHECK_DEADLOCK FALSE
