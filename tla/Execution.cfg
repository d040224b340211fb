\* Two terminals and two retries; one table, one export and two completion requests; two
\* configurations, two requests and two analyses; two commands and two executions of them;
\* captures of two hosts, or of a database, with three snapshots in all. The two requests stand for the
\* terminals and completion requests of the other parts too: one symmetry set serves all.
SPECIFICATION ExecutionSpec
CONSTANTS
  Parts = {"terminal", "parser", "statistics", "commands", "captures"}
  Terminals = {r1, r2}
  Web = web
  Task = task
  Elsewhere = elsewhere
  Free = free
  MaxTries = 2
  Kinds = {"shell", "market", "slnic", "parser"}
  Tables = {a}
  Exporters = {x}
  Completions = {r1, r2}
  MaxParserRev = 2
  Configs = {c1, c2}
  Limits = {l1}
  Unset = unset
  Requests = {r1, r2}
  MaxNo = 2
  MaxRev = 2
  NodeKinds = {"rem", "market", "slnic", "merge"}
  N = 2
  MaxExecs = 2
  rem = rem
  order = order
  Database = database
  Clear = {2}
  MaxSnaps = 3
  MaxFaults = 1
  Previewers = {p1}
  Editors = {e1}
SYMMETRY Symmetry
INVARIANTS TypesOK OneCommandPerAttempt WaitingStepIsDriven ParserFilesAsRecorded CompletionIsFresh HistoryMatchesFiles MetricsAreOfLatestSuccess CommandsAsRecorded CapturesAsShown
PROPERTIES DisconnectFailsItsOwn HistoryIsKept
CHECK_DEADLOCK FALSE
