------------------------------ MODULE MCExecution ------------------------------
(***************************************************************************)
(* One run over the machines that execute a step: the dispatch through     *)
(* terminals, the files of a parser step, the analyses of a statistics     *)
(* step, the commands of a node that needs no terminal, and the captures   *)
(* with the wiring they describe.  A behaviour is one of theirs: the first *)
(* state says whose.  They are composed to be checked side by side, the    *)
(* variables of the others stay as they begin.                             *)
(***************************************************************************)
EXTENDS TerminalDispatch, TLC

CONSTANTS
  Parts,                                                     \* the machines to explore
  Tables, Exporters, Completions, MaxParserRev,              \* parser files
  Configs, Limits, Unset, Requests, MaxNo, MaxRev,           \* analyses
  NodeKinds, N, MaxExecs,                                    \* commands
  rem, order, Database, Clear, MaxSnaps, MaxFaults, Previewers, Editors  \* captures

ASSUME PartsAssumption ==
  Parts \subseteq {"terminal", "parser", "statistics", "commands", "captures"}
\* There is a database to export, and finitely many requests are in flight.
ASSUME ParserAssumption ==
  MaxParserRev \in Nat \ {0} /\ IsFiniteSet(Exporters) /\ IsFiniteSet(Completions)
ASSUME StatisticsAssumption == MaxNo \in Nat /\ MaxRev \in Nat
ASSUME CommandsAssumption == N \in Nat \ {0}
\* The interfaces of the REM host have a first revision.
ASSUME CapturesAssumption == MaxRev # 0

VARIABLES
  part,  \* "terminal", "parser", "statistics", "commands" or "captures"
  data, inputFile, inputRow, prepared, exporting, prep, parserStep, remote, outFile,
  outRow, collecting, parserExcused,
  step, summary, limit, saving, exec, file, metrics, late,
  nodeKind, node, nodeExecs, shells, scripts, preps, output, artifact, downloads, nodeExcused,
  capture, interfaces, run, wiring, snaps, captures, edits, confirming, captureExcused, faults

parserVars == <<data, inputFile, inputRow, prepared, exporting, prep, parserStep, remote,
                outFile, outRow, collecting, parserExcused>>
statisticsVars == <<step, summary, limit, saving, exec, file, metrics, late>>
commandVars == <<nodeKind, node, nodeExecs, shells, scripts, preps, output, artifact, downloads,
                 nodeExcused>>
captureVars == <<capture, interfaces, run, wiring, snaps, captures, edits, confirming,
                 captureExcused, faults>>

P == INSTANCE ParserFiles
       WITH summary <- prepared, step <- parserStep, excused <- parserExcused,
            Requests <- Completions, MaxRev <- MaxParserRev
S == INSTANCE StatisticsAnalysis
C == INSTANCE NodeCommands
       WITH kind <- nodeKind, row <- node, execs <- nodeExecs, completing <- downloads,
            excused <- nodeExcused, Kinds <- NodeKinds, Requests <- Completions
A == INSTANCE Captures
       WITH node <- capture, execs <- captures, excused <- captureExcused,
            Targets <- <<rem, order>>, Rem <- rem

ExecutionInit ==
  /\ part \in Parts
  /\ Init /\ P!Init /\ S!Init /\ C!Init /\ A!Init
  /\ part # "terminal" => kind = CHOOSE k \in Kinds : TRUE
  /\ part # "commands" => nodeKind = CHOOSE k \in NodeKinds : TRUE
  /\ part # "captures" => capture = "server"

RunTerminal == part = "terminal" /\ Next
  /\ UNCHANGED <<part, parserVars, statisticsVars, commandVars, captureVars>>
RunParser == part = "parser" /\ P!Next
  /\ UNCHANGED <<part, vars, statisticsVars, commandVars, captureVars>>
RunStatistics == part = "statistics" /\ S!Next
  /\ UNCHANGED <<part, vars, parserVars, commandVars, captureVars>>
RunCommands == part = "commands" /\ C!Next
  /\ UNCHANGED <<part, vars, parserVars, statisticsVars, captureVars>>
RunCaptures == part = "captures" /\ A!Next
  /\ UNCHANGED <<part, vars, parserVars, statisticsVars, commandVars>>

ExecutionNext == RunTerminal \/ RunParser \/ RunStatistics \/ RunCommands \/ RunCaptures
executionVars == <<part, vars, parserVars, statisticsVars, commandVars, captureVars>>
ExecutionSpec == ExecutionInit /\ [][ExecutionNext]_executionVars

\* Terminals and completions are given the values of Requests, so one exchange of the two
\* serves every part.
Symmetry == Permutations(Requests) \cup Permutations(Configs)

\* What the modules state of their variables.
TypesOK ==
  \/ part = "terminal" /\ TypeOK
  \/ part = "parser" /\ P!TypeOK
  \/ part = "statistics" /\ S!TypeOK
  \/ part = "commands" /\ C!TypeOK
  \/ part = "captures" /\ A!TypeOK
ParserFilesAsRecorded == part = "parser" => P!ParserFilesAsRecorded
CompletionIsFresh == part = "statistics" => S!CompletionIsFresh
HistoryMatchesFiles == part = "statistics" => S!HistoryMatchesFiles
HistoryIsKept == [][part = "statistics" => S!KeepsHistory]_statisticsVars
MetricsAreOfLatestSuccess == part = "statistics" => S!MetricsAreOfLatestSuccess
CommandsAsRecorded == part = "commands" => C!CommandsAsRecorded
CapturesAsShown == part = "captures" => A!CapturesAsShown
=============================================================================
