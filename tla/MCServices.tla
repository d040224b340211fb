------------------------------- MODULE MCServices -------------------------------
(***************************************************************************)
(* The services around a run: log writer, knowledge index, workflow        *)
(* versions, chat answers, test cases, reports and confirmed updates.      *)
(* They share no state but the database, and a behaviour is one of theirs: *)
(* the first state says whose, the variables of the others stay as they    *)
(* begin.                                                                  *)
(***************************************************************************)
EXTENDS LogWriter, TLC

CONSTANTS
  Docs, MaxTasks, MaxConf, MaxAttempts, MaxStalls,         \* index and test cases
  MaxPub,
  Files, Savers, MaxVersions, MaxSum, MaxRev,              \* workflow versions
  c1, c2, c3, u1, u2, Capacity, MaxMessages,               \* chats
  Requests, MaxVerdicts, MaxAnalyses, MaxReports,  \* reports
  Confirmations, Clicks, MaxRows, Limit                    \* updates

\* A base has settings and sources from the start.
ASSUME IndexAssumption == MaxConf \in Nat \ {0}

\* The index has been published once when test cases are generated.
ASSUME CasesAssumption == MaxPub \in Nat \ {0} /\ MaxAttempts \in Nat

\* A run may be bounded to no verdict, no analysis and no report.
ASSUME BoundsAssumption == MaxVerdicts \in Nat /\ MaxAnalyses \in Nat /\ MaxReports \in Nat

ASSUME UpdatesAssumption == MaxRows \in Nat /\ Limit \in Nat

VARIABLES
  part,  \* "log", "index", "workflow", "chat", "cases", "reports" or "updates"
  base, docs, docFiles, uploading, published, tasks, threads, missed, together, stalls,
  scenario, versions, remote, resources, publishing, saving, working, raced, overtaken,
  open, answers, active, listening, context, unsaved,
  pub, gen, book, task, work, overlap, caseFaults,
  run, comparison, rows, dirs, writer, reqs,
  matching, confirmation, updates, req, unanswered

indexVars ==
  <<base, docs, docFiles, uploading, published, tasks, threads, missed, together, stalls>>
workflowVars ==
  <<scenario, versions, remote, resources, publishing, saving, working, raced, overtaken>>
chatVars == <<open, answers, active, listening, context, unsaved>>
caseVars == <<pub, gen, book, task, work, overlap, caseFaults>>
reportVars == <<run, comparison, rows, dirs, writer, reqs>>
updateVars == <<matching, confirmation, updates, req, unanswered>>

\* One user has two conversations, another has one.
Conversations == {c1, c2, c3}
OwnerOf == c1 :> u1 @@ c2 :> u1 @@ c3 :> u2

\* Two metrics, one of them measured with another limit, against a baseline that has both.
Metric(value, setup) == [value |-> value, setup |-> setup]
Measured ==
  {"mean" :> Metric(1, "a") @@ "max" :> Metric(3, "a"), "mean" :> Metric(3, "b")}
BaselineRun == [version |-> 1, metrics |-> "mean" :> Metric(2, "a") @@ "max" :> Metric(3, "a")]

K == INSTANCE KnowledgeIndex
       WITH rows <- docs, disk <- docFiles, index <- published,
            overlapped <- together, faults <- stalls,
            MaxFaults <- MaxStalls
W == INSTANCE WorkflowVersions WITH Requests <- Savers
C == INSTANCE ChatGenerations WITH Owner <- OwnerOf
G == INSTANCE SmartCases
       WITH overlapped <- overlap, faults <- caseFaults, MaxFaults <- MaxStalls
R == INSTANCE Reports
       WITH MaxVersions <- MaxReports, Values <- Measured, Baseline <- BaselineRun
U == INSTANCE DatabaseUpdates WITH Requests <- Clicks

\* A writer's name is a request's, or says that there is none.
ASSUME ReportsAssumption == R!None \notin Requests

ServicesInit ==
  /\ part \in {"log", "index", "workflow", "chat", "cases", "reports", "updates"}
  /\ Init /\ K!Init /\ W!Init /\ C!Init /\ G!Init /\ R!Init /\ U!Init
  /\ part # "updates" => matching = 0

RunLog == part = "log" /\ Next /\
  UNCHANGED <<part, indexVars, workflowVars, chatVars, caseVars, reportVars, updateVars>>
RunIndex == part = "index" /\ K!Next /\
  UNCHANGED <<part, vars, workflowVars, chatVars, caseVars, reportVars, updateVars>>
RunWorkflow == part = "workflow" /\ W!Next /\
  UNCHANGED <<part, vars, indexVars, chatVars, caseVars, reportVars, updateVars>>
RunChat == part = "chat" /\ C!Next /\
  UNCHANGED <<part, vars, indexVars, workflowVars, caseVars, reportVars, updateVars>>
RunCases == part = "cases" /\ G!Next /\
  UNCHANGED <<part, vars, indexVars, workflowVars, chatVars, reportVars, updateVars>>
RunReports == part = "reports" /\ R!Next /\
  UNCHANGED <<part, vars, indexVars, workflowVars, chatVars, caseVars, updateVars>>
RunUpdates == part = "updates" /\ U!Next /\
  UNCHANGED <<part, vars, indexVars, workflowVars, chatVars, caseVars, reportVars>>

ServicesNext ==
  RunLog \/ RunIndex \/ RunWorkflow \/ RunChat \/ RunCases \/ RunReports \/ RunUpdates
servicesVars ==
  <<part, vars, indexVars, workflowVars, chatVars, caseVars, reportVars, updateVars>>
ServicesSpec == ServicesInit /\ [][ServicesNext]_servicesVars

\* The index is explored up to the first overlap of two threads.
NoOverlap == ~together
\* Every part is given the two values of Requests for what can be exchanged in it; the
\* conversations among them are of the same user.
Symmetry == Permutations(Requests)

\* What each module states of its variables.
TypesOK ==
  \/ part = "log" /\ TypeOK
  \/ part = "index" /\ K!TypeOK
  \/ part = "workflow" /\ W!TypeOK
  \/ part = "chat" /\ C!TypeOK
  \/ part = "cases" /\ G!TypeOK
  \/ part = "reports" /\ R!TypeOK
  \/ part = "updates" /\ U!TypeOK
SucceededIsCurrent == part = "index" => K!SucceededIsCurrent
DeletionIsComplete == part = "index" => K!DeletionIsComplete
EnabledWasValidated == part = "workflow" => W!EnabledWasValidated
AnswersAreCarried == part = "chat" => C!AnswersAreCarried
DownloadIsSound == part = "cases" => G!DownloadIsSound
NewestShowsVerdict == part = "reports" => R!NewestShowsVerdict
VersionsAreNotReused == part = "reports" => R!VersionsAreNotReused
FreshComparisonIsTrue == part = "reports" => R!FreshComparisonIsTrue
UpdatesAsConfirmed == part = "updates" => U!UpdatesAsConfirmed
=============================================================================
