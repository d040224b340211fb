-------------------------------- MODULE Reports --------------------------------
(***************************************************************************)
(* The reports of one run and its comparison with a baseline               *)
(* (backend/app/services/reports.py, run_comparisons.py, the routes        *)
(* submit_verdict, regenerate_reports and put_run_comparison of runs.py    *)
(* and the report_generation handler).  A report is rendered into a        *)
(* staging directory, renamed to the next version's directory and only     *)
(* then recorded; a verdict is stored in the transaction of its report.    *)
(* The requests run in threads and load the run with one SELECT per table, *)
(* which is no snapshot on SQLite; FOR UPDATE locks nothing there.         *)
(***************************************************************************)
EXTENDS Naturals, FiniteSets, FiniteSetsExt

CONSTANTS
  Requests,     \* request threads and the report node's handler
  Values,       \* what an analysis may measure: metrics, each with value and setup
  Baseline,     \* the completed run to compare with: its metrics and workflow version
  MaxVerdicts, MaxAnalyses, MaxVersions   \* bounds on what is submitted, analysed, rendered

VARIABLES
  run,          \* committed rows: status, verdict, last analysis and its metrics
  comparison,   \* the comparison's row: analysis and metrics it was made from, its result
  rows,         \* recorded reports: version -> the content registered for it
  dirs,         \* directories vNNN on disk: version -> their content
  writer,       \* the request whose transaction holds the database's write lock
  reqs          \* requests in progress

vars == <<run, comparison, rows, dirs, writer, reqs>>

None == "none"
NoMetrics == <<>>   \* a function of no metric
Idle == [kind |-> "idle", at |-> "idle", status |-> "running", verdict |-> 0, no |-> 0,
         value |-> NoMetrics, ver |-> 0, shows |-> 0, late |-> FALSE, raced |-> FALSE]
NoComparison == [no |-> 0, value |-> NoMetrics, judged |-> NoMetrics, compatible |-> FALSE]

Goes(r, new) == reqs' = [reqs EXCEPT ![r] = new]
Ends(r) == /\ Goes(r, Idle) /\ writer' = IF writer = r THEN None ELSE writer

\* The statistics step publishes an analysis: summary and metrics in one transaction.
Analyze(value) ==
  /\ run.status = "running" /\ run.no < MaxAnalyses /\ writer = None
  /\ run' = [run EXCEPT !.no = @ + 1, !.value = value]
  /\ UNCHANGED <<comparison, rows, dirs, writer, reqs>>

\* advance_workflow after the last step
AwaitReview ==
  /\ run.status = "running" /\ writer = None
  /\ run' = [run EXCEPT !.status = "awaiting_review"]
  /\ UNCHANGED <<comparison, rows, dirs, writer, reqs>>

\* load_run: the run and its steps, then metrics and verdict
Receive(r, kind) ==
  /\ reqs[r].at = "idle"
  /\ Goes(r, [Idle EXCEPT !.kind = kind, !.at = "loading", !.status = run.status,
                          !.no = IF kind = "compare" THEN run.no ELSE 0])
  /\ UNCHANGED <<run, comparison, rows, dirs, writer>>
Load(r) ==
  /\ reqs[r].at = "loading"
  /\ Goes(r, [reqs[r] EXCEPT !.at = "loaded", !.verdict = run.verdict,
                             !.value = IF reqs[r].kind = "compare" THEN run.value ELSE NoMetrics])
  /\ UNCHANGED <<run, comparison, rows, dirs, writer>>

\* Mutant: only the measured values are compared
Checksum_Values(snapshot) == <<snapshot.value>>
\* metric_snapshot names the analysis beside every value, and the checksum covers both.
Checksum(snapshot) == <<snapshot.no, snapshot.value>>

\* _comparison_rows: a metric's setup is its unit, script and limit; "" if one is missing.
SameSetup(x, y) == x.setup # "" /\ x.setup = y.setup
Assessment(target, base, key) ==
  IF key \notin DOMAIN target THEN "missing"
  ELSE IF key \notin DOMAIN base THEN "added"
  ELSE IF ~SameSetup(target[key], base[key]) THEN "incompatible"
  ELSE IF target[key].value = base[key].value THEN "stable"
  ELSE IF target[key].value < base[key].value THEN "improved" ELSE "regressed"
ComparisonRows(target, base) ==
  [key \in DOMAIN target \cup DOMAIN base |-> Assessment(target, base, key)]

\* compare_runs, the run being of workflow version 1
Compatible(judged) ==
  /\ Baseline.version = 1
  /\ \E key \in DOMAIN judged : judged[key] \in {"stable", "improved", "regressed"}
  /\ \A key \in DOMAIN judged : judged[key] # "incompatible"

\* save_comparison
Saved(q) ==
  LET judged == ComparisonRows(q.value, Baseline.metrics)
  IN  [no |-> q.no, value |-> q.value, judged |-> judged, compatible |-> Compatible(judged)]

\* put_run_comparison: the row of the run is inserted or overwritten.
Compare(r) ==
  /\ reqs[r].kind = "compare" /\ reqs[r].at = "loaded" /\ writer = None
  /\ IF reqs[r].value = NoMetrics THEN UNCHANGED comparison
     ELSE comparison' = Saved(reqs[r])
  /\ Ends(r) /\ UNCHANGED <<run, rows, dirs>>
\* comparison_payload: whether the comparison is shown as outdated
Outdated == Checksum(comparison) # Checksum(run)
DropComparison ==
  /\ comparison # NoComparison /\ writer = None
  /\ comparison' = NoComparison /\ UNCHANGED <<run, rows, dirs, writer, reqs>>

\* submit_verdict writes its rows and flushes: a run that was completed meanwhile
\* has a verdict (unique) and another version, which ends the request.
GiveVerdict(r) ==
  /\ reqs[r].kind = "verdict" /\ reqs[r].at = "loaded" /\ writer = None
  /\ IF reqs[r].status \in {"awaiting_review", "completed"} /\ reqs[r].status = run.status /\ run.verdict < MaxVerdicts
     THEN /\ writer' = r
          /\ Goes(r, [reqs[r] EXCEPT !.at = "flushed", !.verdict = run.verdict + 1])
     ELSE Ends(r)
  /\ UNCHANGED <<run, comparison, rows, dirs>>

\* regenerate_reports wants a completed run, the node's handler works on a running one.
MayRender(q) ==
  \/ q.kind = "verdict" /\ q.at = "flushed"
  \/ q.at = "loaded" /\ q.kind = "manual" /\ q.status = "completed"
  \/ q.at = "loaded" /\ q.kind = "node" /\ q.status = "running"

\* _next_report_version looks at the records and at the directories.
Versions == DOMAIN rows \cup DOMAIN dirs

\* Mutant: the document is built from the verdict that was loaded
Shown_Loaded(q) == IF q.kind = "verdict" THEN run.verdict ELSE q.verdict
\* build_report_document: the verdict the report shows
Shown(q) == q.verdict

\* generate_reports numbers the version and renders the files in a staging directory ...
Render(r) ==
  /\ MayRender(reqs[r]) /\ Max(Versions \cup {0}) < MaxVersions
  /\ Goes(r, [reqs[r] EXCEPT !.at = "staged", !.ver = Max(Versions \cup {0}) + 1,
                             !.shows = Shown(reqs[r]), !.late = FALSE])
  /\ UNCHANGED <<run, comparison, rows, dirs, writer>>

\* Mutant: an existing directory is replaced
Collides_Never(q) == FALSE
\* ... and moves it to its place, unless the version's directory exists.
Collides(q) == q.ver \in DOMAIN dirs
Publish(r) ==
  /\ reqs[r].at = "staged"
  /\ IF Collides(reqs[r])
     THEN Ends(r) /\ UNCHANGED dirs
     ELSE /\ dirs' = [v \in DOMAIN dirs \cup {reqs[r].ver} |->
                        IF v = reqs[r].ver THEN [by |-> r, shows |-> reqs[r].shows] ELSE dirs[v]]
          /\ reqs' = [q \in Requests |->
                        IF q = r THEN [reqs[r] EXCEPT !.at = "renamed"]
                        ELSE IF reqs[q].at = "staged" THEN [reqs[q] EXCEPT !.late = TRUE] ELSE reqs[q]]
          /\ UNCHANGED writer
  /\ UNCHANGED <<run, comparison, rows>>

\* _register_report_artifact reads the files back, the summary is set, the request commits.
Record(r) ==
  /\ reqs[r].at = "renamed" /\ writer \in {None, r}
  /\ rows' = [v \in DOMAIN rows \cup {reqs[r].ver} |->
                IF v = reqs[r].ver THEN [by |-> dirs[v].by, shows |-> dirs[v].shows, raced |-> reqs[r].raced]
                ELSE rows[v]]
  /\ IF reqs[r].kind = "verdict"
     THEN /\ run' = [run EXCEPT !.status = "completed", !.verdict = reqs[r].verdict]
          /\ reqs' = [q \in Requests |->
                        IF q = r THEN Idle
                        ELSE IF reqs[q].at \notin {"idle", "loading"} THEN [reqs[q] EXCEPT !.raced = TRUE] ELSE reqs[q]]
     ELSE run' = run /\ Goes(r, Idle)
  /\ writer' = None
  /\ UNCHANGED <<comparison, dirs>>

\* A full disk, a renderer's error, a locked database: the request fails and rolls
\* back, a directory already renamed stays.
Fails(r) == reqs[r].at # "idle" /\ Ends(r) /\ UNCHANGED <<run, comparison, rows, dirs>>
Crash ==
  /\ \E r \in Requests : reqs[r].at # "idle"
  /\ reqs' = [r \in Requests |-> Idle] /\ writer' = None
  /\ UNCHANGED <<run, comparison, rows, dirs>>

Init ==
  /\ run = [status |-> "running", verdict |-> 0, no |-> 0, value |-> NoMetrics]
  /\ comparison = NoComparison
  /\ rows = [v \in {} |-> 0] /\ dirs = [v \in {} |-> 0]
  /\ writer = None /\ reqs = [r \in Requests |-> Idle]

Step(r) ==
  \/ \E kind \in {"verdict", "manual", "node", "compare"} : Receive(r, kind)
  \/ Load(r) \/ Compare(r) \/ GiveVerdict(r) \/ Render(r) \/ Publish(r) \/ Record(r) \/ Fails(r)
Next ==
  \/ \E value \in Values : Analyze(value)
  \/ AwaitReview \/ DropComparison \/ Crash
  \/ \E r \in Requests : Step(r)

Spec == Init /\ [][Next]_vars

-------------------------------------------------------------------------------
(* Properties *)

\* The rows have their types and only recorded or renamed versions exist.
TypeOK ==
  /\ run.status \in {"running", "awaiting_review", "completed"} /\ run.verdict \in 0..MaxVerdicts
  /\ run.no \in 0..MaxAnalyses /\ run.value \in Values \cup {NoMetrics}
  /\ comparison.no \in 0..MaxAnalyses /\ comparison.value \in Values \cup {NoMetrics}
  /\ DOMAIN rows \subseteq DOMAIN dirs /\ DOMAIN dirs \subseteq 1..MaxVersions
  /\ writer \in Requests \cup {None}
  /\ reqs \in [Requests -> [
       kind : {"idle", "verdict", "manual", "node", "compare"},
       at : {"idle", "loading", "loaded", "flushed", "staged", "renamed"},
       status : {"running", "awaiting_review", "completed"}, verdict : 0..MaxVerdicts,
       no : 0..MaxAnalyses, value : Values \cup {NoMetrics}, ver : 0..MaxVersions,
       shows : 0..MaxVerdicts, late : BOOLEAN, raced : BOOLEAN]]

\* The newest report shows the verdict in force, whatever failed, crashed or was
\* retried between two verdicts; a report that was loading its data while a verdict
\* was stored is excused, it may come out last and show the verdict before.
NewestShowsVerdict ==
  DOMAIN rows # {} => LET newest == rows[Max(DOMAIN rows)] IN newest.shows = run.verdict \/ newest.raced

\* The files of a recorded report are the ones it was recorded with: no later
\* generation or retry takes a version that is in use.  And a generation that found
\* its number while nobody else was publishing finds its place free: the directory a
\* crash or a failed commit left behind is not in its way.
VersionsAreNotReused ==
  /\ \A v \in DOMAIN rows : dirs[v].by = rows[v].by /\ dirs[v].shows = rows[v].shows
  /\ \A r \in Requests : reqs[r].at = "staged" /\ ~reqs[r].late => reqs[r].ver \notin DOMAIN dirs

\* A comparison that is not shown as outdated names the analysis and judges the
\* metrics that are the run's own now, although steps and metrics are loaded one after
\* the other and an analysis may be published in between; if it is called compatible,
\* every metric both runs have was measured alike in both, and there is one.
FreshComparisonIsTrue ==
  comparison # NoComparison /\ ~Outdated =>
    /\ comparison.no = run.no
    /\ comparison.judged = ComparisonRows(run.value, Baseline.metrics)
    /\ comparison.compatible =>
         LET shared == DOMAIN run.value \cap DOMAIN Baseline.metrics
         IN  /\ shared # {}
             /\ \A key \in shared : run.value[key].setup = Baseline.metrics[key].setup
===============================================================================
