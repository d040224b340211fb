------------------------- MODULE StatisticsAnalysis -------------------------
(***************************************************************************)
(* The analyses of a data statistics step                                  *)
(* (backend/app/services/statistics_execution.py with the routes of        *)
(* runs.py that configure, start and complete the step).  The step keeps   *)
(* its configuration in two columns, result_summary (selected inputs,      *)
(* revision, history) and config_snapshot (latency limit).  An analysis is *)
(* reserved under a number, executed by a task, its outcome sealed once in *)
(* a file and then saved with the step.  Saving a configuration first      *)
(* lists the remote files: what it writes is computed from the step it     *)
(* loaded before that await, and the step's row has no version.            *)
(***************************************************************************)
EXTENDS Naturals, FiniteSets

CONSTANTS
  Configs,   \* inputs an operator may select
  Limits,    \* latency limits an operator may set
  Unset,     \* what the step starts with: no input selected, the limit of its node
  Requests,  \* configuration requests in flight
  MaxNo,     \* bound on analysis numbers
  MaxRev     \* bound on configuration revisions

VARIABLES
  step,      \* status of the step; its run's status follows
  summary,   \* committed result_summary
  limit,     \* committed config_snapshot
  saving,    \* configuration requests awaiting the listing, with what they loaded
  exec,      \* the task executing the step, with what it loaded
  file,      \* sealed outcome of each number on disk, or Nothing
  metrics,   \* the analysis the metrics table holds the results of, 0: none
  late       \* a save was computed from a step that changed before it was committed

vars == <<step, summary, limit, saving, exec, file, metrics, late>>

Numbers == 1..MaxNo
Nothing == [status |-> "none", rev |-> 0, inputs |-> Unset, limit |-> Unset]
NoRecord == [no |-> 0, status |-> "none", rev |-> 0, inputs |-> Unset, limit |-> Unset,
             sealed |-> FALSE]
Empty == [config |-> Unset, rev |-> 0, history |-> {}, active |-> 0, latest |-> 0,
          latestRev |-> 0]
Nobody == [on |-> FALSE, summary |-> Empty, seen |-> Empty]
Largest(S) == CHOOSE m \in S \cup {0} : \A x \in S : x <= m

\* _statistics_config_editable
Editable == step \in {"pending", "failed", "waiting"}

\* list_statistics_csv_files: what update_statistics_runtime_config awaits; the request
\* saves inputs and limit, saves them and goes on to analyse, or saves the inputs under
\* the limit it loaded (update_statistics_inputs).
Begins(r, inputs, to, analyze) ==
  /\ Editable /\ \A s \in saving : s.id # r
  /\ saving' = saving \cup
       {[id |-> r, inputs |-> inputs, to |-> to, analyze |-> analyze, from |-> step,
         seen |-> summary, limit |-> limit, fresh |-> TRUE]}
  /\ UNCHANGED <<step, summary, limit, exec, file, metrics, late>>
SaveBegins(r, c, l, analyze) == Begins(r, c, l, analyze)
SelectBegins(r, c) == Begins(r, c, limit, FALSE)

\* Whoever writes the run's row makes what the others loaded of it stale.
Outdated(S) == {[s EXCEPT !.fresh = FALSE] : s \in S}

\* The summary a save writes: revised only if the configuration differs from what was
\* loaded.  A limit equal to the loaded one is not written at all.
Revised(s) ==
  IF s.seen.config = s.inputs /\ s.limit = s.to
    THEN s.seen
    ELSE [s.seen EXCEPT !.config = s.inputs, !.rev = @ + 1]
RevisedLimit(s) == IF s.to = s.limit THEN limit ELSE s.to

\* reserve_statistics_analysis: the next number, with the configuration of the time.
NextNo(sum) == Largest({h.no : h \in sum.history}) + 1
Reserved_Alone(sum, lim) ==   \* Mutant: the history starts over
  [sum EXCEPT
     !.history = {[no |-> NextNo(sum), status |-> "running", rev |-> sum.rev,
                   inputs |-> sum.config, limit |-> lim, sealed |-> FALSE]},
     !.active = NextNo(sum)]
Reserved(sum, lim) ==
  [sum EXCEPT
     !.history = @ \cup {[no |-> NextNo(sum), status |-> "running", rev |-> sum.rev,
                          inputs |-> sum.config, limit |-> lim, sealed |-> FALSE]},
     !.active = NextNo(sum)]

\* update_statistics_inputs and update_statistics_runtime_configuration: the step's
\* row is written whatever has become of it.
SaveEnds(s) ==
  /\ ~s.analyze /\ Revised(s).rev <= MaxRev
  /\ saving' = saving \ {s}
  /\ summary' = IF Revised(s) = s.seen THEN summary ELSE Revised(s)
  /\ limit' = RevisedLimit(s)
  /\ late' = (late \/ (Revised(s) # s.seen /\ (s.seen # summary \/ ~s.fresh)))
  /\ UNCHANGED <<step, exec, file, metrics>>

\* analyze_statistics_step: the save and the start of the analysis in one
\* transaction, which the run's version protects.
MayBegin(sum) == NextNo(sum) \in Numbers
Analyze(s) ==
  /\ s.analyze
  /\ IF s.fresh /\ s.from = step
       THEN /\ Revised(s).rev <= MaxRev /\ MayBegin(Revised(s))
            /\ summary' = Reserved(Revised(s), RevisedLimit(s))
            /\ limit' = RevisedLimit(s)
            /\ step' = "running"
            /\ saving' = Outdated(saving \ {s})
            /\ late' = (late \/ s.seen # summary)
       ELSE saving' = saving \ {s} /\ UNCHANGED <<step, summary, limit, late>>
  /\ UNCHANGED <<exec, file, metrics>>

SaveFails(s) ==
  /\ saving' = saving \ {s}
  /\ UNCHANGED <<step, summary, limit, exec, file, metrics, late>>

\* start_run_step and retry_run_step begin the step as it is configured.
BeginStep ==
  /\ step \in {"pending", "failed"} /\ MayBegin(summary)
  /\ summary' = Reserved(summary, limit) /\ step' = "running"
  /\ saving' = Outdated(saving)
  /\ UNCHANGED <<limit, exec, file, metrics, late>>

\* execute_statistics_node: the task loads the step; a reservation that was
\* overwritten is made again, in the session.
Active(sum) ==
  IF \E h \in sum.history : h.no = sum.active
    THEN CHOOSE h \in sum.history : h.no = sum.active ELSE NoRecord
Load ==
  /\ step = "running" /\ ~exec.on
  /\ LET sum == IF Active(summary).status = "running" THEN summary
                ELSE Reserved(summary, limit)
     IN  /\ sum.active \in Numbers
         /\ exec' = [on |-> TRUE, summary |-> sum, seen |-> summary]
  /\ UNCHANGED <<step, summary, limit, saving, file, metrics, late>>

\* _finalize_statistics_analysis and _register_analysis_artifact: the outcome is
\* linked once; a file of the same outcome is adopted, another is a conflict.
Outcome(status) ==
  LET h == Active(exec.summary)
  IN  [status |-> status, rev |-> h.rev, inputs |-> h.inputs, limit |-> h.limit]
Agrees_Any(no, p) == TRUE   \* Mutant: an orphaned file is adopted unread
Agrees(no, p) == file[no] \in {Nothing, p}
Seal(no, p) == file' = [file EXCEPT ![no] = IF @ = Nothing THEN p ELSE @]

Finished(status) ==
  LET h == Active(exec.summary)
      done == [h EXCEPT !.status = status, !.sealed = TRUE]
      sum == [exec.summary EXCEPT !.history = (@ \ {h}) \cup {done}]
  IN  IF status = "succeeded"
        THEN [sum EXCEPT !.latest = h.no, !.latestRev = h.rev] ELSE sum

Save(sum) ==
  /\ summary' = sum
  /\ late' = (late \/ summary # exec.seen)
  /\ saving' = Outdated(saving)

\* _replace_metrics runs after the seal of a success.
Results_Any(status, before, no) == no   \* Mutant: replaced whatever the outcome
Results(status, before, no) == IF status = "succeeded" THEN no ELSE before

ExecEnds(status) ==
  /\ exec.on /\ (status = "succeeded" => exec.summary.config # Unset)
  /\ LET no == exec.summary.active IN
       /\ Agrees(no, Outcome(status)) /\ Seal(no, Outcome(status))
       /\ Save(Finished(status))
       /\ metrics' = Results(status, metrics, no)
  /\ step' = IF status = "succeeded" THEN "waiting" ELSE "failed"
  /\ exec' = Nobody
  /\ UNCHANGED limit

\* The outcome is sealed and then cannot be saved: the metrics, or the commit, fail,
\* and the session that failed is of no use to the exception path either.
ExecUnsaved(status) ==
  /\ exec.on /\ (status = "succeeded" => exec.summary.config # Unset)
  /\ Agrees(exec.summary.active, Outcome(status))
  /\ Seal(exec.summary.active, Outcome(status))
  /\ exec' = Nobody
  /\ UNCHANGED <<step, summary, limit, saving, metrics, late>>

\* The number's file says otherwise (two failures may differ in their error): neither
\* the outcome nor a failure can be sealed, so the handler of the failure raises too
\* and nothing is saved.
ExecConflicts(status) ==
  /\ exec.on
  /\ \/ ~Agrees(exec.summary.active, Outcome(status))
     \/ status = "failed" /\ file[exec.summary.active].status = "failed"
  /\ exec' = Nobody
  /\ UNCHANGED <<step, summary, limit, saving, file, metrics, late>>

\* complete_workflow_step with validate_statistics_completion_freshness.
Covered_Any(sum) == sum.latest # 0                               \* Mutant
Covered(sum) ==
  /\ sum.latestRev = sum.rev
  /\ \E h \in sum.history : h.no = sum.latest /\ h.status = "succeeded" /\ h.rev = sum.rev
Complete ==
  /\ step = "waiting" /\ Covered(summary)
  /\ step' = "succeeded" /\ saving' = Outdated(saving)
  /\ UNCHANGED <<summary, limit, exec, file, metrics, late>>

\* A crash; between the seal and the save it leaves what ExecUnsaved leaves.
Crash ==
  /\ saving # {} \/ exec.on
  /\ saving' = {} /\ exec' = Nobody
  /\ UNCHANGED <<step, summary, limit, file, metrics, late>>

Init ==
  /\ step = "pending"
  /\ summary = Empty
  /\ limit = Unset /\ saving = {}
  /\ exec = Nobody
  /\ file = [n \in Numbers |-> Nothing] /\ metrics = 0 /\ late = FALSE

Next ==
  \/ \E r \in Requests, c \in Configs :
       \/ SelectBegins(r, c)
       \/ \E l \in Limits, analyze \in BOOLEAN : SaveBegins(r, c, l, analyze)
  \/ \E s \in saving : SaveEnds(s) \/ Analyze(s) \/ SaveFails(s)
  \/ BeginStep \/ Load \/ Complete \/ Crash
  \/ \E status \in {"succeeded", "failed"} :
       ExecEnds(status) \/ ExecUnsaved(status) \/ ExecConflicts(status)

Spec == Init /\ [][Next]_vars

----------------------------------------------------------------------------
(* Properties *)

Statuses == {"pending", "running", "waiting", "failed", "succeeded"}

\* The columns, the requests and the files hold what the program may write.
TypeOK ==
  /\ step \in Statuses
  /\ summary.config \in Configs \cup {Unset} /\ limit \in Limits \cup {Unset}
  /\ summary.rev \in 0..MaxRev /\ summary.latest \in {0} \cup Numbers
  /\ \A h \in summary.history : h.no \in Numbers
  /\ \A s \in saving : s.id \in Requests /\ s.inputs \in Configs /\ s.to \in Limits \cup {Unset}
  /\ \A n \in Numbers : file[n].status \in {"none", "succeeded", "failed"}
  /\ metrics \in {0} \cup Numbers /\ late \in BOOLEAN

\* A step is completed with an analysis of the configuration that is saved, and that
\* configuration is frozen from then on, as long as no save outlived the state of the
\* step it was computed from.
CompletionIsFresh ==
  (step = "succeeded" /\ ~late) =>
    \E h \in summary.history :
      /\ h.no = summary.latest /\ h.status = "succeeded"
      /\ h.inputs = summary.config /\ h.limit = limit

\* What the user guide says of it, without that condition: only a saved configuration
\* with a successful analysis lets the step be completed, which freezes it.
CompletedAsSaved ==
  step = "succeeded" =>
    \E h \in summary.history :
      /\ h.no = summary.latest /\ h.status = "succeeded"
      /\ h.inputs = summary.config /\ h.limit = limit

\* The history of analyses says what their files say, whatever was executed twice
\* or interrupted between seal and save.
HistoryMatchesFiles ==
  \A h \in summary.history :
    h.sealed => file[h.no] = [status |-> h.status, rev |-> h.rev,
                              inputs |-> h.inputs, limit |-> h.limit]

\* What was sealed stays in the history as it was sealed, and its number is not given
\* again: later analyses, failed or repeated ones, only add to it.
KeepsHistory == late' \/ \A h \in summary.history : h.sealed => h \in summary'.history
HistoryIsKept == [][KeepsHistory]_vars

\* The metrics the report shows are those of the latest success: failed, interrupted
\* and conflicting executions leave them alone.
MetricsAreOfLatestSuccess == late \/ metrics = summary.latest
=============================================================================
