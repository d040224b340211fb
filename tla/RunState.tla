------------------------------ MODULE RunState ------------------------------
(***************************************************************************)
(* The status tables of a test run and of its steps                        *)
(* (backend/app/services/run_state.py).  Every other module that moves a   *)
(* run or a step takes its statuses, and what may follow them, from here.  *)
(* The legacy statuses of the fixed ten-step pipeline are part of the      *)
(* table; the workflow runs the platform creates today use the others.     *)
(***************************************************************************)

TerminalRunStatuses ==
  {"completed", "precheck_failed", "execution_failed", "parse_failed",
   "cancelled", "timed_out"}

PausableRunStatuses ==
  {"resource_queue", "awaiting_wiring", "awaiting_review",
   "awaiting_step_start", "awaiting_step_completion", "awaiting_step_retry"}

RunStatuses ==
  TerminalRunStatuses \cup PausableRunStatuses \cup
  {"draft", "precheck", "capture_validation", "environment_start",
   "order_execution", "collection", "coco_parse", "statistics", "running",
   "paused"}

StepStatuses ==
  {"pending", "running", "waiting", "succeeded", "failed", "cancelled"}

\* Every status but the terminal ones may also time out.
RunTransitions ==
  [s \in RunStatuses |->
     (IF s \in TerminalRunStatuses THEN {} ELSE {"timed_out"}) \cup
     (CASE s = "draft" ->
             {"resource_queue", "precheck_failed", "execution_failed", "cancelled"}
        [] s = "resource_queue" ->
             {"precheck", "awaiting_step_start", "completed", "precheck_failed",
              "execution_failed", "paused", "cancelled"}
        [] s = "precheck" -> {"awaiting_wiring", "precheck_failed", "cancelled"}
        [] s = "awaiting_wiring" ->
             {"capture_validation", "execution_failed", "paused", "cancelled"}
        [] s = "capture_validation" ->
             {"environment_start", "execution_failed", "cancelled"}
        [] s = "environment_start" ->
             {"order_execution", "execution_failed", "cancelled"}
        [] s = "order_execution" -> {"collection", "execution_failed", "cancelled"}
        [] s = "collection" -> {"coco_parse", "execution_failed", "cancelled"}
        [] s = "coco_parse" ->
             {"statistics", "parse_failed", "execution_failed", "cancelled"}
        [] s = "statistics" -> {"awaiting_review", "execution_failed", "cancelled"}
        [] s = "awaiting_review" -> {"completed", "paused", "cancelled"}
        [] s = "awaiting_step_start" ->
             {"awaiting_review", "running", "awaiting_step_completion", "paused",
              "cancelled"}
        [] s = "running" ->
             {"awaiting_step_completion", "awaiting_step_retry", "execution_failed",
              "parse_failed", "cancelled"}
        [] s = "awaiting_step_completion" ->
             {"awaiting_review", "awaiting_step_start", "running",
              "awaiting_step_retry", "completed", "paused", "cancelled"}
        [] s = "awaiting_step_retry" ->
             {"running", "awaiting_step_completion", "paused", "cancelled"}
        [] s = "paused" -> PausableRunStatuses \cup {"cancelled"}
        [] s \in {"precheck_failed", "execution_failed", "parse_failed"} ->
             {"resource_queue"}
        [] OTHER -> {})]

StepTransitions ==
  [s \in StepStatuses |->
     CASE s = "pending" -> {"running", "waiting", "cancelled"}
       [] s = "running" -> {"waiting", "succeeded", "failed", "cancelled"}
       [] s = "waiting" -> {"running", "succeeded", "failed", "cancelled"}
       [] s = "failed" -> {"pending", "running", "waiting", "cancelled"}
       [] OTHER -> {}]

\* _transition: moving to the status one is in is a no-op, an unlisted move raises.
Allowed(table, current, target) ==
  /\ {current, target} \subseteq DOMAIN table
  /\ current = target \/ target \in table[current]
=============================================================================
