---------------------------- MODULE RunLifecycle ----------------------------
(***************************************************************************)
(* One workflow run from draft to its end: the row and its steps, the      *)
(* requests of operators and of the scheduler, the durable tasks that      *)
(* execute steps, and the stops of the one API process.                    *)
(*                                                                         *)
(* Every request and every task execution works on a database session that *)
(* keeps the attributes it loaded (expire_on_commit=False), so each is two *)
(* steps: one that loads and tests its guards, one that writes.  A write   *)
(* of the run row carries "WHERE status_version = <the loaded one>"        *)
(* (version_id_col): it succeeds on a fresh snapshot and rolls the whole   *)
(* transaction back on a stale one.  Locks of other runs are seen only as  *)
(* the outcome of acquire_locks; ResourceLocks models them.                *)
(***************************************************************************)
EXTENDS Naturals, Sequences, FiniteSets, RunState

CONSTANTS
  Nodes,        \* the node kinds of the workflow, in position order
  Clients,      \* slots for requests in flight, the scheduler's sweep included
  Operations,   \* the requests that are made
  MaxAttempts,  \* DurableTask.max_attempts
  MaxVersion,   \* bound: no request is made at or beyond this status_version
  MaxCrashes,   \* bound: abrupt ends of the process
  MaxStops      \* bound: orderly stops of the process

NodeKinds == {"manual", "capture", "wiring_confirmation", "order_preparation",
              "data_statistics", "report_generation"}

RequestKinds ==
  {"start", "start_step", "retry_step", "reanalyze", "complete", "cancel", "expire",
   "pause", "resume", "verdict", "delete"}

ASSUME OperationsAssumption == Operations \subseteq RequestKinds
ASSUME NodesAssumption == Nodes \in Seq(NodeKinds)
ASSUME BoundsAssumption ==
  /\ MaxAttempts \in Nat \ {0}
  /\ MaxVersion \in Nat /\ MaxCrashes \in Nat /\ MaxStops \in Nat

VARIABLES
  row,      \* the run with its steps, as committed
  tasks,    \* durable tasks by idempotency key
  execs,    \* task executions in the process: claimed, at work, or done
  reqs,     \* requests that have loaded the run and not yet written
  up,       \* is the process running
  crashes, stops

vars == <<row, tasks, execs, reqs, up, crashes, stops>>

StepIds == 1..Len(Nodes)
RunKinds == {"start", "resume", "recovery"}
TaskKeys == (RunKinds \X Nat \X {0}) \cup ({"step"} \X Nat \X Nat)

-----------------------------------------------------------------------------
(* The services, as functions from a loaded run to the run they would save. *)

\* Mutant: a move that forgets the version.
MoveTo_KeepsVersion(r, target) == [r EXCEPT !.status = target]

MoveTo(r, target) ==
  IF r.status = target THEN r
  ELSE [r EXCEPT !.status = target, !.version = @ + 1]

SetStep(r, i, target) == [r EXCEPT !.steps[i].status = target]
Release(r) == [r EXCEPT !.locked = FALSE]

\* Mutant: any open step is current, earlier ones are not asked.
IsCurrent_AnyOpen(r, i) == r.steps[i].status # "succeeded"

IsCurrent(r, i) ==
  /\ r.steps[i].status # "succeeded"
  /\ \A j \in 1..(i - 1) : r.steps[j].status = "succeeded"

AllSucceeded(r) == \A i \in StepIds : r.steps[i].status = "succeeded"
Current(r) == CHOOSE i \in StepIds : IsCurrent(r, i)
HasStatistics == \E i \in StepIds : Nodes[i] = "data_statistics"

CanBegin(r, i, runStatus, stepStatus) ==
  r.status = runStatus /\ IsCurrent(r, i) /\ r.steps[i].status = stepStatus

Begin(r, i) ==
  MoveTo([r EXCEPT !.steps[i] = [status |-> "running", begun |-> @.begun + 1]],
         "running")

CanComplete(r, i) == CanBegin(r, i, "awaiting_step_completion", "waiting")

Advance(r) ==
  IF AllSucceeded(r)
  THEN Release(MoveTo(r, IF HasStatistics THEN "awaiting_review" ELSE "completed"))
  ELSE LET i == Current(r)
           q == MoveTo(r, "awaiting_step_start")
       IN CASE Nodes[i] = "report_generation" ->
                 Release(MoveTo(IF r.steps[i].status = "pending"
                                THEN SetStep(r, i, "waiting") ELSE r,
                                "awaiting_review"))
            [] Nodes[i] = "wiring_confirmation" ->
                 MoveTo(SetStep(q, i, "waiting"), "awaiting_step_completion")
            [] Nodes[i] = "capture" -> Begin(q, i)
            [] OTHER -> q

CompleteStep(r, i) == Advance(SetStep(r, i, "succeeded"))

StartWorkflow(r, acquired) ==
  IF ~acquired THEN MoveTo(r, "resource_queue")
  ELSE IF Nodes = << >> THEN Release(MoveTo(r, "completed"))
  ELSE Advance(MoveTo([r EXCEPT !.locked = TRUE], "awaiting_step_start"))

\* Mutant: the step is left running when its handler has returned.
StepDone_KeepsStep(r, i) == MoveTo(r, "awaiting_step_completion")

StepDone(r, i) ==
  LET q == MoveTo(SetStep(r, i, "waiting"), "awaiting_step_completion")
  IN IF Nodes[i] = "capture" THEN CompleteStep(q, i) ELSE q

\* Mutant: a failed step is reset to pending, to be started again.
StepFailed_Resets(r) ==
  MoveTo([r EXCEPT !.steps = [i \in StepIds |->
    IF r.steps[i].status = "running" THEN [r.steps[i] EXCEPT !.status = "pending"]
    ELSE r.steps[i]]], "awaiting_step_start")

\* The failure path looks for the first running step, whichever step was executing.
StepFailed(r) ==
  IF \E i \in StepIds : r.steps[i].status = "running"
  THEN LET i == CHOOSE i \in StepIds : /\ r.steps[i].status = "running"
                                       /\ \A j \in 1..(i - 1) : r.steps[j].status # "running"
       IN MoveTo(SetStep(r, i, "failed"), "awaiting_step_retry")
  ELSE Release(MoveTo(r, "execution_failed"))

CancelSteps(r, from) ==
  [r EXCEPT !.steps = [i \in StepIds |->
     IF r.steps[i].status \in from THEN [r.steps[i] EXCEPT !.status = "cancelled"]
                                   ELSE r.steps[i]]]

Cancel(r) == Release(MoveTo(CancelSteps(r, {"running", "waiting"}), "cancelled"))

\* Mutant: a timeout that leaves the locks to their lease.
Expire_KeepsLocks(r) ==
  MoveTo(CancelSteps(r, {"pending", "running", "waiting", "failed"}), "timed_out")

Expire(r) ==
  Release(MoveTo(CancelSteps(r, {"pending", "running", "waiting", "failed"}),
                 "timed_out"))

Pause(r) == MoveTo([r EXCEPT !.pausedFrom = r.status], "paused")
Resume(r) == MoveTo([r EXCEPT !.pausedFrom = "none"], r.pausedFrom)

\* An order step whose action stayed unresolved is failed and begun again at once.
RetryStep(r, i) ==
  IF r.steps[i].status = "waiting"
  THEN Begin(MoveTo(SetStep(r, i, "failed"), "awaiting_step_retry"), i)
  ELSE Begin(r, i)

SubmitVerdict(r) ==
  Release(MoveTo([r EXCEPT !.steps = [i \in StepIds |->
     IF Nodes[i] = "report_generation" /\ r.steps[i].status = "waiting"
     THEN [r.steps[i] EXCEPT !.status = "succeeded"] ELSE r.steps[i]]], "completed"))

DeletableStatuses ==
  TerminalRunStatuses \cup
  {"draft", "awaiting_wiring", "awaiting_review", "awaiting_step_start",
   "awaiting_step_completion", "awaiting_step_retry", "paused"}

Accepted(op, r, i) ==
  CASE op = "start" -> i = 0 /\ r.status \in {"draft", "resource_queue"}
    [] op = "start_step" -> i # 0 /\ CanBegin(r, i, "awaiting_step_start", "pending")
    [] op = "retry_step" -> 
         /\ i # 0
         /\ \/ CanBegin(r, i, "awaiting_step_retry", "failed")
            \/ Nodes[i] = "order_preparation" /\ CanComplete(r, i)
    [] op = "reanalyze" -> i # 0 /\ Nodes[i] = "data_statistics" /\ CanComplete(r, i)
    [] op = "complete" -> i # 0 /\ CanComplete(r, i)
    [] op \in {"cancel", "expire"} ->
         i = 0 /\ r.status \in RunStatuses \ TerminalRunStatuses
    [] op = "pause" -> i = 0 /\ r.status \in PausableRunStatuses
    [] op = "resume" -> i = 0 /\ r.status = "paused"
    [] op = "verdict" -> i = 0 /\ r.status = "awaiting_review"
    [] op = "delete" -> i = 0 /\ r.status \in DeletableStatuses

-----------------------------------------------------------------------------
(* Durable tasks *)

RunTask(kind, version) == <<kind, version, 0>>
\* Mutant: an idempotency key that forgets the retry count.
StepTask_PerStep(r, i) == <<"step", i, 0>>

StepTask(r, i) == <<"step", i, r.steps[i].begun>>
NewTask == [status |-> "queued", attempts |-> 0]

Enqueued(ts, key, reactivate) ==
  IF key \in DOMAIN ts /\ ~(reactivate /\ ts[key].status \in {"succeeded", "failed"})
  THEN ts
  ELSE [k \in DOMAIN ts \cup {key} |-> IF k = key THEN NewTask ELSE ts[k]]

\* A saved run is running only when the same transaction has begun a step.
WithStepTask(ts, r) ==
  IF r.status = "running" THEN Enqueued(ts, StepTask(r, Current(r)), FALSE) ELSE ts

Executing(key) == \E e \in execs : e.key = key

\* Mutant: attempts are not compared with their maximum.
Claimable_Unlimited(key) ==
  \/ tasks[key].status = "queued"
  \/ tasks[key].status = "running" /\ ~Executing(key)

\* Mutant: an abandoned running task is never taken over.
Claimable_QueuedOnly(key) ==
  tasks[key].attempts < MaxAttempts /\ tasks[key].status = "queued"

\* Mutant: a running task is claimed again while its lease is being renewed.
Claimable_Leased(key) ==
  tasks[key].attempts < MaxAttempts /\ tasks[key].status \in {"queued", "running"}

Claimable(key) ==
  /\ tasks[key].attempts < MaxAttempts
  /\ \/ tasks[key].status = "queued"
     \/ tasks[key].status = "running" /\ ~Executing(key)   \* its lease runs out

-----------------------------------------------------------------------------
Draft == [status |-> "draft", version |-> 0, pausedFrom |-> "none", locked |-> FALSE,
          steps |-> [i \in StepIds |-> [status |-> "pending", begun |-> 0]]]

NoSession == Draft   \* an execution that holds no snapshot

Init ==
  /\ row = Draft
  /\ tasks = [k \in {} |-> NewTask]
  /\ execs = {}
  /\ reqs = {}
  /\ up = TRUE
  /\ crashes = 0
  /\ stops = 0

\* Mutant: an UPDATE without the version in its WHERE.
Fresh_Unversioned(seen) == row.status # "deleted"

Fresh(seen) == row.status # "deleted" /\ row.version = seen.version

\* A request arrives, loads the run and passes its guards.
Receive(c, op, i) ==
  /\ up
  /\ \A q \in reqs : q.client # c
  /\ row.version < MaxVersion
  /\ Accepted(op, row, i)
  /\ reqs' = reqs \cup {[client |-> c, op |-> op, step |-> i, seen |-> row]}
  /\ UNCHANGED <<row, tasks, execs, up, crashes, stops>>

Save(q, r) ==
  /\ Fresh(q.seen)
  /\ row' = r
  /\ tasks' = WithStepTask(tasks, r)
  /\ reqs' = reqs \ {q}
  /\ UNCHANGED <<execs, up, crashes, stops>>

\* A start pressed on a queued run changes no attribute: its run row is not updated.
WritesRun(q) ==
  /\ q.op # "purge"
  /\ q.op = "start" => q.seen.status = "draft"
  /\ q.op = "delete" => q.seen.status \notin TerminalRunStatuses

\* The flush meets another status_version: the transaction is gone.
Conflict(q) ==
  /\ ~Fresh(q.seen)
  /\ WritesRun(q) \/ (q.op = "start" /\ row.status = "deleted")
  /\ reqs' = reqs \ {q}
  /\ UNCHANGED <<row, tasks, execs, up, crashes, stops>>

StartRequested(q) ==
  /\ q.op = "start"
  /\ row.status # "deleted"
  /\ WritesRun(q) => Fresh(q.seen)
  /\ row' = IF WritesRun(q) THEN MoveTo(q.seen, "resource_queue") ELSE row
  /\ tasks' = Enqueued(tasks,
       RunTask("start", MoveTo(q.seen, "resource_queue").version), TRUE)
  /\ reqs' = reqs \ {q}
  /\ UNCHANGED <<execs, up, crashes, stops>>

StepStarted(q) == q.op = "start_step" /\ Save(q, Begin(q.seen, q.step))
StepRetried(q) == q.op = "retry_step" /\ Save(q, RetryStep(q.seen, q.step))
Reanalyzed(q) == q.op = "reanalyze" /\ Save(q, Begin(q.seen, q.step))
StepCompleted(q) == q.op = "complete" /\ Save(q, CompleteStep(q.seen, q.step))
RunCancelled(q) == q.op = "cancel" /\ Save(q, Cancel(q.seen))
RunExpired(q) == q.op = "expire" /\ Save(q, Expire(q.seen))
RunPaused(q) == q.op = "pause" /\ Save(q, Pause(q.seen))
VerdictSubmitted(q) == q.op = "verdict" /\ Save(q, SubmitVerdict(q.seen))

RunResumed(q) ==
  /\ q.op = "resume"
  /\ Fresh(q.seen)
  /\ row' = Resume(q.seen)
  /\ tasks' = IF q.seen.pausedFrom = "resource_queue"
              THEN Enqueued(tasks, RunTask("resume", row'.version), FALSE)
              ELSE tasks
  /\ reqs' = reqs \ {q}
  /\ UNCHANGED <<execs, up, crashes, stops>>

\* delete_run first cancels, in a transaction of its own, a run that has not ended.
DeleteCancels(q) ==
  /\ q.op = "delete"
  /\ q.seen.status \notin TerminalRunStatuses
  /\ Fresh(q.seen)
  /\ row' = Cancel(q.seen)
  /\ reqs' = (reqs \ {q}) \cup {[q EXCEPT !.op = "purge", !.seen = row']}
  /\ UNCHANGED <<tasks, execs, up, crashes, stops>>

\* Bulk DELETEs: the version is not compared.
Purged(q) ==
  /\ q.op \in {"purge", "delete"}
  /\ q.seen.status \in TerminalRunStatuses
  /\ row' = [row EXCEPT !.status = "deleted"]
  /\ tasks' = [k \in {} |-> NewTask]
  /\ reqs' = reqs \ {q}
  /\ UNCHANGED <<execs, up, crashes, stops>>

-----------------------------------------------------------------------------
(* Executions of durable tasks in the process *)

Claim(key) ==
  /\ up
  /\ Claimable(key)
  /\ tasks' = [tasks EXCEPT ![key] = [status |-> "running", attempts |-> @.attempts + 1]]
  /\ execs' = execs \cup {[key |-> key, phase |-> "claimed", seen |-> NoSession]}
  /\ UNCHANGED <<row, reqs, up, crashes, stops>>

Runnable(key) ==
  \/ key[1] \in RunKinds /\ row.status \in {"draft", "resource_queue"}
  \/ key[1] = "step" /\ row.status = "running"

\* start_workflow_run loads the run; what it finds may leave it nothing to do.
Load(e) ==
  /\ e.phase = "claimed"
  /\ execs' = (execs \ {e}) \cup
       {IF Runnable(e.key) THEN [e EXCEPT !.phase = "work", !.seen = row]
                           ELSE [e EXCEPT !.phase = "ok"]}
  /\ UNCHANGED <<row, tasks, reqs, up, crashes, stops>>

\* What an execution writes, or the StaleDataError that ends it.
Finishes(e, r) ==
  /\ row' = IF Fresh(e.seen) THEN r ELSE row
  /\ tasks' = IF Fresh(e.seen) THEN WithStepTask(tasks, r) ELSE tasks
  /\ execs' = (execs \ {e}) \cup
       {[e EXCEPT !.phase = IF Fresh(e.seen) THEN "ok" ELSE "err", !.seen = NoSession]}
  /\ UNCHANGED <<reqs, up, crashes, stops>>

RunStarts(e) ==
  /\ e.phase = "work"
  /\ e.key[1] \in RunKinds
  /\ \E acquired \in BOOLEAN : Finishes(e, StartWorkflow(e.seen, acquired))

\* The handler returned; a step that cannot move to waiting raises into the failure path.
HandlerReturns(e) ==
  /\ e.phase = "work"
  /\ e.key[1] = "step"
  /\ LET i == e.key[2]
     IN Finishes(e, IF Allowed(StepTransitions, e.seen.steps[i].status, "waiting")
                    THEN StepDone(e.seen, i) ELSE StepFailed(e.seen))

HandlerRaises(e) ==
  /\ e.phase = "work"
  /\ e.key[1] = "step"
  /\ Finishes(e, StepFailed(e.seen))

Settled(task, phase) ==
  [task EXCEPT !.status =
     IF phase = "ok" THEN "succeeded"
     ELSE IF task.attempts >= MaxAttempts THEN "failed" ELSE "queued"]

\* execute_claimed_task records the outcome in a transaction of its own.
Settle(e) ==
  /\ e.phase \in {"ok", "err"}
  /\ tasks' = IF e.key \in DOMAIN tasks
              THEN [tasks EXCEPT ![e.key] = Settled(@, e.phase)] ELSE tasks
  /\ execs' = execs \ {e}
  /\ UNCHANGED <<row, reqs, up, crashes, stops>>

-----------------------------------------------------------------------------
(* The process *)

Crash ==
  /\ up
  /\ crashes < MaxCrashes
  /\ up' = FALSE
  /\ crashes' = crashes + 1
  /\ execs' = {}
  /\ reqs' = {}
  /\ UNCHANGED <<row, tasks, stops>>

\* An orderly stop lets requests end and cancels the executions.  start_workflow_run
\* swallows the CancelledError of a handler, so that its task ends as succeeded.
Stop ==
  /\ up
  /\ stops < MaxStops
  /\ reqs = {}
  /\ \A e \in execs : e.phase = "work" => e.key[1] = "step"
  /\ up' = FALSE
  /\ stops' = stops + 1
  /\ tasks' = [k \in DOMAIN tasks |->
       IF \E e \in execs : e.key = k /\ e.phase # "claimed"
       THEN Settled(tasks[k], IF \E e \in execs : e.key = k /\ e.phase = "err"
                              THEN "err" ELSE "ok")
       ELSE tasks[k]]
  /\ execs' = {}
  /\ UNCHANGED <<row, reqs, crashes>>

\* recover_abandoned_tasks: a queued run without an active start task gets one.
Restart ==
  /\ ~up
  /\ up' = TRUE
  /\ tasks' = IF /\ row.status = "resource_queue"
                 /\ \A k \in DOMAIN tasks :
                      k[1] \in RunKinds => tasks[k].status \notin {"queued", "running"}
              THEN Enqueued(tasks, RunTask("recovery", row.version), FALSE)
              ELSE tasks
  /\ UNCHANGED <<row, execs, reqs, crashes, stops>>

-----------------------------------------------------------------------------
Arrival == \E c \in Clients, op \in Operations, i \in 0..Len(Nodes) : Receive(c, op, i)

Answer ==
  \E q \in reqs :
    \/ Conflict(q)
    \/ StartRequested(q)
    \/ StepStarted(q)
    \/ StepRetried(q)
    \/ Reanalyzed(q)
    \/ StepCompleted(q)
    \/ RunCancelled(q)
    \/ RunExpired(q)
    \/ RunPaused(q)
    \/ RunResumed(q)
    \/ VerdictSubmitted(q)
    \/ DeleteCancels(q)
    \/ Purged(q)

Execution ==
  \/ \E key \in DOMAIN tasks : Claim(key)
  \/ \E e \in execs :
       \/ Load(e)
       \/ RunStarts(e)
       \/ HandlerReturns(e)
       \/ HandlerRaises(e)
       \/ Settle(e)

Next == Arrival \/ Answer \/ Execution \/ Crash \/ Stop \/ Restart

Spec == Init /\ [][Next]_vars

\* The scheduler polls every five seconds and is restarted by its supervisor; a
\* handler ends, since every remote call it makes carries a timeout; a request ends.
Fairness ==
  /\ WF_vars(Answer)
  /\ WF_vars(\E key \in DOMAIN tasks : Claim(key))
  /\ WF_vars(\E e \in execs : Load(e))
  /\ WF_vars(\E e \in execs : RunStarts(e))
  /\ WF_vars(\E e \in execs : HandlerReturns(e) \/ HandlerRaises(e))
  /\ WF_vars(\E e \in execs : Settle(e))
  /\ WF_vars(Restart)

FairSpec == Spec /\ Fairness

-----------------------------------------------------------------------------
(* Properties *)

Rows ==
  [status : RunStatuses \cup {"deleted"}, version : Nat,
   pausedFrom : PausableRunStatuses \cup {"none"}, locked : BOOLEAN,
   steps : [StepIds -> [status : StepStatuses, begun : Nat]]]

TypeOK ==
  /\ row \in Rows
  /\ DOMAIN tasks \subseteq TaskKeys
  /\ tasks \in [DOMAIN tasks ->
       [status : {"queued", "running", "succeeded", "failed"}, attempts : 0..MaxAttempts]]
  /\ execs \subseteq [key : TaskKeys, phase : {"claimed", "work", "ok", "err"}, seen : Rows]
  /\ reqs \subseteq [client : Clients, op : Operations \cup {"purge"},
                     step : 0..Len(Nodes), seen : Rows]
  /\ up \in BOOLEAN
  /\ crashes \in 0..MaxCrashes
  /\ stops \in 0..MaxStops

\* A snapshot that still carries the run's version is the run: no writer changes the
\* run or its steps without moving status_version, so the version check alone protects
\* every write (the step rows, the locks, the tasks) that is computed from a snapshot.
VersionFencesSnapshots ==
  \A s \in reqs \cup execs :
    /\ s.seen.version <= row.version
    /\ Fresh(s.seen) => s.seen = row

\* A step that was touched is preceded by succeeded steps only: no interleaving of
\* completions, retries, stale executions and stops skips a step or runs two at once.
StepsInOrder ==
  \A j \in StepIds :
    row.steps[j].status \in {"running", "waiting", "failed", "succeeded"} =>
      \A i \in 1..(j - 1) : row.steps[i].status = "succeeded"

Effective(r) == IF r.status = "paused" THEN r.pausedFrom ELSE r.status

ExpectedStep ==
  [awaiting_step_start |-> "pending", running |-> "running",
   awaiting_step_completion |-> "waiting", awaiting_step_retry |-> "failed"]

\* The run status, or the one it was paused from, and the status of its current step
\* agree; so the guards of begin and complete, which test both, never block each other.
StatusMatchesStep ==
  Effective(row) \in DOMAIN ExpectedStep =>
    \E i \in StepIds :
      IsCurrent(row, i) /\ row.steps[i].status = ExpectedStep[Effective(row)]

\* A run holds its resources exactly from its start to its review or its end, paused or
\* not: no path leaves a finished run with locks, none leaves an active run without.
LocksFollowStatus == row.locked <=> Effective(row) \in DOMAIN ExpectedStep

StepTaskOf(r) == StepTask(r, Current(r))

\* The task that will move a running run exists and can still be executed.
RunningIsCarried ==
  row.status = "running" =>
    /\ StepTaskOf(row) \in DOMAIN tasks
    /\ Executing(StepTaskOf(row)) \/ Claimable(StepTaskOf(row))

\* Crashes alone do not strand a running run while its task has attempts left.
RunningIsCarriedThroughCrashes ==
  stops = 0 /\ crashes < MaxAttempts => RunningIsCarried

Handlers == {e \in execs : e.phase = "work" /\ e.key[1] = "step"}

\* One handler works at a time, on the current step as it was last begun.  A crash between
\* the save of a run and the settling of its task is the exception: the task is replayed.
OneHandlerAtATime ==
  crashes = 0 =>
    /\ \A e \in Handlers :
         /\ IsCurrent(e.seen, e.key[2])
         /\ e.key = StepTask(e.seen, e.key[2])
    /\ Cardinality(Handlers) <= 1

\* b can be reached from a in n moves of the table.
Reach(table, a, b, n) ==
  \E path \in [0..n -> DOMAIN table] :
    /\ path[0] = a /\ path[n] = b
    /\ \A k \in 1..n : path[k] \in table[path[k - 1]]

\* The guards of the requests and executions ask only for moves the tables allow:
\* no transaction fails half way because its second or third transition is refused.
OnlyLegalMoves ==
  [][row'.status # "deleted" =>
       /\ Reach(RunTransitions, row.status, row'.status, row'.version - row.version)
       /\ \A i \in StepIds : \E n \in 0..2 :
            Reach(StepTransitions, row.steps[i].status, row'.steps[i].status, n)]_row

\* A run that ended stays as it ended, whatever was still executing or in flight.
EndIsFinal ==
  [][row.status \in TerminalRunStatuses =>
       row'.status = "deleted" /\ row'.steps = row.steps]_row

\* A begun step is eventually waiting, failed or cancelled.
RunningSettles == row.status = "running" ~> row.status # "running"
=============================================================================
