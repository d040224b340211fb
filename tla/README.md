# A TLA+ model of OpenSLT

OpenSLT is a platform for latency tests: operators assemble test plans and workflows, start
runs that occupy remote machines (REM, market, order, SLNIC and parser hosts), follow each
step in the browser, and review the statistics. One API process (FastAPI on uvicorn, one event
loop) keeps all state in a relational database, SQLite by default, and executes the steps of
runs as durable tasks inside the same process.

The paths below are relative to `src/backend/app/` unless they begin with another directory.

## 1. Inventory

| Component | State it keeps | Operations | Interacts with |
|---|---|---|---|
| Status tables (`services/run_state.py`) | two transition tables | `transition_run`, `transition_step` | everything that moves a run |
| Run lifecycle (`services/orchestration.py`, `api/routes/runs.py`) | `t_test_runs` with `status`, `status_version`, `paused_from`; `t_run_steps` | start, start/retry/complete/re-analyse a step, cancel, expire, pause, resume, verdict, delete, handler outcome | durable tasks, locks, handlers, events |
| Durable tasks (`services/durable_tasks.py`, scheduler in `main.py`) | `t_durable_tasks`: status, attempts, lease, owner | enqueue, claim, execute, heartbeat, settle, recover | run lifecycle, knowledge, SVN, smart cases |
| Resource locks (`acquire_locks` ... in `orchestration.py`) | `t_resource_locks` with leases | acquire, release, renew, reclaim | run lifecycle, heartbeat, scheduler |
| Order actions (`runs.py`, `services/order_sessions.py`) | `result_summary` of the order step, a tmux session on the order host | dispatch, confirm, complete, retry, cancel, cleanup, relaunch | run lifecycle, remote host |
| Terminals (`services/terminal.py`) | one SSH process and a parser lease per socket | dispatch a node's command, parser actions, disconnect | run lifecycle, remote hosts |
| Parser files (`services/workflows.py`, two routes of `runs.py`) | csv files under the artifact root, artifact rows, `parser_input_exports` in the step | export a table, prepare the step, collect outputs | terminals, trading database, parser host |
| Node commands (`services/rem_execution.py`, `market_execution.py`, `market_scripts.py`, `slnic_merge.py`) | a remote shell, the step's results, a collected packet capture | run the commands, verify scripts, archive, collect | run lifecycle, remote hosts |
| Captures and wiring (`services/workflow_capture.py`, `wiring_profiles.py`) | snapshots of hosts and databases, interfaces in the wiring step | capture, preview, edit, confirm | run lifecycle, remote hosts |
| Statistics (`services/statistics_execution.py`) | analysis history, active analysis, configuration revision, sealed artifacts | reserve, execute, seal, finish, edit configuration, completion check | run lifecycle, parser host, files |
| Workflow versions (`services/workflow_core.py`, `workflow_publishing.py`) | drafts, heads, published version | edit, validate, publish, copy | remote order files, run creation |
| Chat (`services/chat.py`) | running generations in memory, messages | ask, stream, cancel, time out, recover | knowledge, language model |
| Knowledge and SVN (`services/knowledge_bases.py`, `svn_knowledge.py`) | base and source status, uploads, a published index file | enqueue, index, cancel, publish, sync | durable tasks (worker thread), files |
| Smart cases (`services/smart_case_generation.py`) | generation row, workbook | generate, revise | durable tasks, knowledge index |
| Reports (`services/reports.py`, `run_comparisons.py`) | versioned directories, artifact rows, one comparison per run | render, verdict, regenerate, compare | run lifecycle, statistics |
| Database updates (`api/routes/database_updates.py`, `adapters/database.py`) | confirmations valid for five minutes | preview, execute | target databases |
| Run events (`services/events.py`, `api/routes/websockets.py`) | a bounded queue per subscriber | subscribe, publish, drop oldest | run lifecycle, browser |
| Observability (`core/observability.py`) | queue, writer thread, pending file | emit, flush, replay, stop | every request |
| Plans, resources, configurations, users, models | rows and remote files | create, read, update, delete | run creation |

How they interact: a request loads the run, tests its guards, may await a remote host, changes
rows and commits; where it began a step it also enqueues a task, in the same transaction, and
schedules it. The scheduler claims due tasks every five seconds; an execution loads the run in
a session of its own, awaits the step's handler and saves the outcome, then settles the task in
a third transaction. A heartbeat renews the task's lease and the run's locks meanwhile.

What is hard here:

* **Interleaving at awaits.** Everything runs on one event loop, so code between two awaits is
  atomic in the process, and everything read before an await may be stale after it. Sessions
  keep the attributes they loaded (`expire_on_commit=False`). Only the UPDATE of the run row is
  guarded (`version_id_col = status_version`, with the version moved by `transition_run` only).
* **Crash and orderly stop.** The process may end between the save of a run and the settling of
  its task, or while a handler works; an orderly stop cancels handlers instead.
* **Leases.** A lock's lease is renewed only while a task executes; a run may wait for an
  operator for days.
* **Rows without a version.** A step row, a workflow version, a comparison have none: what is
  computed from one before an await or in a worker thread is written whatever has become of it.
* **Files and rows.** Csv files, sealed analyses, workbooks, reports and the index are renamed
  into place before the transaction that describes them commits.
* **SQLite.** `SELECT ... FOR UPDATE` locks nothing, two SELECTs are no snapshot, and a session
  that has flushed and awaits keeps the only write lock; another writer gives up after five
  seconds.
* **Worker threads.** Index and test case tasks run in threads that a cancellation or a lapsed
  lease does not stop; plain `def` routes run in threads too.
* **Partial failure.** A remote command may have taken effect although its answer was lost.

The properties that make each modelled component correct are listed in section 4; the hazards
they are aimed at, and those no property covers yet, are in `PROJECT.json`, each at its line.

## 2. Modules

| Module | Models | Uses |
|---|---|---|
| `RunState` | the status tables | |
| `RunLifecycle` | one run, its requests, tasks, executions and the process | `RunState` |
| `MCRunLifecycle` | workflows and request sets for TLC | `RunLifecycle` |
| `RunLifecycle_proofs` | theorems: types, version fence, final ends | `RunLifecycle` |
| `RunLifecycleOrder_proofs` | theorems: order of steps, statuses, locks, tasks, legal moves | `RunLifecycle_proofs` |
| `ExclusiveUse` | the abstract promise of resource locking | |
| `ResourceLocks` | several runs, leases and a clock | instance of `ExclusiveUse` |
| `MCResourceLocks` | three runs over two resources | `ResourceLocks` |
| `ExclusiveUse_proofs`, `ResourceLocks_proofs` | theorems about the locks | |
| `OrderActions` | the order step and its requests at their awaits | |
| `OrderActions_proofs` | theorems about the order step | `OrderActions` |
| `TerminalDispatch` | the dispatch of one step through terminals | |
| `TerminalDispatch_proofs` | theorems about the dispatch | `TerminalDispatch` |
| `ParserFiles` | inputs and outputs of a parser step, on disk and in rows | |
| `StatisticsAnalysis` | configuration, analyses and completion of a statistics step | |
| `NodeCommands` | commands of REM, market, SLNIC and merge nodes on their hosts | |
| `Captures` | captures, previews and the wiring step they fill | |
| `MCExecution` | `TerminalDispatch` to `Captures` side by side, with values for TLC | `TerminalDispatch`, instances of the others |
| `Execution_proofs` | theorems about the other four of its parts, and the types of all | `MCExecution`, `TerminalDispatch_proofs` |
| `LogWriter` | the observability writer, its thread and its files | |
| `KnowledgeIndex` | the index of one knowledge base and its task | |
| `WorkflowVersions` | drafts, heads and publication of one scenario's workflow | |
| `ChatGenerations` | the assistant's answers | |
| `SmartCases` | one generation of test cases over a republished index | |
| `Reports` | reports, verdicts and the comparison of one run | |
| `DatabaseUpdates` | the confirmed UPDATE on a database resource | |
| `MCServices` | `LogWriter` to `DatabaseUpdates` side by side, with values for TLC | `LogWriter`, instances of the others |
| `Services_proofs` | theorems about all seven | `MCServices` |

### RunLifecycle

`row` is the run with its steps as committed: `status`, `version` (`status_version`),
`pausedFrom`, `locked` (does it hold unreleased lock rows), and per step its status and how
often it was begun. `begun` stands for what makes the task's idempotency key new:
`retry_count`, or the analysis number of a statistics step (`_workflow_step_task_key`).

A **request** is two steps. `Receive` loads the run and tests the guards of the route and of
the service; the record in `reqs` keeps the loaded run as `seen`. The second step writes:
`Save` computes the new run from `seen`, as the code computes it from the attributes of its
session, and succeeds when `Fresh(seen)`; otherwise `Conflict` ends the request, for the flush
raised `StaleDataError` and the transaction is gone. A start pressed on a run that is already
queued changes no attribute of the run, so its row is not updated and not compared
(`WritesRun`); deletion is a bulk DELETE without a version (`Purged`).

The **services** are functions from a loaded run to the run they would save, named as in the
code: `Begin` is `begin_workflow_step`, `CompleteStep` `complete_workflow_step`, `Advance`
`advance_workflow`, `StartWorkflow` the branch without a step of `start_workflow_run`,
`StepDone` and `StepFailed` the two ends of its branch with a step, `Cancel`, `Expire`,
`Pause`, `Resume`, `SubmitVerdict` the others. A saved run that is running has begun a step in
the same transaction, so `WithStepTask` enqueues its task.

An **execution** of a task is claimed (`Claim`), loads the run (`Load`: a run that is not
running, or not queued, leaves it nothing to do), ends its work (`RunStarts`, `HandlerReturns`,
`HandlerRaises`) and is settled (`Settle`) in a transaction of its own. Between those steps
anything else may happen. A stale write inside the `try` makes the failure path fail as well
(the session has to be rolled back first), so the task ends with an error and is queued again
or failed.

The **process**: `Crash` forgets requests and executions; `Stop` is the orderly end, in which
the executions are cancelled and `start_workflow_run` swallows the cancellation; `Restart` is
`recover_abandoned_tasks`.

Node kinds are what the lifecycle tells apart: `capture` for the two automatic capture nodes,
`wiring_confirmation`, `order_preparation`, `data_statistics`, `report_generation`, and `manual`
for all others. The order action's own guards are in `OrderActions`; locks of other runs are the
outcome of `acquire_locks` (`\E acquired \in BOOLEAN`), in `ResourceLocks` the other way round.

### ResourceLocks

`lease[r][x]` is the end of the lease of the unreleased lock row of run `r` on resource `x`, 0
when there is none. A run is reduced to what the locks see. `TryStart` is the start task with
`acquire_locks`: rows of others count only while their lease has not run out, and a row of its
own is kept with its old lease. `Heartbeat` may still come after the run has ended, since the
task's execution is not stopped by a cancellation. `Reclaim` is the scheduler's sweep.
`recovered` remembers that the recovery key of a queued run, one per version, has been used.
`lapsed` is a history variable: the active runs one of whose leases has run out.

### OrderActions

`summary` is the step's `result_summary`, reduced to the action's status, the session's status
and the history of actions. Each request that awaits the remote host is a record in `sessions`
with the version and the summary it loaded. `SendEnds` saves the loaded summary with its own
entry changed, whatever was saved meanwhile, because the session never reloads it; `Ends` is the
transaction that also moves the run and is therefore compared. The model starts at the step's
first launch. Code of an async route between two awaits is one step, since one event loop runs
it; a confirmation is a plain function that FastAPI runs in a thread, so its load and its save
are two (`AskConfirm`, `Confirm`). A cancellation with no session to close awaits nothing
(`CancelNow`). `ConfirmStep` is the confirmation of the whole step, which completes it
as it is and leaves its session open. `SELECT ... FOR UPDATE` is not modelled as a lock: SQLite has none, and with
MySQL it is given up at the commit before the send. `remote`, `crowded` and `overridden` are
history variables: actions still being sent, actions dispatched while another request held a
snapshot, and whether an operator confirmed or retried one that was still being sent.

### TerminalDispatch

A terminal slot holds one session after another; `at` is its place in `_receive_remote`. A
dispatch validates the run (`Validated`), then works the command out as its kind of step asks:
`DispatchShell` without an await, `Check` ... `CheckPasses` for market and merge steps over
SFTP, `Prepare` ... `PrepareReturns` for a parser step, whose flushed change holds the database's
write lock (`writer`). The commit compares the run's version (`MaySave` looks at `fresh`, the
sessions whose loaded row is still the committed one) and only then the command is typed. What a
dispatch has loaded (`retrying`, `fresh`) is its own, and is forgotten when it ends.
`FailWaiting` and `Disconnect` are the two writers that fail a waiting step afterwards; `OwnsStep`
is the lease and status test of the second. Web requests begin a step without a terminal
(`WebBegin`: start and retry, which refuse parser steps only), pause, resume, cancel, complete and
confirm (`Confirm`, which looks at the step's status only). A step begun that way has a `task`:
`TaskLoads` and `TaskEnds` are its execution, which runs the step's commands itself, saves like any
other session, and is repeated after a crash or a refused save; `ran` keeps the attempts it ran.
`HoldElsewhere` is a handler of another run that has flushed and awaits, so that a write is
refused after the driver's five seconds. A dispatch awaits nothing from its commit to its write to
the shell, so nothing else of the event loop runs meanwhile (`LoopIsFree`); only the pause, a plain
function in a thread of its own, and a crash come between. `typed`, `driver`, `completed`,
`excused` and `refused` (has a shell refused its input) are history variables.

### ParserFiles

A file is its revision and a checksum the revision it was taken of. `Export...` is the route
that exports one table, `Prep...` the preparation of a terminal dispatch, which reuses a file
whose checksum is its row's (`Valid`), uploads and records what it uploaded; `Collect...` is the
completion, which downloads, replaces and registers. Rows flushed by a preparation are in `prep`
until its commit. A rolled back transaction leaves its files. `Confirm` is the route that completes
a waiting step as it is and collects nothing; it moves the run, so that a completion under way is
refused (`Stale`), as it is after a pause and a resume (`RunChanges`).

### StatisticsAnalysis

The step's two columns are `summary` and `limit`. `SaveBegins` (inputs and limit) and
`SelectBegins` (inputs under the limit that was loaded) are the await on the remote listing,
`SaveEnds` and `Analyze` what follows it, computed from `seen`; `fresh` says whether the run's
row is still the one loaded, which only `Analyze` has the database compare. `Load`, `ExecEnds`,
`ExecUnsaved` and `ExecConflicts` are the execution and its ends: `Seal` links the outcome's file
once, `Agrees` decides about a file that is there already. `late` remembers a save that was
computed from a step changed since.

### NodeCommands

One step of one of four kinds. `shells[i]` is what execution `i` did on the host; it goes on when
the connection is lost, the process crashes or the lease lapses and the task is claimed again.
`ShellRuns` takes the next command, which succeeds, fails or leaves the shell. REM tells each
command's result by markers (`ExitCode`); SLNIC believes the shell's status (`Succeeds`); market
scripts are read, compared with the published revision and started one by one. For merges
`ArchivePrevious` puts the earlier packet capture away and `Download`, `ReplaceFile`, `Register`
collect the new one.

### Captures

A server capture goes through `Targets`, a database capture has one. Each target's snapshot is
counted and committed as running (`Open`), read, and finished (`Done`). The count of the attempts
and the insert are one step, for nothing is awaited between them (`workflow_capture.py:91-106`), so
the attempts of a scope and host are numbered once even when two captures overlap. `Found` is the handler's
choice of the REM snapshot among its own, and `CaptureSucceeds` writes its interfaces into the
wiring step; `EditSaves` writes them without touching the run, `ConfirmBegins` and `ConfirmEnds`
are the completion around its await. An execution may also end early: `CaptureRaises` is a target
without its resource, or a database its settings do not allow, after which the step fails naming the
snapshots it named before and the ones this execution made are named by nobody; `SaveRefused` is a
commit the database refuses, after which the same session cannot record the failure either
(`orchestration.py:350-353`), so that the step stays running until its task is tried again.

### Services

`LogWriter`: `Emit` and `Put` are the two halves of `emit`, between which the writer may stop;
`Take`, `Item`, `AfterBatch`, `Persist` and `Replay...` are the thread. `KnowledgeIndex`: a
thread is a record of what it read, at one of the places where it may be interrupted; `Lapse`
lets the lease run out in a live process. `WorkflowVersions`: a version's content is valid or not
(`Sound`) and pins a checksum per order file, the resources its nodes name are enabled or not
(`Usable`, `SwitchResource`); `ReadFile`, `CheckFile` and `ReplaceFile` are the awaits of a
publication, `SaveLoads` and `SaveCommits` a save in its thread. Every other request is a thread
that loads the rows and tests them (`EnsureDraft`, `Pause`, `CreateVersion`, `Archive`, `Reenable`,
each a use of `Loads`) and commits what it wants of them later (`Commits`), beside any other: no row
has a version, a value equal to the one loaded is not written (`Written`), and only the unique
constraint on scenario, number and generation refuses a commit (`Taken`). `overtaken` remembers that
such a request was committed on rows that had changed since it loaded them. `ChatGenerations`: one done
callback is one step, since the loop runs it. `SmartCases`: the two tests of the index's
publication and the reads between; `Offered` is the download's test. `Reports`: a request loads in two SELECTs, flushes (and holds
the write lock), stages, renames and commits; `ComparisonRows`, `Assessment` and `Compatible`
translate the comparison of two runs' metrics. `DatabaseUpdates`: the claim, the update under
lock and the record are three transactions of two databases.

### MCExecution and MCServices

A behaviour of either is a behaviour of one of its modules, chosen by `part` in the first state;
the variables of the others stay as they begin. The modules share no state but the database
rows that `RunLifecycle` is about, so a product of their states would only repeat each of them.
`TypesOK` is the type invariant of the module at work. Statistics and parser files meet the run
only through its status, and each module carries the part of it that it tests.

## 3. Runs, bounds and fairness

| Run | Expect | What it shows |
|---|---|---|
| `lifecycle_steps` | pass | order, statistics and report step, one request at a time beside the executions, one crash, two attempts: `TypeOK`, `VersionFencesSnapshots`, `StepsInOrder`, `StatusMatchesStep`, `OneHandlerAtATime`, `RunningIsCarriedThroughCrashes`, `OnlyLegalMoves`, `RunningSettles` |
| `lifecycle_interrupts` | pass | wiring and automatic capture step, two requests in flight that complete, pause, resume, expire and delete, one orderly stop: `LocksFollowStatus`, `EndIsFinal` |
| `resource_locks` | pass | three runs, two resources, one run needs both: `TypeOK`, `AllOrNothing`, `SharedOnlyAfterLapse`, and `ImplementsExclusiveUse`, the refinement of `ExclusiveUse` |
| `order_actions` | pass | two sends over a history of one, a retry, a crash: `TypeOK`, `ActionsRemembered`, `OneActionAtATime`, `EndedStepStays` |
| `execution` | pass | two terminals over all four kinds of dispatch; one table, one exporter and two completions; two configurations and requests; two commands executed twice; two hosts or a database with three snapshots, a preview, an edit and one fault: `TypesOK`, `OneCommandPerAttempt`, `WaitingStepIsDriven`, `DisconnectFailsItsOwn`, `ParserFilesAsRecorded`, `CompletionIsFresh`, `HistoryMatchesFiles`, `MetricsAreOfLatestSuccess`, `HistoryIsKept`, `CommandsAsRecorded`, `CapturesAsShown` |
| `services` | pass | a queue of two and three events; two documents and two index tasks; two version rows, one order file and two requests; three conversations of two users; three publications of the index; two report requests; two confirmations clicked twice: `TypesOK`, `NothingIsLost`, `SucceededIsCurrent`, `DeletionIsComplete`, `EnabledWasValidated`, `AnswersAreCarried`, `DownloadIsSound`, `NewestShowsVerdict`, `VersionsAreNotReused`, `FreshComparisonIsTrue`, `UpdatesAsConfirmed` |
| `statistics_stale` | violation | `CompletedAsSaved` |
| `workflow_reenable` | violation | `ReenableValidates` |
| `lifecycle_stop` | violation | `RunningIsCarried` |
| `locks_shared` | violation | `NoDoubleUse` |
| `locks_queue` | violation | `QueueMoves` |
| `order_unresolved` | violation | `NoCompletionDuringSend` |

Bounds. `MaxVersion` stops new requests at a status version. Nine versions suffice to queue and
start the run, begin, fail, retry, re-analyse and complete a step and be interrupted at any
point; the interrupting run needs four, and its workflow moves by itself. `MaxAttempts` is 2
instead of 3: the second attempt is the last, so both outcomes of an error occur, and one crash
leaves one attempt. One or two client slots hold any two requests against each other; clients
are symmetric. The lease is two ticks and time five, so a lease can be taken, renewed, lapse and
be taken again by another run. The history of order actions holds one and two are sent, so that
it is cut; one retry repeats a failed launch or replaces an uncertain action.

In `execution` (its `Parts` may be cut to one machine to explore that alone) two of everything that can race are enough for any two to meet, and one retry
(`MaxExecs`, `MaxNo` of two) for what an earlier attempt left behind to be met by the next. A
terminal dispatch has two retries (`MaxTries`), hence three attempts: a shell that refuses its input
fails an attempt and leaves the session its lease, which can fail the second attempt although it is
another terminal's, and only the third shows what that leaves behind. Two tables would only repeat the export of one; two commands are enough for one to be
skipped; the second of two interface revisions is the one that tells client from market. Three
snapshots (`MaxSnaps`) let a capture of two hosts meet a preview, a second execution or what an
error or a crash left of the first, and a database be captured three times, hence retried after a
failure; `CapturesShown` is proved for any number. In
`services` a queue and a batch of two hold three events back; `MaxFaults` and `MaxStalls` allow a
fault after a fault for the log and one for the others; publication, verdict and analysis
counters of two or three let something change once while a request holds what was before. Every
bound is a guard, but for one constraint: `NoOverlap` ends the exploration of the index at the
first overlap of two worker threads (possible after a lapsed lease only), where its properties
promise nothing any more. `Symmetry` permutes
requests and configurations. As a behaviour is of one part, the same two model values stand for
the terminals, completions and requests of `execution`, and for the documents, savers,
conversations of one user, confirmations, clicks, requests and two of the events of `services`, so
that one exchange is a symmetry of every part and TLC need not try one for each. No liveness
property is checked with it. A save of the statistics page may set any of `Limits`; one value and
"unset" tell a changed limit from an unchanged one.

Fairness. `FairSpec` of `RunLifecycle` asks that a request ends, a due task is claimed (the
scheduler polls), an execution goes on (each remote call carries a timeout), a task is settled
and the process is restarted by its supervisor; no operator has to act, and neither outcome of
a handler is preferred. `FairSpec` of `ResourceLocks` asks for start tasks, the reclaim and the
restart. `RunningSettles` is checked with one crash and two attempts: with as many crashes as
attempts it is false, since a task whose last attempt crashed is never claimed again.

## 4. Properties

* `VersionFencesSnapshots`: a snapshot that still carries the row's version equals the row. It is
  the reason why a single compare protects the step rows, the locks and the tasks that are
  written with the run.
* `StepsInOrder`, `StatusMatchesStep`: no interleaving skips a step, runs two at once, or leaves
  the run's status and its current step's status in disagreement, which would block both.
* `OneHandlerAtATime`: one handler works at a time, on the current step as last begun. Its
  premise `crashes = 0` is needed: after a crash between the save of a run and the settling of
  its task, the task is replayed while a later step may be running (`Runnable` tests the run
  only), so two handlers can work at once and the stale one may fail the running step.
* `RunningIsCarriedThroughCrashes`, `RunningSettles`: a begun step keeps a task that can be
  executed, and ends.
* `OnlyLegalMoves`: what a transaction does to the run and to each step is a path in the tables
  as long as the version moved, so that no transaction fails at its second transition.
* `LocksFollowStatus`, `EndIsFinal`: locks are held from the start to the review or end, paused
  or not; an ended run stays.
* `AllOrNothing`, `SharedOnlyAfterLapse`, `ImplementsExclusiveUse`: the locks' promise holds for
  every run whose leases never lapsed, and what lapses is the only exception.
* `ActionsRemembered`: an action is lost from the history only if it was dispatched while
  another request held a snapshot of the step. `OneActionAtATime`: two actions are being sent at
  once only after an operator overrode one. `EndedStepStays`: late answers never reopen a step.

* `OneCommandPerAttempt`: however two terminals' checks and preparations interleave, each attempt's
  command is typed once, and never if a web request had the step's task run it; a completed step
  carries the outputs of its last attempt. The
  run's version is what protects it: without the comparison at the commit both type.
* `WaitingStepIsDriven`, `DisconnectFailsItsOwn`: a waiting step has its command typed, or run by
  its task after a web request, and, for a parser, which web requests refuse to begin, a terminal that can act on it; a session that ends fails the attempt of another only
  after some shell has refused its input, which fails an attempt and takes no lease back. The
  excuses are real: a disconnect whose write is
  refused, or that comes while the run is paused, leaves a step that waits for a terminal that is
  gone, until an operator retries it (`terminal.py:991-1023`).
* `ParserFilesAsRecorded`: what the parser was given and what was collected is what the rows say.
  Excused are an export that overlaps a preparation (it saves the step it loaded, and erases what
  the preparation recorded), a completion that lost its race, crashes between file and row, and a
  step that was confirmed instead of completed: the confirmation collects nothing
  (`runs.py:747-754`), so such a step succeeds with the outputs of an earlier attempt or with none.
* `CompletionIsFresh`, `HistoryMatchesFiles`, `MetricsAreOfLatestSuccess`, `HistoryIsKept`: a
  completed step has an analysis of its configuration, the history says what the sealed files
  say and only grows, and the metrics are those of the latest success, unless a save outlived the
  step it was computed from.
* `CommandsAsRecorded`: a step recorded as having run its commands ran them all, once, in the
  execution it names; market scripts ran as verified; a merge's packet capture is of its own
  attempt. Excused are an SLNIC command that leaves its shell with status zero, a script changed
  after its verification and shells that outlive their handler.
* `CapturesAsShown`: a capture step names finished snapshots of one execution, one per target,
  never those of a preview or of a second execution; one that succeeded names some and none of them
  failed; one that failed names one that did, or, where an error ended an execution before it had
  read every target, what it named before, which may be nothing. Each attempt has a number of its
  own, whatever overlaps; a snapshot stays running only after a crash or a refused commit; the
  wiring shows what was captured or what an operator wrote, and stays as confirmed unless an edit
  crossed the confirmation.
* `NothingIsLost`: an event that was accepted is in memory, in a file, or in the emergency file.
  What is put behind the stop marker is lost (`late`); so is what a fault destroys.
* `SucceededIsCurrent`, `DeletionIsComplete`: a base shown as succeeded publishes its settings,
  sources and documents; a deleted document is not searchable. A document uploaded while a task
  runs is the exception (`missed`), and two overlapping threads void both.
* `EnabledWasValidated`: the version a scenario is enabled with passed validation, whatever
  overlapped, but for a save that overlaps the publication of the same draft (`raced`); and there
  is such a version, marked published, unless a request was committed on rows that had changed since
  it loaded them (`overtaken`). The second exception is real: an archive, a pause or a new version
  that overlaps a publication, an enabling or another of its kind can leave an enabled scenario
  whose version is archived, although `workflows.py:101-102` refuses to archive it, or retired.
* `AnswersAreCarried`: a message says running only while a job will store its outcome.
* `DownloadIsSound`: what is offered is the workbook whose checksum was stored, made from one
  publication of the index.
* `NewestShowsVerdict`, `VersionsAreNotReused`, `FreshComparisonIsTrue`: the newest report shows
  the verdict in force, recorded reports keep their files, and a comparison not shown as outdated
  judges the run's own metrics. A report loading while a verdict is stored may come out last with
  the verdict before (`raced`).
* `UpdatesAsConfirmed`: a confirmation changes its target at most once and in as many rows as
  its preview counted.

The six violated properties state what the documentation or the code's own messages say; the
findings in `PROJECT.json` quote them. In short: an orderly stop strands a running run
(`orchestration.py:348`); a run that waits longer than its lease shares its resources
(`orchestration.py:135`); a queued run is not started when its resources become free
(`orchestration.py:657`); an order step can be completed while an action is being sent
(`runs.py:1242`); a statistics configuration saved from a stale step lets the step be completed
without an analysis of the limit it shows (`statistics_execution.py:299`); a workflow is enabled
again without validation (`api/routes/workflows.py:147`).

## 5. What is proved

The theorems hold for every value of the constants, under named assumptions that TLC evaluates with
the runs. Their arguments have one form: an inductive invariant `IInv`, one lemma per action that it
is kept, and the property from it. Each invariant was checked by TLC before it was proved.

| Assumption | Says | Because |
|---|---|---|
| `OperationsAssumption`, `NodesAssumption` | requests and nodes are of the known kinds | routes and node catalogue are fixed |
| `BoundsAssumption` (`RunLifecycle`, `OrderActions`, `MCServices`), `TriesAssumption`, `StatisticsAssumption`, `LogAssumption`, `UpdatesAssumption` | bounds are natural numbers, capacities and limits as in the code | they are counts |
| `NeedAssumption`, `LeaseAssumption` | what a run needs are known resources; a lease has a positive length | `acquire_locks` inserts rows of the run's resources |
| `KindsAssumption`, `HoldersAssumption`, `PartsAssumption`, `ReportsAssumption` | kinds are the four and parts the five; the task, the web and "nobody" are no terminal and no request | values that stand for none |
| `ParserAssumption` | a database revision to export; finitely many exports and completions in flight | requests of a process |
| `CapturesAssumption`, `IndexAssumption`, `CasesAssumption` | interfaces, a base's settings and an index have a first revision | they exist before the first step: a host is there to be read, a base is created with settings, cases are generated from a published index |
| `CommandsAssumption` | a node has a command | one without is refused (`rem_execution.py:93`, `workflows.py:197`) |

**Run lifecycle.** *RunLifecycle_proofs*: `Typing`, `VersionFences`, `EndsForGood`. `IInv` adds to
`TypeOK` and `VersionFencesSnapshots`

* `RequestsPassed`: a request in flight has passed its guards on its snapshot (or is the second
  half of a deletion, on an ended run);
* `ExecutionsRunnable`: an execution at work loaded a run in a status it may work on;
* `FirstVersion`: the version is 0 only in draft, so that the empty snapshot of an execution
  that holds none is no exception to the fence;
* `WellPaused`: a paused run, and every snapshot of one, knows what it was paused from.

They are needed because `VersionFencesSnapshots` alone is not inductive: a write keeps the fence
only if it moves the version whenever it changes anything, and that depends on the guard that
the snapshot passed. Each service has a lemma (`BeginFollows`, `CompleteFollows`, ...) that it
yields the same run or one of a greater version; `Wrote`, `SaveKeeps` and `FinishesKeeps` lift
it to the steps. `EndsForGood` follows from the invariant: the writers compare versions, and no
request or execution passed its guard on an ended run.

*RunLifecycleOrder_proofs*: `StepsKeepOrder`, `StatusFitsStep`, `LocksFitStatus`,
`CrashesStrandNoRun`, `HandlersTakeTurns`, `MovesAreLegal`, for every workflow. On top of `IInv`:

* `OInv`: the committed run has the `Shape` its effective status asks for (order of steps, current
  step, begun counts, locks); the keys of step tasks name begins that happened (`KeysBegun`); a
  draft has no tasks; a request that saw an ended run waits to delete it. A service that is given a
  shaped run and passed its guard returns a shaped one, and by the fence it was given the stored
  one. A task's key carries how often its step was begun, which only grows, so that the task
  enqueued for a begun step is a new one.
* `TInv`: executions are of known tasks and one per key (`Known`); the begun step of a running run
  has a task that is not settled and has lost an attempt per crash only (`CarriedOn`); without
  crashes what is not settled is of the last begun step (`OnlyCurrent`).

`MovesAreLegal` is about paths in the two tables of `run_state.py`: the `Legal` and `Reach` lemmas
give, for each service, the moves it makes one after the other.

**Resource locks.** *ResourceLocks_proofs*: `Typing`, `HoldsAllOrNothing`, `SharingNeedsLapse`, each
inductive over the one before; `Implements` shows that every step is, under the mapping
`using[r] = Need[r]` for active runs that never lapsed, a `Take`, a `Drop` or a stutter of
`ExclusiveUse`. *ExclusiveUse_proofs*: `Mutex`.

**Order actions.** *OrderActions_proofs*: `Typing`, `RemembersActions`, `SendsOneAtATime`,
`EndsStay`. Every history that is stored or held names an action once and holds the newest of those
nobody crowded (`Histories`; a trimmed history of this kind keeps the newest, by counting); what
carries the run's version finds the run as its guard wanted it (`Places`); an action being sent is
sent by one session (`Sends`), and its step admits no other or is past its actions (`Alone`).

**Terminals.** *TerminalDispatch_proofs*: `Typed`, `TypesOnce`, `SomebodyDrives`, `FailsItsOwn`. A
dispatch in its await that nobody has overtaken could be validated again (`Loaded`); the write lock
is held by a preparation only (`Holding`); a terminal between commit and write is alone and its
attempt has no command yet (`Typing`, `Counted`); outputs under collection are the attempt's or
will not be saved (`Collected`); a lease is that of the attempt's driver as long as no shell has
refused its input (`Leases`).

**What executes a step.** *Execution_proofs*, for every behaviour of `ExecutionSpec`:

* `CompletionFresh`, `HistoryOfFiles`, `MetricsOfLatest`, `KeptHistory` (`StatIInv`): a reserved
  number is new, for it is one more than the largest (`HasLargest`, `NextIsNew`); an execution works
  on an unsealed reservation of its own (`Works`), so sealing changes no file that a history tells
  of (`Histories`); analyses of the saved revision are of the saved configuration unless a save came
  late (`Revisions`); a request is fresh while the step is where it found it (`Freshness`).
* `ParserFilesRecorded` (`ParserIInv`): what a preparation has verified or exported is on disk and in
  the rows it has flushed while nobody disturbs it (`Preparing`); a completion that can still be
  saved finds the step waiting, with a download newer than its preparation (`Collecting`).
* `CommandsRecorded` (`CommandsIInv`): an execution that returned ran its shell to its end, a handler
  never goes on with the shell of the execution the row names (`Handlers`), the row's execution ran
  all with success (`RowFits`); as long as nothing was lost there is one execution and no shell
  without its handler (`OneAtWork`); what a completion downloaded was prepared by the execution it
  completes or later (`Downloads`).
* `CapturesShown` (`CapturesIInv`): executions have disjoint snapshots, one for each of their first
  targets and finished but for the one they read (`Working`); a commit that is refused may leave a
  snapshot running, which is then nobody's; only an execution of a running capture
  may move the row; a confirmation that can still be saved saw the interfaces that are shown
  (`Confirming`); no number exceeds the count of its scope and host (`Numbered`), so a new one is new.
* `ExecutionTyped` (`ExecutionIInv`): the invariants of the five parts, and for each its bounds
  (`ParserBounds`, `StatBounds`, `CommandBounds`, `CaptureBounds`), give its type invariant. The
  bounds lean on the invariants: that an analysis' number is one of `Numbers` on its execution's own
  reservation (`ItsOutcome`), that a row has no more results than its node has commands on the order
  of its shell's codes (`RecordedLength`, `SaveWithin`), that no more completions are in flight than
  requests on each having one of its own (`OneEach`, `AsFewAsIds`).

**Services.** *Services_proofs*, for every behaviour of `ServicesSpec`:

* `NothingLost`: what the thread has in hand says where an event is (`ThreadFits`, `ProcessFits`), and
  what is behind the stop marker is late (`BehindTheMarker`).
* `UpdatesOnce`: a confirmation at work belongs to the one request that claimed it (`OneClaimEach`),
  and an unclaimed one has changed nothing.
* `AnswersCarried`: a job in the table has a message of its own and was given a history (`JobsFit`).
* `DownloadSound`: what was read since the first test lies between the generation's publication and
  the present one, after the second test it is the generation's (`Reads`).
* `EnabledValid`: a version in force was valid when the publication that marked it last saw it, unless
  a save overlapped (`PublishedFits`, `PublishingSees`); no two rows have the same number and
  generation, by the constraint alone. As long as no request was committed on changed rows, a scenario
  is enabled with a version marked published or has a draft (`RowsInOrder`), and a publication has
  loaded such a draft (`PublishingInOrder`), for what a request wants of the rows it loaded keeps
  them so: it takes pointers away, adds a draft or enables what is in force (`WorkingFits`,
  `FitsAs`).
* `NewestShows`, `VersionsKept`, `ComparisonTrue`: a request knows the verdict in force unless one was
  stored since (`ReportsFit`); recorded files are as recorded; a comparison is what its metrics give
  (`ComparisonJudged`).
* `SucceededCurrent`, `DeletionComplete` (`IndexIInv`): one task is active, and that of a stale base
  synchronises (`OneIndexTask`); an index lists what it could not read (`IndexesFit`); a thread that
  was never beside another knows the present settings and documents but for those that joined, and a
  succeeded base whose task a crash left behind has no upload under way (`IndexerAlone`). The
  theorems go past the constraint `NoOverlap`, under which TLC explores.
* `ServicesTyped` (`ServicesIInv`): the invariants of the seven parts, with the bounds of each, give
  the type invariant of the part at work.

Model-checked only: `RunningSettles`, for fairness and ENABLED are outside the prover's reach; every
other property of the passing runs is a theorem. The violated properties are false and have
no theorem. No module uses a recursive operator, and `Reports` judges a metric by a chain of tests,
like the code, because the SMT backend has no CASE.

## 6. What is not modelled, and the plan

Not modelled, and why:

* several overdue runs in one sweep (`orchestration.py:638`): `RunLifecycle` has one run;
* the edit of an order step's configuration (`runs.py:650-727`): `OrderActions` begins at the
  step's first launch; the edit saves from a step loaded before an await, like the one of
  `StatisticsAnalysis`;
* the pass-through of a terminal to an order session's tmux window, the order dispatch in
  `terminal.py` and `execute_parser_node` in `workflows.py`: the first only copies bytes, the
  others are reached by no caller;
* run events (`services/events.py`, `websockets.py`): fifty lines that make a browser reload;
* the time an event loop stands still while it waits for the write lock; the lock itself is in
  `TerminalDispatch` and `Reports`;
* what remote programs, databases and language models do; layout of reports, parsing of host
  output, splitting, embedding and search; SQL parsing;
* listings, users, audit, plans, resources and configurations: requests on rows of their own, one
  at a time, without a protocol;
* progress, logs and audit rows of the modelled handlers;
* the several SELECTs with which a workflow request loads its rows, which are one step of
  `WorkflowVersions` (what can change between them can change between load and commit as well), and
  `update_scenario` (`api/routes/plans.py:239`), which gives a draft the scenario's resources;
* a pause of a step that no terminal or task has begun or that has failed: `TerminalDispatch` pauses
  waiting steps, and the others in `RunLifecycle`;
* a REM host whose captured interfaces lack the configured address: `Captures` finds them;
* an emergency or pending file that cannot be written (`observability.py:147-149`): the event is then
  lost, and `LogWriter` has these files take every line;
* test cases of a base that was never indexed, whose index is not compared a second time
  (`smart_case_generation.py:151`): `SmartCases` always has an index;
* in `Reports`, a baseline run whose own analysis or verdict changes, and the two SELECTs of the
  comparison's payload, which is shown and not stored;
* what a failed publication leaves behind: files it rewrote stay rewritten (they are in the model) and
  no property judges them;
* the legacy ten-step pipeline, which no new run uses; the frontend; deployment.

The plan, in order of importance:

1. A lease clock for durable tasks with several kinds of tasks, and the refinement of "at most
   one live execution while the lease is renewed".
2. The sweep over several runs.

## 7. Running

`tlc -workers 2 -config <cfg> <module>` for the runs named in `PROJECT.json`, `tlapm <module>`
for the eight modules whose names end in `_proofs`.
