-------------------------- MODULE TerminalDispatch --------------------------
(***************************************************************************)
(* The dispatch of one workflow step through browser terminals             *)
(* (backend/app/services/terminal.py).  A terminal is a WebSocket bound to *)
(* a shell on a resource's host.  Asked for the current step, it validates *)
(* the run, works out the step's command, commits the step as waiting and  *)
(* types the command into its shell.  How it works the command out depends *)
(* on the step:                                                            *)
(*   shell   (rem, slnic start/stop) without an await;                     *)
(*   market  after SFTP checks: the row it loaded may be stale by then;    *)
(*   slnic   after the preparation of a merge, likewise;                   *)
(*   parser  after uploading inputs, with its own change of the row        *)
(*           flushed: the database's write lock is held across the await.  *)
(* A web request may begin any step but a parser's as well: its task then  *)
(* runs the commands without a terminal.  Pauses, cancellations and        *)
(* completions come from web requests too, other runs hold the write lock, *)
(* sessions end at any time and the process may crash.                     *)
(***************************************************************************)
EXTENDS Naturals, FiniteSets

CONSTANTS
  Terminals,  \* terminal slots: each holds one session after another
  Web,        \* the completion request, a session of the web API
  Task,       \* the task of a step that a web request has begun
  Elsewhere,  \* a handler of another run that has flushed and awaits its host
  Free,       \* nobody holds the write lock
  MaxTries,   \* bound on retry_count
  Kinds       \* the kinds of step to explore

ASSUME KindsAssumption == Kinds \subseteq {"shell", "market", "slnic", "parser"}
ASSUME TriesAssumption == MaxTries \in Nat
ASSUME HoldersAssumption ==
  /\ {Web, Task, Elsewhere, Free} \cap Terminals = {}
  /\ Elsewhere # Free /\ Web # Free /\ Web # Elsewhere /\ Task \notin {Web, Elsewhere, Free}

VARIABLES
  kind,      \* how the step's command is worked out
  row,       \* the committed run and step: statuses and retry_count
  at,        \* each terminal's place in its receive loop
  retrying,  \* the operation each terminal's dispatch carries
  shell,     \* whether the terminal's remote shell still takes input
  lease,     \* ParserTerminalLease: it names the step from the first dispatch on
  fresh,     \* sessions whose loaded row is still the committed one
  writer,    \* who holds the database's write lock across an await
  typed,     \* how often the command of each attempt was typed
  driver,    \* the terminal that typed the latest attempt
  completing,\* the attempt a completion request is collecting outputs of, or 0
  completed, \* the attempt whose outputs the completed step carries, or 0
  excused,   \* what has come between a waiting step and its terminal
  refused,   \* has a shell refused what was written to it
  task,      \* the step's task: "none", "queued" or "running"
  ran        \* the attempts whose commands the task has run

session == <<at, retrying, shell, lease>>
vars == <<kind, row, at, retrying, shell, lease, fresh, writer, typed, driver,
          completing, completed, excused, refused, task, ran>>

Row(status, step, tries) == [status |-> status, step |-> step, tries |-> tries]
Attempt == row.tries + 1
Attempts == 1..(MaxTries + 1)
IsWaiting(r) == r.status = "awaiting_step_completion" /\ r.step = "waiting"
Ended == {"cancelled", "completed"}

\* A commit of the run's row: what every other session has loaded is now stale.
Write(r) == row' = r /\ fresh' = {}
\* A save that compares status_version, and one that meets no other writer.
MaySave_Unversioned(s) == writer \in {Free, s}   \* Mutant
MaySave(s) == writer \in {Free, s} /\ s \in fresh

\* handle_resource_terminal: a new session in the slot.
Open(t) ==
  /\ at[t] = "closed" /\ row.status \notin Ended
  /\ at' = [at EXCEPT ![t] = "idle"]
  /\ shell' = [shell EXCEPT ![t] = TRUE]
  /\ UNCHANGED <<kind, row, retrying, lease, fresh, writer, typed, driver,
                 completing, completed, excused, refused>>

\* What _validate_terminal_step and begin_workflow_step require of the row.
Asked(retry) ==
  /\ row.status = IF retry THEN "awaiting_step_retry" ELSE "awaiting_step_start"
  /\ row.step = IF retry THEN "failed" ELSE "pending"
  /\ retry => row.tries < MaxTries

Validated(t, retry) == at[t] = "idle" /\ Asked(retry)

Dispatched(t, retry) ==
  Row("awaiting_step_completion", "waiting", row.tries + IF retry THEN 1 ELSE 0)

\* _dispatch_shell_terminal_command, whose row cannot change under it; the write
\* fails, and with it the session, while another session holds the write lock.
DispatchShell(t, retry) ==
  /\ kind = "shell" /\ Validated(t, retry)
  /\ IF writer = Free
       THEN at' = [at EXCEPT ![t] = "typing"] /\ Write(Dispatched(t, retry))
       ELSE at' = [at EXCEPT ![t] = "ending"] /\ UNCHANGED <<row, fresh>>
  /\ UNCHANGED <<kind, retrying, shell, lease, writer, typed, driver,
                 completing, completed, excused, refused>>

\* Market and merge steps: the row is loaded, then the host is asked.
Check(t, retry) ==
  /\ kind \in {"market", "slnic"} /\ Validated(t, retry)
  /\ at' = [at EXCEPT ![t] = "checking"]
  /\ retrying' = [retrying EXCEPT ![t] = retry]
  /\ fresh' = fresh \cup {t}
  /\ UNCHANGED <<kind, row, shell, lease, writer, typed, driver, completing,
                 completed, excused, refused>>

\* _record_terminal_command_dispatch: a row changed meanwhile ends the session. The
\* operation and the loaded row are the dispatch's own and are gone when it ends.
CheckPasses(t) ==
  /\ at[t] = "checking"
  /\ IF MaySave(t)
       THEN at' = [at EXCEPT ![t] = "typing"] /\ Write(Dispatched(t, retrying[t]))
       ELSE /\ at' = [at EXCEPT ![t] = "ending"]
            /\ row' = row /\ fresh' = fresh \ {t}
  /\ retrying' = [retrying EXCEPT ![t] = FALSE]
  /\ UNCHANGED <<kind, shell, lease, writer, typed, driver,
                 completing, completed, excused, refused>>

\* A missing script is answered; a failed merge preparation is caught under a
\* name the module never imports, and ends the session.
CheckFails(t) ==
  /\ at[t] = "checking"
  /\ at' = [at EXCEPT ![t] = IF kind = "slnic" THEN "ending" ELSE "idle"]
  /\ retrying' = [retrying EXCEPT ![t] = FALSE] /\ fresh' = fresh \ {t}
  /\ UNCHANGED <<kind, row, shell, lease, writer, typed, driver,
                 completing, completed, excused, refused>>

\* _dispatch_parser_terminal_command up to its await: running, flushed, uncommitted.
Prepare(t, retry) ==
  /\ kind = "parser" /\ Validated(t, retry)
  /\ IF writer = Free
       THEN /\ at' = [at EXCEPT ![t] = "preparing"]
            /\ retrying' = [retrying EXCEPT ![t] = retry]
            /\ writer' = t /\ fresh' = fresh \cup {t}
       ELSE /\ at' = [at EXCEPT ![t] = "ending"]
            /\ UNCHANGED <<retrying, writer, fresh>>
  /\ UNCHANGED <<kind, row, shell, lease, typed, driver, completing, completed,
                 excused, refused>>

PrepareReturns(t) ==
  /\ at[t] = "preparing" /\ MaySave(t)
  /\ Write(Dispatched(t, retrying[t])) /\ writer' = Free
  /\ at' = [at EXCEPT ![t] = "typing"]
  /\ lease' = [lease EXCEPT ![t] = TRUE]
  /\ retrying' = [retrying EXCEPT ![t] = FALSE]
  /\ UNCHANGED <<kind, shell, typed, driver, completing, completed, excused, refused>>

PrepareFails(t) ==
  /\ at[t] = "preparing" /\ MaySave(t)
  /\ Write(Row("awaiting_step_retry", "failed",
               row.tries + IF retrying[t] THEN 1 ELSE 0))
  /\ writer' = Free
  /\ at' = [at EXCEPT ![t] = "idle"]
  /\ retrying' = [retrying EXCEPT ![t] = FALSE]
  /\ UNCHANGED <<kind, shell, lease, typed, driver, completing, completed,
                 excused, refused>>

\* _receive_remote after the dispatch: the command goes into the shell.
Type(t) ==
  /\ at[t] = "typing" /\ shell[t]
  /\ at' = [at EXCEPT ![t] = "idle"]
  /\ typed' = [typed EXCEPT ![Attempt] = @ + 1]
  /\ driver' = t
  /\ UNCHANGED <<kind, row, retrying, shell, lease, fresh, writer, completing,
                 completed, excused, refused>>

\* _record_workflow_command_dispatch_failure, when the shell refuses input.
FailWaiting_RunOnly ==   \* Mutant
  Write(Row("awaiting_step_retry", row.step, row.tries))
FailWaiting == Write(Row("awaiting_step_retry", "failed", row.tries))

WriteRefused(t) ==
  /\ ~shell[t]
  /\ IF writer # Free
       THEN at' = [at EXCEPT ![t] = "ending"] /\ UNCHANGED <<row, fresh>>
       ELSE /\ at' = [at EXCEPT ![t] = "idle"]
            /\ IF IsWaiting(row) THEN FailWaiting ELSE UNCHANGED <<row, fresh>>
  /\ refused' = TRUE
  /\ UNCHANGED <<kind, retrying, shell, lease, writer, typed, driver, completing,
                 completed>>

TypeFails(t) ==
  /\ at[t] = "typing" /\ WriteRefused(t)
  /\ excused' = excused \cup (IF IsWaiting(row) THEN {} ELSE {"paused"})

\* _dispatch_parser_action and _record_parser_action_dispatch: an action goes to
\* the session's own shell if its lease names the step and the step waits.
MayAct(t) == at[t] = "idle" /\ lease[t] /\ kind = "parser" /\ IsWaiting(row)

\* The note fails to be saved and so does the record of that failure.
ActUnrecorded(t) ==
  /\ MayAct(t) /\ shell[t] /\ writer # Free
  /\ at' = [at EXCEPT ![t] = "ending"]
  /\ UNCHANGED <<kind, row, retrying, shell, lease, fresh, writer, typed, driver,
                 completing, completed, excused, refused>>

ActFails(t) == MayAct(t) /\ WriteRefused(t) /\ UNCHANGED excused

\* The remote shell exits or its connection breaks: input is refused from now on.
ShellEnds(t) ==
  /\ at[t] # "closed" /\ shell[t]
  /\ shell' = [shell EXCEPT ![t] = FALSE]
  /\ UNCHANGED <<kind, row, at, retrying, lease, fresh, writer, typed, driver,
                 completing, completed, excused, refused>>

\* _run_remote: the first of the two loops to end cancels the other; a dispatch in
\* its await is rolled back with its flush.
SessionEnds(t) ==
  /\ at[t] \in {"idle", "checking", "preparing"}
  /\ at' = [at EXCEPT ![t] = "ending"]
  /\ writer' = IF writer = t THEN Free ELSE writer
  /\ retrying' = [retrying EXCEPT ![t] = FALSE] /\ fresh' = fresh \ {t}
  /\ UNCHANGED <<kind, row, shell, lease, typed, driver,
                 completing, completed, excused, refused>>

\* _record_parser_terminal_disconnect, in the handler's finally.
OwnsStep_NoLease(t) == kind = "parser" /\ IsWaiting(row)              \* Mutant
OwnsStep_Running(t) == lease[t] /\ row.status = "running"            \* Mutant
OwnsStep(t) == lease[t] /\ kind = "parser" /\ IsWaiting(row)

Disconnect(t) ==
  /\ at[t] = "ending"
  /\ at' = [at EXCEPT ![t] = "closed"] /\ lease' = [lease EXCEPT ![t] = FALSE]
  /\ shell' = [shell EXCEPT ![t] = FALSE]
  /\ IF OwnsStep(t) /\ writer = Free THEN FailWaiting ELSE UNCHANGED <<row, fresh>>
  /\ excused' = excused \cup
       (IF ~lease[t] \/ row.step # "waiting" THEN {}
        ELSE IF row.status = "paused" THEN {"paused"}
        ELSE IF writer # Free THEN {"lost write"} ELSE {})
  /\ UNCHANGED <<kind, retrying, writer, typed, driver, completing, completed, refused>>

\* A handler of another run flushes and awaits; later it commits.
HoldElsewhere ==
  /\ writer = Free /\ writer' = Elsewhere
  /\ UNCHANGED <<kind, row, session, fresh, typed, driver, completing, completed,
                 excused, refused>>
ReleaseElsewhere ==
  /\ writer = Elsewhere /\ writer' = Free
  /\ UNCHANGED <<kind, row, session, fresh, typed, driver, completing, completed,
                 excused, refused>>

\* run_pause, run_resume and run_cancel: load and save in one request.
WebWrites(r) ==
  /\ writer = Free /\ Write(r)
  /\ UNCHANGED <<kind, session, writer, typed, driver, completing, completed, excused, refused>>

Pause == IsWaiting(row) /\ WebWrites([row EXCEPT !.status = "paused"])
Resume ==
  row.status = "paused" /\ WebWrites([row EXCEPT !.status = "awaiting_step_completion"])
Cancel ==
  /\ row.status \notin Ended
  /\ WebWrites([row EXCEPT !.status = "cancelled", !.step = "cancelled"])

\* complete_run_step: the outputs of the waiting attempt are fetched across an
\* await, then the step is completed if its run has not changed.
AskComplete ==
  /\ IsWaiting(row) /\ completing = 0
  /\ completing' = Attempt /\ fresh' = fresh \cup {Web}
  /\ UNCHANGED <<kind, row, session, writer, typed, driver, completed, excused, refused>>

Complete ==
  /\ completing # 0 /\ completing' = 0
  /\ IF MaySave(Web) /\ IsWaiting(row)
       THEN Write(Row("completed", "succeeded", row.tries)) /\ completed' = completing
       ELSE UNCHANGED <<row, completed>> /\ fresh' = fresh \ {Web}
  /\ UNCHANGED <<kind, session, writer, typed, driver, excused, refused>>

\* confirm_run_step completes a waiting step as it is; only the capture of a merge is
\* collected there too.
Confirm ==
  kind # "slnic" /\ IsWaiting(row) /\ WebWrites(Row("completed", "succeeded", row.tries))

\* start_run_step, retry_run_step and run_retry: they refuse parser steps only.
WebBegin(retry) ==
  /\ kind # "parser" /\ Asked(retry) /\ task = "none"
  /\ WebWrites(Row("running", "running", row.tries + IF retry THEN 1 ELSE 0))
  /\ task' = "queued" /\ UNCHANGED ran

\* execute_workflow_run in the step's task: a run that no longer runs is left alone,
\* otherwise the step's handler runs the commands ...
TaskLoads ==
  /\ task = "queued"
  /\ IF row.status = "running"
       THEN task' = "running" /\ fresh' = fresh \cup {Task} /\ ran' = ran \cup {Attempt}
       ELSE task' = "none" /\ UNCHANGED <<fresh, ran>>
  /\ UNCHANGED <<kind, row, session, writer, typed, driver, completing, completed,
                 excused, refused>>

\* ... and the step waits or has failed, unless its run was cancelled or another session
\* holds the write lock; the task is tried again or given up.
TaskEnds ==
  /\ task = "running"
  /\ IF MaySave(Task)
       THEN /\ \/ Write(Row("awaiting_step_completion", "waiting", row.tries))
               \/ Write(Row("awaiting_step_retry", "failed", row.tries))
            /\ task' = "none"
       ELSE row' = row /\ fresh' = fresh \ {Task} /\ task' \in {"none", "queued"}
  /\ UNCHANGED <<kind, session, writer, typed, driver, completing, completed,
                 excused, refused, ran>>

\* Sessions and their flushes are gone; committed rows stay, and nothing at start-up
\* looks at a waiting step; a task is executed again.
Crash ==
  /\ at' = [t \in Terminals |-> "closed"]
  /\ shell' = [t \in Terminals |-> FALSE]
  /\ retrying' = [t \in Terminals |-> FALSE]
  /\ lease' = [t \in Terminals |-> FALSE]
  /\ writer' = Free /\ fresh' = {} /\ completing' = 0
  /\ excused' = excused \cup {"crash"}
  /\ task' = IF task = "running" THEN "queued" ELSE task
  /\ UNCHANGED <<kind, row, typed, driver, completed, refused, ran>>

Init ==
  /\ kind \in Kinds
  /\ row = Row("awaiting_step_start", "pending", 0)
  /\ at = [t \in Terminals |-> "closed"]
  /\ retrying = [t \in Terminals |-> FALSE]
  /\ shell = [t \in Terminals |-> FALSE]
  /\ lease = [t \in Terminals |-> FALSE]
  /\ fresh = {} /\ writer = Free
  /\ typed = [a \in Attempts |-> 0] /\ driver = Free
  /\ completing = 0 /\ completed = 0 /\ excused = {} /\ refused = FALSE
  /\ task = "none" /\ ran = {}

Terminal(t) ==
  \/ Open(t) \/ ShellEnds(t) \/ SessionEnds(t) \/ Disconnect(t)
  \/ \E retry \in BOOLEAN : DispatchShell(t, retry) \/ Check(t, retry) \/ Prepare(t, retry)
  \/ CheckPasses(t) \/ CheckFails(t) \/ PrepareReturns(t) \/ PrepareFails(t)
  \/ ActUnrecorded(t) \/ ActFails(t)

\* A dispatch awaits nothing from its commit to its write to the shell: meanwhile
\* nothing else runs on the event loop, only the pause, which has its own thread.
LoopIsFree == \A t \in Terminals : at[t] # "typing"

ByTask == (\E retry \in BOOLEAN : WebBegin(retry)) \/ TaskLoads \/ TaskEnds

ByHand ==
  \/ LoopIsFree /\ \/ \E t \in Terminals : Terminal(t)
                   \/ HoldElsewhere \/ ReleaseElsewhere
                   \/ Resume \/ Cancel \/ AskComplete \/ Complete \/ Confirm
  \/ \E t \in Terminals : Type(t) \/ TypeFails(t)
  \/ Pause

Next ==
  \/ ByHand /\ UNCHANGED <<task, ran>>
  \/ LoopIsFree /\ ByTask
  \/ Crash

Spec == Init /\ [][Next]_vars

----------------------------------------------------------------------------
(* Properties *)

\* Every variable has its type, and the run's status fits its step's.
TypeOK ==
  /\ kind \in Kinds
  /\ <<row.status, row.step>> \in
       {<<"awaiting_step_start", "pending">>, <<"running", "running">>,
        <<"awaiting_step_completion", "waiting">>,
        <<"paused", "waiting">>, <<"awaiting_step_retry", "failed">>,
        <<"completed", "succeeded">>, <<"cancelled", "cancelled">>}
  /\ row.tries \in 0..MaxTries
  /\ at \in [Terminals -> {"closed", "idle", "checking", "preparing", "typing", "ending"}]
  /\ retrying \in [Terminals -> BOOLEAN] /\ shell \in [Terminals -> BOOLEAN]
  /\ lease \in [Terminals -> BOOLEAN]
  /\ fresh \subseteq Terminals \cup {Web, Task}
  /\ writer \in Terminals \cup {Elsewhere, Free}
  /\ typed \in [Attempts -> Nat] /\ driver \in Terminals \cup {Free}
  /\ completing \in {0} \cup Attempts /\ completed \in {0} \cup Attempts
  /\ excused \subseteq {"lost write", "paused", "crash"} /\ refused \in BOOLEAN
  /\ task \in {"none", "queued", "running"} /\ ran \subseteq Attempts

\* Two terminals asked for the same step at once, and a web request that begins it: the
\* command of an attempt is typed once or run by the step's task, never both, however
\* their checks interleave; and the outputs a completed step carries are those of its
\* last attempt, a retry while they are collected makes the completion fail.
OneCommandPerAttempt ==
  /\ \A a \in Attempts : typed[a] <= 1 /\ (a \in ran => typed[a] = 0)
  /\ completed # 0 => completed = Attempt

\* A step waiting for its operator has had its command typed or is about to, unless a web
\* request began it and its task has run it; a parser step, which no web request begins,
\* also has an open terminal with a lease for it, the only one that can send it actions;
\* unless a crash, a pause or another run's hold on the database came between.
WaitingStepIsDriven ==
  (row.step = "waiting" /\ excused = {}) =>
    /\ typed[Attempt] = 1 \/ Attempt \in ran \/ \E t \in Terminals : at[t] = "typing"
    /\ kind = "parser" => \E t \in Terminals : lease[t] /\ at[t] # "closed"

\* A session that ends fails the attempt of another terminal only if some shell has
\* refused its input before: that fails an attempt and takes no lease back.
DisconnectFailsItsOwn ==
  [][\A t \in Terminals :
       (at[t] = "ending" /\ at'[t] = "closed" /\ row'.step = "failed" /\ row.step = "waiting")
         => (driver = t \/ refused)]_vars
=============================================================================
