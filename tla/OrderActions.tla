---------------------------- MODULE OrderActions ----------------------------
(***************************************************************************)
(* The order step of a run from its first begin: its task launches the     *)
(* order program in a tmux session, the operator sends actions to it,      *)
(* confirms those with an uncertain result, completes or retries the step, *)
(* or the run is cancelled or times out (runs.py, order_sessions.py).      *)
(*                                                                         *)
(* Each request keeps the step it loaded across its await on the remote    *)
(* host (a confirmation, which runs in a thread, across its own load) and  *)
(* then saves the whole result_summary computed from it.  The run row is   *)
(* compared with its version where it is written; a write of the step row  *)
(* alone is compared with nothing.  SELECT ... FOR UPDATE holds nothing    *)
(* back: in SQLite, the default database, it is no lock.                   *)
(***************************************************************************)
EXTENDS Naturals, FiniteSets

CONSTANTS
  MaxSends,      \* bound: actions sent
  MaxRetries,    \* bound: retries of the step
  MaxCrashes,    \* bound: ends of the process
  HistoryLimit   \* ORDER_ACTION_HISTORY_LIMIT

ASSUME BoundsAssumption ==
  /\ {MaxSends, MaxRetries, MaxCrashes} \subseteq Nat
  /\ HistoryLimit \in Nat \ {0}

VARIABLES
  run,         \* status and version of the run
  step,        \* status of the order step
  summary,     \* its result_summary: action status, session status, history
  sessions,    \* requests and executions that await the remote host
  sent,        \* request ids used so far
  retries, crashes,
  \* history variables
  remote,      \* actions still being sent to the order program
  crowded,     \* actions dispatched while another request held a snapshot
  overridden   \* did an operator confirm or retry an action that was still being sent

vars == <<run, step, summary, sessions, sent, retries, crashes, remote, crowded, overridden>>

Unresolved == {"dispatching", "unknown"}
Ids == 1..MaxSends

\* The newest HistoryLimit entries; ids are given in order.
Trimmed(history) ==
  {e \in history : Cardinality({f \in history : f.id >= e.id}) <= HistoryLimit}

Noted(history, id, result) ==
  {IF e.id = id THEN [e EXCEPT !.result = result] ELSE e : e \in history}

Fresh(s) == run.version = s.version

-----------------------------------------------------------------------------
Init ==
  /\ run = [status |-> "running", version |-> 0]
  /\ step = "running"
  /\ summary = [action |-> "pending", session |-> "none", history |-> {}]
  /\ sessions = {}
  /\ sent = 0
  /\ retries = 0
  /\ crashes = 0
  /\ remote = {}
  /\ crowded = {}
  /\ overridden = FALSE

Waiting == run.status = "awaiting_step_completion" /\ step = "waiting"

\* Mutant: only an unknown result blocks the next action.
MayDispatch_WhileSending == Waiting /\ summary.action # "unknown"

MayDispatch == Waiting /\ summary.action \notin Unresolved

\* Mutant: the history is not cut to its limit.
Appended_Untrimmed(history, id) == history \cup {[id |-> id, result |-> "dispatching"]}

Appended(history, id) == Trimmed(history \cup {[id |-> id, result |-> "dispatching"]})

\* dispatch_order_action up to the commit before the send.
Dispatch ==
  /\ MayDispatch
  /\ sent < MaxSends
  /\ LET id == sent + 1
         saved == [summary EXCEPT !.action = "dispatching",
                                  !.history = Appended(@, id)]
     IN /\ sent' = id
        /\ summary' = saved
        /\ sessions' = sessions \cup
             {[op |-> "send", id |-> id, version |-> run.version, summary |-> saved]}
        /\ remote' = remote \cup {id}
        /\ crowded' = IF sessions = {} THEN crowded ELSE crowded \cup {id}
  /\ UNCHANGED <<run, step, retries, crashes, overridden>>

\* The send returned or failed: the step loaded before it is saved, changed or not since.
SendEnds(s) ==
  /\ s.op = "send"
  /\ \E result \in {"dispatched", "unknown"} :
       summary' = [s.summary EXCEPT !.action = result,
                                    !.history = Trimmed(Noted(@, s.id, result))]
  /\ sessions' = sessions \ {s}
  /\ remote' = remote \ {s.id}
  /\ UNCHANGED <<run, step, sent, retries, crashes, crowded, overridden>>

LastUnresolved(history) ==
  {e \in history : /\ e.result \in Unresolved
                   /\ \A f \in history : f.result \in Unresolved => f.id <= e.id}

\* complete_run_step, retry_run_step, run_cancel and the cleanup after a timeout load
\* the step, pass their guards and await cleanup_order_session.
Opens(op) ==
  /\ \A s \in sessions : s.op # op
  /\ sessions' = sessions \cup
       {[op |-> op, id |-> 0, version |-> run.version, summary |-> summary]}
  /\ UNCHANGED <<run, step, summary, sent, retries, crashes, remote, crowded, overridden>>

AskComplete == Waiting /\ summary.action \notin Unresolved /\ Opens("complete")

AskRetry ==
  Waiting /\ summary.action \in Unresolved /\ retries < MaxRetries /\ Opens("retry")

\* confirm_order_action: also while the send is still under way.
AskConfirm == summary.action \in Unresolved /\ Opens("confirm")

Confirm(s) ==
  /\ s.op = "confirm"
  /\ summary' = [s.summary EXCEPT
       !.action = "dispatched",
       !.history = Trimmed({IF e \in LastUnresolved(@) THEN [e EXCEPT !.result = "dispatched"]
                            ELSE e : e \in @})]
  /\ overridden' = (overridden \/ remote # {})
  /\ sessions' = sessions \ {s}
  /\ UNCHANGED <<run, step, sent, retries, crashes, remote, crowded>>

HasSession == summary.session \in {"open", "cleanup_failed"}
Ended == run.status \in {"cancelled", "timed_out"}

AskCancel == ~Ended /\ HasSession /\ Opens("cancel")

CancelStep ==
  /\ run' = [status |-> "cancelled", version |-> run.version + 1]
  /\ step' = IF step \in {"running", "waiting"} THEN "cancelled" ELSE step

\* With no session to close, the cancellation awaits nothing.
CancelNow ==
  /\ ~Ended /\ ~HasSession
  /\ CancelStep
  /\ UNCHANGED <<summary, sessions, sent, retries, crashes, remote, crowded, overridden>>

\* Mutant: the requests that end the step do not compare the version.
Ends_Unversioned(s, runStatus, stepStatus) ==
  /\ run' = [status |-> runStatus, version |-> run.version + 1]
  /\ step' = stepStatus
  /\ summary' = [s.summary EXCEPT !.session = "closed"]

\* One transaction: the step and its summary, and the run guarded by its version.
Ends(s, runStatus, stepStatus) ==
  IF Fresh(s)
  THEN /\ run' = [status |-> runStatus, version |-> run.version + 1]
       /\ step' = stepStatus
       /\ summary' = [s.summary EXCEPT !.session = "closed"]
  ELSE UNCHANGED <<run, step, summary>>

Complete(s) ==
  /\ s.op = "complete"
  /\ Ends(s, "awaiting_step_start", "succeeded")
  /\ sessions' = sessions \ {s}
  /\ UNCHANGED <<sent, retries, crashes, remote, crowded, overridden>>

\* confirm_run_step: the step succeeds at once and its session is not closed.
ConfirmStep ==
  /\ Waiting /\ summary.action \notin Unresolved
  /\ run' = [status |-> "awaiting_step_start", version |-> run.version + 1]
  /\ step' = "succeeded"
  /\ UNCHANGED <<summary, sessions, sent, retries, crashes, remote, crowded, overridden>>

\* A failed cleanup does not stop the cancellation.
CancelRun(s) ==
  /\ s.op = "cancel"
  /\ IF Fresh(s)
     THEN /\ CancelStep
          /\ \E outcome \in {"closed", "cleanup_failed"} :
               summary' = [s.summary EXCEPT !.session = outcome]
     ELSE UNCHANGED <<run, step, summary>>
  /\ sessions' = sessions \ {s}
  /\ UNCHANGED <<sent, retries, crashes, remote, crowded, overridden>>

\* The retry fails the step, begins it again and lets its task launch the program anew.
Retry(s) ==
  /\ s.op = "retry"
  /\ Ends(s, "running", "running")
  /\ retries' = IF Fresh(s) THEN retries + 1 ELSE retries
  /\ overridden' = (overridden \/ remote # {})
  /\ sessions' = sessions \ {s}
  /\ UNCHANGED <<sent, crashes, remote, crowded>>

\* The retry of a step that failed to launch closes no session and awaits nothing.
RetryFailed ==
  /\ run.status = "awaiting_step_retry" /\ step = "failed"
  /\ retries < MaxRetries
  /\ run' = [status |-> "running", version |-> run.version + 1]
  /\ step' = "running"
  /\ retries' = retries + 1
  /\ UNCHANGED <<summary, sessions, sent, crashes, remote, crowded, overridden>>

CleanupFails(s) ==
  /\ s.op \in {"complete", "retry"}
  /\ sessions' = sessions \ {s}
  /\ UNCHANGED <<run, step, summary, sent, retries, crashes, remote, crowded, overridden>>

\* The step's task loads the run and executes the order handler.
Launch ==
  /\ run.status = "running"
  /\ Opens("launch")

\* Mutant: the relaunched program starts with an empty history.
KeptHistory_None(s) == {}

KeptHistory(s) == s.summary.history

\* The handler returns a new summary that keeps only the history it had loaded.
Launched(s) ==
  /\ s.op = "launch"
  /\ IF Fresh(s)
     THEN /\ run' = [status |-> "awaiting_step_completion", version |-> run.version + 1]
          /\ step' = "waiting"
          /\ summary' = [action |-> "pending", session |-> "open", history |-> KeptHistory(s)]
     ELSE UNCHANGED <<run, step, summary>>
  /\ sessions' = sessions \ {s}
  /\ UNCHANGED <<sent, retries, crashes, remote, crowded, overridden>>

LaunchFails(s) ==
  /\ s.op = "launch"
  /\ IF Fresh(s)
     THEN /\ run' = [status |-> "awaiting_step_retry", version |-> run.version + 1]
          /\ step' = "failed"
     ELSE UNCHANGED <<run, step>>
  /\ sessions' = sessions \ {s}
  /\ UNCHANGED <<summary, sent, retries, crashes, remote, crowded, overridden>>

\* expire_timed_out_runs in one go; cleanup_order_step_by_ids runs as a task of its own.
Expire ==
  /\ ~Ended
  /\ run' = [status |-> "timed_out", version |-> run.version + 1]
  /\ step' = IF step = "succeeded" THEN step ELSE "cancelled"
  /\ sessions' = IF summary.session = "none" THEN sessions
       ELSE sessions \cup
         {[op |-> "cleanup", id |-> 0, version |-> run.version + 1, summary |-> summary]}
  /\ UNCHANGED <<summary, sent, retries, crashes, remote, crowded, overridden>>

Cleanup(s) ==
  /\ s.op = "cleanup"
  /\ \E outcome \in {"closed", "cleanup_failed"} :
       summary' = [s.summary EXCEPT !.session = outcome]
  /\ sessions' = sessions \ {s}
  /\ UNCHANGED <<run, step, sent, retries, crashes, remote, crowded, overridden>>

\* Nothing of a request survives the process; the step's task is executed again.
Crash ==
  /\ crashes < MaxCrashes
  /\ crashes' = crashes + 1
  /\ sessions' = {}
  /\ remote' = {}
  /\ UNCHANGED <<run, step, summary, sent, retries, crowded, overridden>>

-----------------------------------------------------------------------------
Next ==
  \/ Dispatch
  \/ AskConfirm
  \/ AskComplete
  \/ AskRetry
  \/ AskCancel
  \/ CancelNow
  \/ ConfirmStep
  \/ RetryFailed
  \/ Launch
  \/ Expire
  \/ Crash
  \/ \E s \in sessions :
       \/ SendEnds(s)
       \/ Confirm(s)
       \/ Complete(s)
       \/ Retry(s)
       \/ CancelRun(s)
       \/ CleanupFails(s)
       \/ Launched(s)
       \/ LaunchFails(s)
       \/ Cleanup(s)

Spec == Init /\ [][Next]_vars

-----------------------------------------------------------------------------
(* Properties *)

Results == {"dispatching", "unknown", "dispatched"}

Summaries ==
  [action : Results \cup {"pending"}, session : {"none", "open", "closed", "cleanup_failed"},
   history : SUBSET [id : Ids, result : Results]]

\* The type of every variable; the stored history never exceeds its limit.
TypeOK ==
  /\ run \in [status : {"awaiting_step_completion", "awaiting_step_start", "running",
                        "awaiting_step_retry", "cancelled", "timed_out"},
              version : Nat]
  /\ step \in {"waiting", "running", "failed", "succeeded", "cancelled"}
  /\ summary \in Summaries
  /\ Cardinality(summary.history) <= HistoryLimit
  /\ sessions \subseteq
       [op : {"send", "confirm", "complete", "retry", "cancel", "launch", "cleanup"},
        id : 0..MaxSends, version : Nat, summary : Summaries]
  /\ sent \in 0..MaxSends
  /\ retries \in 0..MaxRetries
  /\ crashes \in 0..MaxCrashes
  /\ remote \subseteq Ids
  /\ crowded \subseteq Ids
  /\ overridden \in BOOLEAN

Recorded(id) == \E e \in summary.history : e.id = id

\* An action is never forgotten by the step's history, through confirmations, retries,
\* relaunches, crashes, cancellation and timeout, unless it was dispatched while another
\* request held a snapshot of the step: only an overlap can lose it.
ActionsRemembered ==
  \A id \in 1..sent : id \notin crowded /\ id + HistoryLimit > sent => Recorded(id)

\* Two actions are never being sent at once, whatever answers late and whatever
\* crashes, unless an operator has overridden one that was still being sent.
OneActionAtATime == Cardinality(remote) > 1 => overridden

\* A late answer never reopens a step that has succeeded or was cancelled.
EndedStepStays ==
  [][step \notin {"succeeded", "cancelled"}]_step

\* A step does not succeed while the result of one of its actions is open.
NoCompletionDuringSend == step = "succeeded" => remote = {}
=============================================================================
