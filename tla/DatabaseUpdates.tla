---------------------------- MODULE DatabaseUpdates ----------------------------
(***************************************************************************)
(* The confirmed UPDATE on a database resource                             *)
(* (backend/app/api/routes/database_updates.py and preview_update,         *)
(* execute_update of adapters/database.py).  A preview counts the rows and *)
(* stores a confirmation for five minutes; an execution claims it, counts  *)
(* again under lock in the target database, updates and commits there, and *)
(* records the outcome in the platform's own database afterwards.          *)
(***************************************************************************)
EXTENDS Naturals, Sequences

CONSTANTS
  Confirmations,  \* previews made
  Requests,       \* execute requests, repeated clicks and retries included
  MaxRows,        \* bound on the rows an UPDATE meets
  Limit           \* UPDATE_LIMIT

VARIABLES
  matching,       \* rows of the target that the WHERE clause meets
  confirmation,   \* the rows of t_database_update_confirmations
  updates,        \* for each confirmation, the row counts of its committed updates
  req,            \* execute requests in progress
  unanswered      \* confirmations whose commit was not answered

vars == <<matching, confirmation, updates, req, unanswered>>

Absent == [status |-> "none", rows |-> 0, expired |-> FALSE]
NoRequest == [at |-> "idle", of |-> "none", rows |-> 0]

\* The target database belongs to others as well.
ChangeRows ==
  /\ \E n \in 0..MaxRows : matching' = n
  /\ UNCHANGED <<confirmation, updates, req, unanswered>>

\* database_update_preview
Preview(c) ==
  /\ confirmation[c].status = "none" /\ matching <= Limit
  /\ confirmation' = [confirmation EXCEPT ![c] = [status |-> "pending", rows |-> matching, expired |-> FALSE]]
  /\ UNCHANGED <<matching, updates, req, unanswered>>

\* Five minutes pass.
Tick(c) ==
  /\ confirmation[c].status # "none" /\ ~confirmation[c].expired
  /\ confirmation' = [confirmation EXCEPT ![c].expired = TRUE]
  /\ UNCHANGED <<matching, updates, req, unanswered>>

\* Mutant: the confirmation is left as it is until the outcome is known
Claimed_Later == "pending"
Claimed == "executing"
\* database_update_execute reads the confirmation, refuses a used or expired one and
\* claims it, all before its first await.
Claim(r, c) ==
  /\ req[r].at = "idle" /\ confirmation[c].status = "pending"
  /\ IF confirmation[c].expired
     THEN confirmation' = [confirmation EXCEPT ![c].status = "expired"] /\ UNCHANGED req
     ELSE /\ confirmation' = [confirmation EXCEPT ![c].status = Claimed]
          /\ req' = [req EXCEPT ![r] = [at |-> "claimed", of |-> c, rows |-> confirmation[c].rows]]
  /\ UNCHANGED <<matching, updates, unanswered>>

\* execute_update counts FOR UPDATE, compares with the preview, updates and commits.
Meets(q) == matching = q.rows /\ matching <= Limit
Update(r) ==
  /\ req[r].at = "claimed" /\ Meets(req[r])
  /\ updates' = [updates EXCEPT ![req[r].of] = Append(@, matching)]
  /\ \/ req' = [req EXCEPT ![r].at = "updated"] /\ UNCHANGED unanswered
     \/ \* the connection breaks while the commit is answered
        /\ req' = [req EXCEPT ![r].at = "failed"]
        /\ unanswered' = unanswered \cup {req[r].of}
  /\ UNCHANGED <<matching, confirmation>>
UpdateFails(r) ==
  /\ req[r].at = "claimed"
  /\ req' = [req EXCEPT ![r].at = "failed"]
  /\ UNCHANGED <<matching, confirmation, updates, unanswered>>

\* The outcome is recorded, on every path of the handler.
Finish(r) ==
  /\ req[r].at \in {"updated", "failed"}
  /\ confirmation' = [confirmation EXCEPT ![req[r].of].status =
                        IF req[r].at = "updated" THEN "executed" ELSE "failed"]
  /\ req' = [req EXCEPT ![r] = NoRequest]
  /\ UNCHANGED <<matching, updates, unanswered>>

\* The process ends; nothing takes up a confirmation that is executing.
Crash ==
  /\ \E r \in Requests : req[r] # NoRequest
  /\ req' = [r \in Requests |-> NoRequest]
  /\ UNCHANGED <<matching, confirmation, updates, unanswered>>

Init ==
  /\ matching \in 0..MaxRows
  /\ confirmation = [c \in Confirmations |-> Absent]
  /\ updates = [c \in Confirmations |-> <<>>]
  /\ req = [r \in Requests |-> NoRequest]
  /\ unanswered = {}

Next ==
  \/ ChangeRows \/ Crash
  \/ \E c \in Confirmations : Preview(c) \/ Tick(c) \/ \E r \in Requests : Claim(r, c)
  \/ \E r \in Requests : Update(r) \/ UpdateFails(r) \/ Finish(r)

Spec == Init /\ [][Next]_vars

-------------------------------------------------------------------------------
(* Properties *)

\* Confirmations have a status of the model's, and a request at work has one of them.
TypeOK ==
  /\ matching \in 0..MaxRows /\ unanswered \subseteq Confirmations
  /\ \A c \in Confirmations :
       confirmation[c].status \in {"none", "pending", "expired", "executing", "executed", "failed"}
  /\ \A r \in Requests : req[r].at # "idle" => req[r].of \in Confirmations

\* A confirmation changes the target at most once, in as many rows as its preview
\* showed and never more than the limit, however often it is sent, and its recorded
\* outcome is what happened there; excused is a commit whose answer was lost.
UpdatesAsConfirmed ==
  \A c \in Confirmations :
    /\ updates[c] \in {<<>>, <<confirmation[c].rows>>} /\ confirmation[c].rows <= Limit
    /\ confirmation[c].status = "executed" => updates[c] # <<>>
    /\ confirmation[c].status \in {"none", "pending", "expired", "failed"} =>
         updates[c] = <<>> \/ c \in unanswered
===============================================================================
