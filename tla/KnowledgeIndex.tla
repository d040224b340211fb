---------------------------- MODULE KnowledgeIndex ----------------------------
(***************************************************************************)
(* The vector index of one knowledge base                                  *)
(* (backend/app/services/knowledge_bases.py, svn_knowledge.py, the routes  *)
(* knowledge_bases.py and smart_cases.py, and the durable task that runs   *)
(* it).  Settings and documents may change only while the base has no      *)
(* index task; a worker thread reads the base, builds a copy of the index, *)
(* replaces the published one and then, in a second session, marks the     *)
(* base and drops the documents marked for deletion.  FOR UPDATE is no     *)
(* lock on SQLite, so an upload that is still reading its files does not   *)
(* keep an index task from starting.                                       *)
(***************************************************************************)
EXTENDS Naturals, Sequences, FiniteSets

CONSTANTS
  Docs,         \* documents an administrator may upload, each once
  MaxTasks,     \* bound on index tasks
  MaxAttempts,  \* attempts of a task
  MaxConf,      \* bound on the base's settings and sources together
  MaxFaults     \* bound on crashes and on stalls of the event loop

VARIABLES
  base,       \* index_status of the base, its settings (model, chunks) and repositories
  rows,       \* each document's row: "none", "live", "pending" (delete), "gone"
  disk,       \* documents whose file exists
  uploading,  \* uploads still reading their file
  index,      \* the published index
  tasks,      \* the durable index tasks of the base
  threads,    \* executions of a task, with what they read
  missed,     \* documents that joined a task after a thread had read the rows
  overlapped, \* two threads have worked on the base at once
  faults      \* crashes and stalls so far

vars == <<base, rows, disk, uploading, index, tasks, threads, missed, overlapped, faults>>

\* Nothing is published; the base begins without a repository to synchronise.
NoIndex == [conf |-> 0, targets |-> 1, docs |-> {}, failed |-> {}, chunks |-> {}]
Status == {"idle", "queued", "running", "succeeded", "failed", "cancelled", "stale"}

\* active_index_task
ActiveTasks == {t \in DOMAIN tasks : tasks[t].status \in {"queued", "running"}}
Idle == ActiveTasks = {}

\* enqueue_index: an active task is reused; a stale base is synchronised whatever was asked.
Forced_Unforced(sync) == sync   \* Mutant: only what was asked
Forced(sync) == sync \/ base.status = "stale"
Enqueue(sync) ==
  IF Idle
    THEN /\ Len(tasks) < MaxTasks
         /\ tasks' = Append(tasks, [status |-> "queued", attempts |-> 0, lapsed |-> FALSE,
                                    cancel |-> FALSE, sync |-> Forced(sync)])
         /\ base' = [base EXCEPT !.status = IF @ = "stale" THEN @ ELSE "queued"]
    ELSE UNCHANGED <<tasks, base>>

\* update_base and update_provider, save_knowledge_source: refused while a task is active.
Configure ==
  /\ Idle /\ base.conf + base.repos <= MaxConf
  /\ base' = [base EXCEPT !.status = "stale", !.conf = @ + 1]
  /\ UNCHANGED <<rows, disk, uploading, index, tasks, threads, missed, overlapped, faults>>

SaveSource ==
  /\ Idle /\ base.conf + base.repos <= MaxConf
  /\ base' = [base EXCEPT !.status = "stale", !.repos = @ + 1]
  /\ UNCHANGED <<rows, disk, uploading, index, tasks, threads, missed, overlapped, faults>>

\* upload_documents: admitted while idle, the row is written when its file was read.
UploadBegins(d) ==
  /\ Idle /\ rows[d] = "none" /\ d \notin disk
  /\ uploading' = uploading \cup {d} /\ disk' = disk \cup {d}
  /\ UNCHANGED <<base, rows, index, tasks, threads, missed, overlapped, faults>>

UploadEnds(d) ==
  /\ d \in uploading
  /\ uploading' = uploading \ {d}
  /\ rows' = [rows EXCEPT ![d] = "live"]
  /\ missed' = IF threads = {} THEN missed ELSE missed \cup {d}
  /\ Enqueue(FALSE)
  /\ UNCHANGED <<disk, index, threads, overlapped, faults>>

UploadFails(d) ==
  /\ d \in uploading
  /\ uploading' = uploading \ {d} /\ disk' = disk \ {d}
  /\ UNCHANGED <<base, rows, index, tasks, threads, missed, overlapped, faults>>

DeleteDocument(d) ==
  /\ Idle /\ rows[d] = "live"
  /\ rows' = [rows EXCEPT ![d] = "pending"]
  /\ Enqueue(FALSE)
  /\ UNCHANGED <<disk, uploading, index, threads, missed, overlapped, faults>>

\* start_index and the scheduler's enqueue_due_svn_syncs
StartIndex ==
  /\ Idle /\ Enqueue(TRUE)
  /\ UNCHANGED <<rows, disk, uploading, index, threads, missed, overlapped, faults>>

\* cancel_index: a queued task ends at once, a running one when its thread notices.
CancelIndex(t) ==
  /\ t \in ActiveTasks /\ ~tasks[t].cancel
  /\ tasks' = [tasks EXCEPT ![t].cancel = TRUE,
                            ![t].status = IF @ = "queued" THEN "cancelled" ELSE @]
  /\ base' = IF tasks[t].status = "queued" /\ base.status # "stale"
               THEN [base EXCEPT !.status = "cancelled"] ELSE base
  /\ UNCHANGED <<rows, disk, uploading, index, threads, missed, overlapped, faults>>

\* claim_due_tasks and the execution it starts
Claimable(t) ==
  /\ tasks[t].attempts < MaxAttempts
  /\ tasks[t].status = "queued" \/ (tasks[t].status = "running" /\ tasks[t].lapsed)
Claim(t) ==
  /\ Claimable(t)
  /\ tasks' = [tasks EXCEPT ![t].status = "running", ![t].attempts = @ + 1, ![t].lapsed = FALSE]
  /\ threads' = threads \cup {[task |-> t, no |-> tasks[t].attempts + 1, at |-> "claimed",
                               conf |-> 0, repos |-> 0, docs |-> {}, built |-> NoIndex,
                               failed |-> FALSE]}
  /\ overlapped' = (overlapped \/ threads # {})
  /\ UNCHANGED <<base, rows, disk, uploading, index, missed, faults>>

Goes(th, new) == threads' = (threads \ {th}) \cup {new}

\* execute_index, first session: the settings and the documents not to be deleted
Wanted_All == {d \in Docs : rows[d] \in {"live", "pending"}}   \* Mutant: the marked ones too
Wanted == {d \in Docs : rows[d] = "live"}
Read(th) ==
  /\ th.at = "claimed"
  /\ Goes(th, [th EXCEPT !.at = "read", !.conf = base.conf, !.repos = base.repos,
                             !.docs = Wanted])
  /\ base' = [base EXCEPT !.status = IF @ = "stale" THEN @ ELSE "running"]
  /\ UNCHANGED <<rows, disk, uploading, index, tasks, missed, overlapped, faults>>

\* check_cancelled
Stopped(th) == tasks[th.task].cancel \/ tasks[th.task].status = "cancelled"

\* _build_manifest and the copy that _publish_vector_index prepares: what differs from
\* the published manifest, or failed then, is extracted again; some of it may fail.
Changed(th) ==
  IF index.conf # th.conf THEN th.docs ELSE th.docs \ (index.docs \ index.failed)
Kept(th) == IF index.conf # th.conf THEN {} ELSE (index.chunks \cap th.docs) \ Changed(th)
\* The working copies are brought to the base's repositories, or left as published.
Synchronised(th) == IF tasks[th.task].sync THEN th.repos ELSE index.targets
Built(th, bad) ==
  [conf |-> th.conf, docs |-> th.docs, failed |-> bad,
   targets |-> Synchronised(th),
   chunks |-> Kept(th) \cup (Changed(th) \ bad)]
Build(th) ==
  /\ th.at = "read" /\ ~Stopped(th) /\ th.docs \subseteq disk
  /\ \E bad \in SUBSET Changed(th) :
       /\ Built(th, bad).chunks # {} \/ th.docs = {}
       /\ Goes(th, [th EXCEPT !.at = "ready", !.built = Built(th, bad)])
  /\ UNCHANGED <<base, rows, disk, uploading, index, tasks, missed, overlapped, faults>>

\* os.replace, after a last check for cancellation
Publish(th) ==
  /\ th.at = "ready"
  /\ index' = th.built
  /\ Goes(th, [th EXCEPT !.at = "published"])
  /\ UNCHANGED <<base, rows, disk, uploading, tasks, missed, overlapped, faults>>

\* The second session: files first, then the rows.
Finish(th) ==
  /\ th.at = "published"
  /\ base' = [base EXCEPT !.status = "succeeded"]
  /\ disk' = {d \in disk : rows[d] # "pending"}
  /\ rows' = [d \in Docs |-> IF rows[d] = "pending" THEN "gone" ELSE rows[d]]
  /\ Goes(th, [th EXCEPT !.at = "ended"])
  /\ UNCHANGED <<uploading, index, tasks, missed, overlapped, faults>>

Marked(status) == base' = [base EXCEPT !.status = IF @ = "stale" THEN @ ELSE status]
Raise(th) ==
  /\ th.at \in {"claimed", "read", "ready", "published"}
  /\ Marked("failed")
  /\ Goes(th, [th EXCEPT !.at = "ended", !.failed = TRUE])
  /\ UNCHANGED <<rows, disk, uploading, index, tasks, missed, overlapped, faults>>

NoticeCancel(th) ==
  /\ th.at = "read" /\ Stopped(th)
  /\ Marked("cancelled")
  /\ tasks' = [tasks EXCEPT ![th.task].status = "cancelled"]
  /\ Goes(th, [th EXCEPT !.at = "ended"])
  /\ UNCHANGED <<rows, disk, uploading, index, missed, overlapped, faults>>

\* execute_claimed_task, after the thread: settles a task that is still running.
Outcome(th) ==
  IF ~th.failed THEN "succeeded"
  ELSE IF tasks[th.task].attempts >= MaxAttempts THEN "failed" ELSE "queued"
Settle(th) ==
  /\ th.at = "ended"
  /\ threads' = threads \ {th}
  /\ tasks' = IF tasks[th.task].status = "running"
                THEN [tasks EXCEPT ![th.task].status = Outcome(th), ![th.task].lapsed = FALSE]
                ELSE tasks
  /\ UNCHANGED <<base, rows, disk, uploading, index, missed, overlapped, faults>>

\* The lease of a task passes its end: no process renews it, or the event loop was
\* kept from running for as long; in the latter case the heartbeat may yet renew it.
Carried(t) == \E th \in threads : th.task = t
Lapse(t) ==
  /\ tasks[t].status = "running" /\ ~tasks[t].lapsed
  /\ Carried(t) => faults < MaxFaults
  /\ faults' = IF Carried(t) THEN faults + 1 ELSE faults
  /\ tasks' = [tasks EXCEPT ![t].lapsed = TRUE]
  /\ UNCHANGED <<base, rows, disk, uploading, index, threads, missed, overlapped>>
Renew(t) ==
  /\ tasks[t].status = "running" /\ tasks[t].lapsed /\ Carried(t)
  /\ tasks' = [tasks EXCEPT ![t].lapsed = FALSE]
  /\ UNCHANGED <<base, rows, disk, uploading, index, threads, missed, overlapped, faults>>

\* The process dies and starts again; recover_abandoned_tasks queues what lapsed meanwhile.
Crash ==
  /\ faults < MaxFaults /\ faults' = faults + 1
  /\ threads' = {} /\ uploading' = {}
  /\ \E lapsed \in {TRUE, FALSE} :
       tasks' = [t \in DOMAIN tasks |->
         IF tasks[t].status = "running" /\ lapsed
           THEN IF tasks[t].attempts < MaxAttempts
                  THEN [tasks[t] EXCEPT !.status = "queued", !.lapsed = FALSE]
                  ELSE [tasks[t] EXCEPT !.lapsed = TRUE]
           ELSE tasks[t]]
  /\ UNCHANGED <<base, rows, disk, index, missed, overlapped>>

Init ==
  /\ base = [status |-> "idle", conf |-> 1, repos |-> 1]
  /\ rows = [d \in Docs |-> "none"] /\ disk = {} /\ uploading = {}
  /\ index = NoIndex /\ tasks = <<>> /\ threads = {}
  /\ missed = {} /\ overlapped = FALSE /\ faults = 0

Next ==
  \/ Configure \/ SaveSource \/ StartIndex \/ Crash
  \/ \E d \in Docs : UploadBegins(d) \/ UploadEnds(d) \/ UploadFails(d) \/ DeleteDocument(d)
  \/ \E t \in DOMAIN tasks : CancelIndex(t) \/ Claim(t) \/ Lapse(t) \/ Renew(t)
  \/ \E th \in threads : \/ Read(th) \/ Build(th) \/ Publish(th) \/ Finish(th)
                         \/ Raise(th) \/ NoticeCancel(th) \/ Settle(th)

Spec == Init /\ [][Next]_vars

-----------------------------------------------------------------------------
(* Properties *)

\* The program's records hold what it may write.
TypeOK ==
  /\ base.status \in Status /\ {base.conf, base.repos} \subseteq 1..MaxConf
  /\ rows \in [Docs -> {"none", "live", "pending", "gone"}]
  /\ disk \subseteq Docs /\ uploading \subseteq disk /\ missed \subseteq Docs
  /\ index.conf \in 0..MaxConf /\ index.docs \subseteq Docs
  /\ \A th \in threads : th.task \in DOMAIN tasks

\* While no two threads have overlapped: a base marked succeeded, with nothing at work,
\* publishes what it stands for: the current settings, synchronised repositories, and
\* every live document, searchable or listed as failed; the documents that joined the
\* task while it ran are the exception the code lets through.
SucceededIsCurrent ==
  base.status = "succeeded" /\ Idle /\ threads = {} /\ ~overlapped =>
    /\ index.conf = base.conf /\ index.targets = base.repos
    /\ Wanted \ missed \subseteq index.chunks \cup index.failed
    /\ index.docs \subseteq Wanted

\* A document whose deletion was completed is no longer searchable, whatever attempts,
\* cancellations and crashes came between its marking and its removal; and a document
\* that is kept never loses its file to the deletion of others.
DeletionIsComplete ==
  /\ ~overlapped => \A d \in index.chunks : rows[d] # "gone"
  /\ \A d \in Docs : rows[d] = "live" => d \in disk
=============================================================================
