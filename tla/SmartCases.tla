------------------------------ MODULE SmartCases ------------------------------
(***************************************************************************)
(* The generation of one set of test cases                                 *)
(* (backend/app/services/smart_case_generation.py, the routes              *)
(* smart_cases.py and the durable task that executes it).  The generation  *)
(* is created for a publication of the knowledge index; a worker thread    *)
(* checks that publication, reads the requirement and its references,      *)
(* checks again, asks the language model, replaces the workbook and at     *)
(* last stores its checksum.  The task is retried after failures and after *)
(* a lapsed lease, and the index may be published anew at any time.        *)
(***************************************************************************)
EXTENDS Naturals, FiniteSets

CONSTANTS
  MaxPub,       \* bound on publications of the index
  MaxAttempts,  \* attempts of the durable task
  MaxFaults     \* bound on crashes and stalls

VARIABLES
  pub,          \* the index's publication, unique to it
  gen,          \* the generation's row
  book,         \* the workbook on disk: the attempt that wrote it, 0: none
  task,         \* the durable task
  work,         \* executing threads, with what they read
  overlapped,   \* two threads have executed the generation at once
  faults        \* crashes and stalls so far

vars == <<pub, gen, book, task, work, overlapped, faults>>

NoTask == [status |-> "none", attempts |-> 0, lapsed |-> FALSE]

\* create_generation and revise_generation: the row and its task in one transaction
Create ==
  /\ gen.status = "none"
  /\ \E revises \in BOOLEAN :
       gen' = [status |-> "queued", pub |-> pub, revises |-> revises, sum |-> 0, sources |-> {}]
  /\ task' = [NoTask EXCEPT !.status = "queued"]
  /\ UNCHANGED <<pub, book, work, overlapped, faults>>

\* An index task publishes (KnowledgeIndex!Publish).
PublishIndex ==
  /\ pub < MaxPub /\ pub' = pub + 1
  /\ UNCHANGED <<gen, book, task, work, overlapped, faults>>

\* claim_task
Claim ==
  /\ task.attempts < MaxAttempts
  /\ task.status = "queued" \/ (task.status = "running" /\ task.lapsed)
  /\ task' = [status |-> "running", attempts |-> task.attempts + 1, lapsed |-> FALSE]
  /\ work' = work \cup {[no |-> task.attempts + 1, at |-> "claimed", sources |-> {}, failed |-> FALSE]}
  /\ overlapped' = (overlapped \/ work # {})
  /\ UNCHANGED <<pub, gen, book, faults>>

Goes(w, new) == work' = (work \ {w}) \cup {new}

\* execute_smart_case_generation: nothing is done twice for a generation that succeeded.
Done == gen.status = "succeeded"
Begin(w) ==
  /\ w.at = "claimed"
  /\ IF Done THEN Goes(w, [w EXCEPT !.at = "ended"]) /\ UNCHANGED gen
     ELSE /\ gen' = [gen EXCEPT !.status = "running"]
          /\ Goes(w, [w EXCEPT !.at = IF gen.revises THEN "asking" ELSE "begun"])
  /\ UNCHANGED <<pub, book, task, overlapped, faults>>

\* index_ready and index_revisions, before and after the index is read
Check(w) ==
  /\ w.at = "begun" /\ gen.pub = pub
  /\ Goes(w, [w EXCEPT !.at = "checked"])
  /\ UNCHANGED <<pub, gen, book, task, overlapped, faults>>
ReadIndex(w) ==   \* get_indexed_document, then search_vector_index
  /\ w.at \in {"checked", "document"}
  /\ Goes(w, [w EXCEPT !.at = IF @ = "checked" THEN "document" ELSE "searched",
                       !.sources = @ \cup {pub}])
  /\ UNCHANGED <<pub, gen, book, task, overlapped, faults>>
Unchanged_Unread == TRUE   \* Mutant: not checked again
Unchanged == gen.pub = pub
CheckAgain(w) ==
  /\ w.at = "searched" /\ Unchanged
  /\ Goes(w, [w EXCEPT !.at = "asking"])
  /\ UNCHANGED <<pub, gen, book, task, overlapped, faults>>

\* generate_cases or revise_cases returned; build_workbook replaces the file.
BuildWorkbook(w) ==
  /\ w.at = "asking"
  /\ book' = w.no
  /\ Goes(w, [w EXCEPT !.at = "built"])
  /\ UNCHANGED <<pub, gen, task, overlapped, faults>>

\* The digest of the file as it is, then the row.
Save(w) ==
  /\ w.at = "built"
  /\ gen' = [gen EXCEPT !.status = "succeeded", !.sum = book, !.sources = w.sources]
  /\ Goes(w, [w EXCEPT !.at = "ended"])
  /\ UNCHANGED <<pub, book, task, overlapped, faults>>

\* download_generation, _generation_out: what is offered for download
Offered == gen.status = "succeeded" /\ gen.sum # 0

\* Any step may raise; what was read or checked is given up and the row marked.
Raise(w) ==
  /\ w.at \notin {"claimed", "ended"}
  /\ gen' = [gen EXCEPT !.status = "failed"]
  /\ Goes(w, [w EXCEPT !.at = "ended", !.failed = TRUE])
  /\ UNCHANGED <<pub, book, task, overlapped, faults>>

\* execute_claimed_task settles the task if it still runs.
Settle(w) ==
  /\ w.at = "ended"
  /\ work' = work \ {w}
  /\ task' = IF task.status # "running" THEN task
             ELSE [task EXCEPT !.lapsed = FALSE,
                     !.status = IF ~w.failed THEN "succeeded"
                                ELSE IF task.attempts >= MaxAttempts THEN "failed" ELSE "queued"]
  /\ UNCHANGED <<pub, gen, book, overlapped, faults>>

\* The lease runs out behind a dead process, or behind a stalled event loop.
Lapse ==
  /\ task.status = "running" /\ ~task.lapsed
  /\ work # {} => faults < MaxFaults
  /\ faults' = IF work # {} THEN faults + 1 ELSE faults
  /\ task' = [task EXCEPT !.lapsed = TRUE]
  /\ UNCHANGED <<pub, gen, book, work, overlapped>>

Crash ==
  /\ work # {} /\ faults < MaxFaults
  /\ faults' = faults + 1 /\ work' = {}
  /\ UNCHANGED <<pub, gen, book, task, overlapped>>

Init ==
  /\ pub = 1
  /\ gen = [status |-> "none", pub |-> 0, revises |-> FALSE, sum |-> 0, sources |-> {}]
  /\ book = 0 /\ task = NoTask /\ work = {} /\ overlapped = FALSE /\ faults = 0

Next ==
  \/ Create \/ PublishIndex \/ Claim \/ Lapse \/ Crash
  \/ \E w \in work : \/ Begin(w) \/ Check(w) \/ ReadIndex(w) \/ CheckAgain(w)
                     \/ BuildWorkbook(w) \/ Save(w) \/ Raise(w) \/ Settle(w)

Spec == Init /\ [][Next]_vars

-----------------------------------------------------------------------------
(* Properties *)

\* The rows hold what the program may write.
TypeOK ==
  /\ gen.status \in {"none", "queued", "running", "succeeded", "failed"}
  /\ gen.pub \in 0..MaxPub /\ gen.sources \subseteq 1..MaxPub
  /\ task.attempts \in 0..MaxAttempts /\ Cardinality(work) <= MaxAttempts

\* What is offered for download is the workbook whose checksum was stored, through
\* retries and crashes, while no two threads overlapped; and the sources it records
\* were all read from the publication the requirement was chosen in.
DownloadIsSound ==
  Offered =>
    /\ ~overlapped => gen.sum = book
    /\ gen.sources \subseteq {gen.pub}
=============================================================================
