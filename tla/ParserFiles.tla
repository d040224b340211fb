----------------------------- MODULE ParserFiles -----------------------------
(***************************************************************************)
(* The files of a parser step and the rows that describe them              *)
(* (backend/app/services/workflows.py and two routes of runs.py).  A table *)
(* of the trading database is exported to a csv file, on request or while  *)
(* a terminal prepares the step; the file is renamed over the last export  *)
(* and only then its checksum is saved.  When the step is completed, the   *)
(* csv files the parser wrote replace those of an earlier attempt and      *)
(* their rows are saved with the completed step; a step that is confirmed  *)
(* succeeds without them.  Files and rows never change together: a lost    *)
(* save, a conflict or a crash comes in between.                           *)
(*                                                                         *)
(* A file is its revision; a checksum is the revision it was taken of.     *)
(***************************************************************************)
EXTENDS Naturals, FiniteSets

CONSTANTS
  Tables,    \* the tables a parser run needs
  Exporters, \* export requests in flight
  Requests,  \* completion requests in flight
  MaxRev     \* bound on the revisions of the tables and of the outputs

VARIABLES
  data,      \* the revision of the trading database
  inputFile, \* revision of each <table>.csv on disk, 0: none
  inputRow,  \* committed checksum of each input's artifact row
  summary,   \* committed result_summary: exports, and what a preparation uploaded
  exporting, \* export requests awaiting the database
  prep,      \* the terminal's preparation with its flushed, uncommitted rows
  step,      \* "ready" (pending or failed), "waiting" or "succeeded"
  remote,    \* revision of the csv files in the parser's directory
  outFile,   \* revision of the collected outputs on disk
  outRow,    \* committed checksum of their artifact rows
  collecting,\* completion requests with what they downloaded
  excused    \* what has come between files and rows

inVars == <<inputFile, inputRow, summary, exporting, prep>>
outVars == <<remote, outFile, outRow, collecting>>
vars == <<data, inVars, step, outVars, excused>>

None == [t \in Tables |-> 0]
Empty == [exports |-> None, prepared |-> FALSE, sums |-> None, uploads |-> None, before |-> 0]
Idle == [at |-> "idle", todo |-> {}, row |-> None, exports |-> None,
         sums |-> None, uploads |-> None, before |-> 0]

\* The trading database and the parser's directory change by themselves; a parser may
\* outlive the terminal and the attempt it was started in.
DataChanges ==
  /\ data < MaxRev /\ data' = data + 1
  /\ UNCHANGED <<inVars, step, outVars, excused>>
ParserWrites ==
  /\ summary.prepared /\ step # "succeeded"
  /\ remote < MaxRev /\ remote' = remote + 1
  /\ UNCHANGED <<data, inVars, step, outFile, outRow, collecting, excused>>

\* export_run_parser_table up to its await; the step's summary is loaded before it.
ExportBegins(r, t) ==
  /\ step = "ready" /\ \A e \in exporting : e.id # r
  /\ exporting' = exporting \cup {[id |-> r, table |-> t, seen |-> summary]}
  /\ UNCHANGED <<data, inputFile, inputRow, summary, prep, step, outVars, excused>>

\* export_parser_table_snapshot after it: rename, register, rewrite the summary it
\* loaded, commit.  Nothing compares the step, so a request that outlives the start
\* of the step erases what the preparation left; while a preparation holds the write
\* lock the save fails and only the rename remains.
ExportReturns(e) ==
  /\ exporting' = exporting \ {e}
  /\ inputFile' = [inputFile EXCEPT ![e.table] = data]
  /\ IF prep.at # "idle"
       THEN /\ excused' = excused \cup {"export in preparation"}
            /\ UNCHANGED <<inputRow, summary>>
       ELSE /\ inputRow' = [inputRow EXCEPT ![e.table] = data]
            /\ summary' = [e.seen EXCEPT !.exports[e.table] = data]
            /\ excused' = excused \cup IF step = "ready" THEN {} ELSE {"late export"}
  /\ UNCHANGED <<data, prep, step, outVars>>

ExportFails(e) ==
  /\ exporting' = exporting \ {e}
  /\ UNCHANGED <<data, inputFile, inputRow, summary, prep, step, outVars, excused>>

\* prepare_parser_terminal_node, its step flushed as running.
PrepBegins ==
  /\ step = "ready" /\ prep.at = "idle"
  /\ prep' = [Idle EXCEPT !.at = "inputs", !.todo = Tables, !.row = inputRow,
                          !.exports = summary.exports]
  /\ UNCHANGED <<data, inputFile, inputRow, summary, exporting, step, outVars, excused>>

\* _valid_parser_input_snapshot: the file, its row and the summary agree.
Valid_NoFile(t) ==   \* Mutant: the file itself is not looked at
  prep.exports[t] # 0 /\ prep.exports[t] = prep.row[t]
Valid(t) ==
  prep.exports[t] # 0 /\ prep.exports[t] = prep.row[t] /\ inputFile[t] = prep.row[t]

PrepReuses(t) ==
  /\ prep.at = "inputs" /\ t \in prep.todo /\ Valid(t)
  /\ prep' = [prep EXCEPT !.todo = @ \ {t}]
  /\ UNCHANGED <<data, inputFile, inputRow, summary, exporting, step, outVars, excused>>

PrepExports(t) ==
  /\ prep.at = "inputs" /\ t \in prep.todo /\ ~Valid(t)
  /\ inputFile' = [inputFile EXCEPT ![t] = data]
  /\ prep' = [prep EXCEPT !.todo = @ \ {t}, !.row[t] = data, !.exports[t] = data]
  /\ UNCHANGED <<data, inputRow, summary, exporting, step, outVars, excused>>

\* Checksums of the files, read from disk once all are there, and a snapshot of the csv
\* files that are already in the parser's directory; then the uploads.
PrepSums ==
  /\ prep.at = "inputs" /\ prep.todo = {}
  /\ prep' = [prep EXCEPT !.at = "uploads", !.todo = Tables, !.sums = inputFile, !.before = remote]
  /\ UNCHANGED <<data, inputFile, inputRow, summary, exporting, step, outVars, excused>>
PrepUploads(t) ==
  /\ prep.at = "uploads" /\ t \in prep.todo
  /\ prep' = [prep EXCEPT !.todo = @ \ {t}, !.uploads[t] = inputFile[t]]
  /\ UNCHANGED <<data, inputFile, inputRow, summary, exporting, step, outVars, excused>>

PrepCommits ==
  /\ prep.at = "uploads" /\ prep.todo = {}
  /\ inputRow' = prep.row /\ step' = "waiting" /\ prep' = Idle
  /\ summary' = [exports |-> prep.exports, prepared |-> TRUE, sums |-> prep.sums,
                 uploads |-> prep.uploads, before |-> prep.before]
  /\ UNCHANGED <<data, inputFile, exporting, outVars, excused>>

\* The failure of a preparation commits the rows it has flushed; a session that
\* ends rolls them back.
PrepFails ==
  /\ prep.at # "idle" /\ prep' = Idle
  /\ inputRow' = prep.row /\ summary' = [summary EXCEPT !.exports = prep.exports]
  /\ UNCHANGED <<data, inputFile, exporting, step, outVars, excused>>
PrepCancelled ==
  /\ prep.at # "idle" /\ prep' = Idle
  /\ UNCHANGED <<data, inputFile, inputRow, summary, exporting, step, outVars, excused>>

\* _changed_parser_csv_files: what differs from the snapshot of the preparation
Changed == remote > summary.before

\* complete_run_step and collect_parser_outputs up to the downloads.
CollectBegins(r) ==
  /\ step = "waiting" /\ summary.prepared /\ Changed
  /\ \A c \in collecting : c.id # r
  /\ collecting' = collecting \cup {[id |-> r, rev |-> remote, fresh |-> TRUE]}
  /\ UNCHANGED <<data, inVars, step, remote, outFile, outRow, excused>>

Stale(cs) == {[c EXCEPT !.fresh = FALSE] : c \in cs}
Registered(c) == c.rev

\* The files are replaced, their rows and the completed step saved at once.
CollectSaves(c) ==
  /\ c.fresh
  /\ outFile' = c.rev /\ outRow' = Registered(c) /\ step' = "succeeded"
  /\ collecting' = Stale(collecting \ {c})
  /\ UNCHANGED <<data, inVars, remote, excused>>
\* A row cannot be saved: the files are put back.  The same with a failed download.
CollectUndone(c) ==
  /\ collecting' = collecting \ {c}
  /\ UNCHANGED <<data, inVars, step, remote, outFile, outRow, excused>>
\* The run has changed: the save is refused after the backups were removed.
CollectConflicts(c) ==
  /\ ~c.fresh
  /\ outFile' = c.rev
  /\ collecting' = collecting \ {c}
  /\ excused' = excused \cup {"conflict"}
  /\ UNCHANGED <<data, inVars, step, remote, outRow>>

\* confirm_run_step: a waiting step succeeds as it is, nothing is collected.
Confirm ==
  /\ step = "waiting" /\ step' = "succeeded"
  /\ collecting' = Stale(collecting)
  /\ excused' = excused \cup {"confirmed"}
  /\ UNCHANGED <<data, inVars, remote, outFile, outRow>>

\* A pause and a resume leave the step as it is, and every loaded run stale.
RunChanges ==
  /\ step = "waiting" /\ collecting # {} /\ collecting' = Stale(collecting)
  /\ UNCHANGED <<data, inVars, step, remote, outFile, outRow, excused>>

\* The terminal is gone: the step has failed and may be prepared again.
Disconnect ==
  /\ step = "waiting" /\ step' = "ready"
  /\ collecting' = Stale(collecting)
  /\ UNCHANGED <<data, inVars, remote, outFile, outRow, excused>>

Crash ==
  /\ exporting' = {} /\ prep' = Idle /\ collecting' = {}
  /\ \/ UNCHANGED <<inputFile, outFile>>
     \/ \E e \in exporting : \* between a rename and its save
          inputFile' = [inputFile EXCEPT ![e.table] = data] /\ UNCHANGED outFile
     \/ \E c \in collecting : outFile' = c.rev /\ UNCHANGED inputFile
  /\ excused' = IF outFile' = outFile THEN excused ELSE excused \cup {"crash"}
  /\ UNCHANGED <<data, inputRow, summary, step, remote, outRow>>

Init ==
  /\ data = 1 /\ inputFile = None /\ inputRow = None /\ summary = Empty
  /\ exporting = {} /\ prep = Idle /\ step = "ready"
  /\ remote = 0 /\ outFile = 0 /\ outRow = 0 /\ collecting = {} /\ excused = {}

Next ==
  \/ DataChanges \/ ParserWrites \/ Confirm \/ RunChanges \/ Disconnect \/ Crash
  \/ \E r \in Exporters, t \in Tables : ExportBegins(r, t)
  \/ \E e \in exporting : ExportReturns(e) \/ ExportFails(e)
  \/ PrepBegins \/ PrepSums \/ PrepCommits \/ PrepFails \/ PrepCancelled
  \/ \E t \in Tables : PrepReuses(t) \/ PrepExports(t) \/ PrepUploads(t)
  \/ \E r \in Requests : CollectBegins(r)
  \/ \E c \in collecting : CollectSaves(c) \/ CollectUndone(c) \/ CollectConflicts(c)

Spec == Init /\ [][Next]_vars

----------------------------------------------------------------------------
(* Properties *)

\* Files and rows are revisions there were; requests in flight stay within their bounds.
TypeOK ==
  /\ data \in 1..MaxRev /\ remote \in 0..MaxRev
  /\ inputFile \in [Tables -> 0..MaxRev] /\ inputRow \in [Tables -> 0..MaxRev]
  /\ prep.at \in {"idle", "inputs", "uploads"} /\ prep.todo \subseteq Tables
  /\ step \in {"ready", "waiting", "succeeded"}
  /\ outFile \in 0..MaxRev /\ outRow \in 0..MaxRev
  /\ Cardinality(exporting) <= Cardinality(Exporters)
  /\ Cardinality(collecting) <= Cardinality(Requests)
  /\ excused \subseteq {"export in preparation", "late export", "conflict", "confirmed", "crash"}

\* What the parser was given is what the committed rows say it was given: reused
\* files were verified, whatever requests, crashes and rolled back preparations
\* left on disk, unless an export request overlapped the preparation.  The outputs of
\* a completed step are those its rows carry the checksums of, unless a second
\* completion lost its race or a crash cut one short; and unless it was confirmed instead
\* of completed, they appeared after the attempt was prepared: those of an earlier attempt
\* are not collected again.
ParserFilesAsRecorded ==
  /\ (step # "ready" /\ excused \cap {"export in preparation", "late export"} = {}) =>
       summary.uploads = summary.sums /\ summary.uploads = inputRow
  /\ (step = "succeeded" /\ excused \cap {"conflict", "crash"} = {}) => outFile = outRow
  /\ (step = "succeeded" /\ excused \cap {"late export", "confirmed"} = {}) =>
       outRow > summary.before
=============================================================================
