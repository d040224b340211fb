------------------------------- MODULE Captures -------------------------------
(***************************************************************************)
(* Configuration captures and the wiring they describe                     *)
(* (backend/app/services/workflow_capture.py, workflow_handlers/capture.py,*)
(* wiring_profiles.py and the routes of runs and workflows).  A capture    *)
(* reads one target after the other and commits a snapshot before and      *)
(* after each; a target may be missing or one of these commits refused.    *)
(* An operator may preview the same node.  When all targets                *)
(* succeeded, the interfaces found on the REM host become those of the     *)
(* wiring step, which opens at once for an operator who may correct them   *)
(* and confirms them.  An edit writes the step without touching the run,   *)
(* so that the run's version does not tell it from a confirmation.         *)
(***************************************************************************)
EXTENDS Naturals, Sequences, FiniteSets

CONSTANTS
  Targets,    \* the hosts of a server capture in their order, among them Rem
  Rem,
  Database,   \* the one target of a database capture
  Clear,      \* revisions of the REM's interfaces that tell the client's from the market's
  MaxRev,     \* bound on the revisions of the REM's interfaces
  MaxSnaps,   \* bound on the snapshots
  MaxFaults,  \* bound on crashes, captures that overlap another, errors and refused commits
  Previewers, \* preview requests in flight
  Editors     \* edits of the wiring in flight

VARIABLES
  node,       \* "server" or "database"
  interfaces, \* revision of the REM's interfaces
  run,        \* status of the capture and wiring steps, and the run's version
  wiring,     \* the interfaces of the wiring step
  snaps,      \* the snapshots in the order of their creation
  execs,      \* captures at work
  edits,      \* edits that have loaded the step
  confirming, \* a confirmation that has loaded the run
  excused,    \* what has come between
  faults      \* how many of what MaxFaults bounds there have been

vars == <<node, interfaces, run, wiring, snaps, execs, edits, confirming, excused, faults>>

ToCapture == IF node = "server" THEN Targets ELSE <<Database>>
None == [by |-> "nobody", rev |-> 0]
Goes(e, new) == execs' = (execs \ {e}) \cup {new}

InterfacesChange ==
  /\ interfaces < MaxRev /\ interfaces' = interfaces + 1
  /\ UNCHANGED <<node, run, wiring, snaps, execs, edits, confirming, excused, faults>>

Joins(scope, id, version) ==
  /\ Len(snaps) < MaxSnaps /\ \A e \in execs : e.scope = scope => e.id # id
  /\ execs' = execs \cup {[scope |-> scope, id |-> id, version |-> version, at |-> 0, mine |-> <<>>]}
  /\ IF \E e \in execs : e.scope = scope
       THEN faults < MaxFaults /\ faults' = faults + 1
       ELSE UNCHANGED faults
  /\ UNCHANGED <<node, interfaces, run, wiring, snaps, edits, confirming, excused>>

\* The step's task: its lease may have run out in a live process, which runs it twice, and
\* it is executed again after a commit of its first execution was refused.
BeginCapture ==
  /\ run.capture = "running"
  /\ \E id \in {1, 2} :
       /\ id = 2 => \E e \in execs : e.scope = "run" /\ e.id = 1
       /\ Joins("run", id, run.version)
\* preview_workflow_node
BeginPreview(p) == Joins("preview", p, 0)

\* Numbers are counted per node, scope and resource; nothing is awaited between the count
\* and the commit of the snapshot that takes the number.
Attempt(e, t) ==
  Cardinality({i \in DOMAIN snaps : snaps[i].scope = e.scope /\ snaps[i].target = t}) + 1

\* capture_server, capture_database: a snapshot is committed as running before the host
\* is asked, whatever has become of the run.
Open(e) ==
  /\ e.at = 0 /\ Len(e.mine) < Len(ToCapture) /\ Len(snaps) < MaxSnaps
  /\ LET t == ToCapture[Len(e.mine) + 1]
     IN snaps' = Append(snaps, [scope |-> e.scope, target |-> t, attempt |-> Attempt(e, t),
                                status |-> "running", rev |-> 0])
  /\ Goes(e, [e EXCEPT !.at = Len(snaps) + 1, !.mine = Append(@, Len(snaps) + 1)])
  /\ UNCHANGED <<node, interfaces, run, wiring, edits, confirming, excused, faults>>
OpenServer(e) == node = "server" /\ Open(e)
OpenDatabase(e) == node = "database" /\ Open(e)

\* A field or key that could not be read fails its snapshot and does not stop the capture.
Read(e) ==
  /\ e.at # 0
  /\ \E status \in {"succeeded", "failed"} :
       snaps' = [snaps EXCEPT ![e.at].status = status,
                              ![e.at].rev = IF snaps[e.at].target = Rem THEN interfaces ELSE 0]
  /\ Goes(e, [e EXCEPT !.at = 0])
  /\ UNCHANGED <<node, interfaces, run, wiring, edits, confirming, excused, faults>>

Done(e) == e.at = 0 /\ Len(e.mine) = Len(ToCapture)
Failed(e) == \E i \in DOMAIN e.mine : snaps[e.mine[i]].status = "failed"

\* Mutant: what the latest snapshot of the host shows, whoever made it
Found_Latest(e) ==
  LET rems == {i \in DOMAIN snaps : snaps[i].target = Rem}
  IN IF rems = {} THEN 0 ELSE snaps[CHOOSE i \in rems : \A j \in rems : j <= i].rev
\* refresh_pending_wiring_snapshots: the interfaces of this execution's own snapshot
Found(e) ==
  LET rems == {i \in DOMAIN e.mine : snaps[e.mine[i]].target = Rem}
  IN IF rems = {} THEN 0 ELSE snaps[e.mine[CHOOSE i \in rems : TRUE]].rev

PreviewEnds(e) ==
  /\ e.scope = "preview" /\ Done(e)
  /\ execs' = execs \ {e}
  /\ UNCHANGED <<node, interfaces, run, wiring, snaps, edits, confirming, excused, faults>>

Moves(capture, wiringStep, by) ==
  run' = [run EXCEPT !.capture = capture, !.wiring = wiringStep, !.version = @ + 1, !.by = by]

\* The capture completes its own step and opens the wiring step, all at once.
CaptureSucceeds(e) ==
  /\ e.scope = "run" /\ Done(e) /\ ~Failed(e)
  /\ execs' = execs \ {e}
  /\ IF e.version = run.version
       THEN /\ Moves("succeeded", "waiting", e.mine)
            /\ wiring' = IF node = "server" THEN [by |-> "capture", rev |-> Found(e)] ELSE wiring
       ELSE UNCHANGED <<run, wiring>>
  /\ UNCHANGED <<node, interfaces, snaps, edits, confirming, excused, faults>>

\* _capture_summary raises: the step fails and names its snapshots.
CaptureFails(e) ==
  /\ e.scope = "run" /\ Done(e) /\ Failed(e)
  /\ execs' = execs \ {e}
  /\ IF e.version = run.version
       THEN Moves("failed", run.wiring, e.mine) ELSE UNCHANGED run
  /\ UNCHANGED <<node, interfaces, wiring, snaps, edits, confirming, excused, faults>>

\* No resource for the target, or a database its settings do not allow: the step fails
\* before a snapshot is made and names what it named before; a preview is answered.
CaptureRaises(e) ==
  /\ e.at = 0 /\ Len(e.mine) < Len(ToCapture)
  /\ execs' = execs \ {e}
  /\ faults < MaxFaults /\ faults' = faults + 1
  /\ excused' = excused \cup {"error"}
  /\ IF e.scope = "run" /\ e.version = run.version
       THEN Moves("failed", run.wiring, run.by) ELSE UNCHANGED run
  /\ UNCHANGED <<node, interfaces, wiring, snaps, edits, confirming>>

\* A commit is refused, before or after a target or at the end: the session cannot load
\* the run again to fail it, the step stays running and its task is executed once more.
SaveRefused(e) ==
  /\ execs' = execs \ {e}
  /\ faults < MaxFaults /\ faults' = faults + 1
  /\ excused' = excused \cup (IF e.at = 0 THEN {} ELSE {"refused"})
  /\ UNCHANGED <<node, interfaces, run, wiring, snaps, edits, confirming>>

Retry ==
  /\ run.capture = "failed" /\ run.wiring = "pending" /\ Moves("running", run.wiring, run.by)
  /\ UNCHANGED <<node, interfaces, wiring, snaps, execs, edits, confirming, excused, faults>>
Cancel ==
  /\ run.wiring \in {"pending", "waiting"}
  /\ Moves(IF run.capture = "running" THEN "cancelled" ELSE run.capture, "cancelled", run.by)
  /\ UNCHANGED <<node, interfaces, wiring, snaps, execs, edits, confirming, excused, faults>>

\* update_wiring_interface_names: loads the step; complete interfaces are required.
EditBegins(r) ==
  /\ run.wiring = "waiting" /\ r \notin edits
  /\ edits' = edits \cup {r}
  /\ UNCHANGED <<node, interfaces, run, wiring, snaps, execs, confirming, excused, faults>>
EditSaves(r) ==
  /\ r \in edits /\ edits' = edits \ {r}
  /\ wiring' = [by |-> "operator", rev |-> 0]
  /\ excused' = IF confirming # {} \/ run.wiring # "waiting"
                  THEN excused \cup {"crossed edit"} ELSE excused
  /\ UNCHANGED <<node, interfaces, run, snaps, execs, confirming, faults>>

\* complete_workflow_step: the interfaces it has loaded must be complete.
Complete(w) == w.by = "operator" \/ (w.by = "capture" /\ w.rev \in Clear)
ConfirmBegins ==
  /\ run.wiring = "waiting" /\ confirming = {} /\ Complete(wiring)
  /\ confirming' = {[version |-> run.version, seen |-> wiring]}
  /\ UNCHANGED <<node, interfaces, run, wiring, snaps, execs, edits, excused, faults>>
ConfirmEnds(c) ==
  /\ confirming' = {}
  /\ IF c.version = run.version
       THEN run' = [run EXCEPT !.wiring = "succeeded", !.version = @ + 1, !.confirmed = c.seen]
       ELSE UNCHANGED run
  /\ UNCHANGED <<node, interfaces, wiring, snaps, execs, edits, excused, faults>>

\* The process dies or is stopped; snapshots that were being read stay as they are.
Crash ==
  /\ faults < MaxFaults /\ faults' = faults + 1
  /\ execs' = {} /\ edits' = {} /\ confirming' = {} /\ excused' = excused \cup {"crash"}
  /\ UNCHANGED <<node, interfaces, run, wiring, snaps>>

Init ==
  /\ node \in {"server", "database"} /\ interfaces = 1
  /\ run = [capture |-> "running", wiring |-> "pending", version |-> 1, by |-> <<>>,
            confirmed |-> None]
  /\ wiring = None /\ snaps = <<>> /\ execs = {} /\ edits = {} /\ confirming = {}
  /\ excused = {} /\ faults = 0

Next ==
  \/ InterfacesChange \/ BeginCapture \/ Retry \/ Cancel \/ ConfirmBegins \/ Crash
  \/ \E p \in Previewers : BeginPreview(p)
  \/ \E e \in execs :
       \/ OpenServer(e) \/ OpenDatabase(e) \/ Read(e)
       \/ PreviewEnds(e) \/ CaptureSucceeds(e) \/ CaptureFails(e)
       \/ CaptureRaises(e) \/ SaveRefused(e)
  \/ \E r \in Editors : EditBegins(r) \/ EditSaves(r)
  \/ \E c \in confirming : ConfirmEnds(c)

Spec == Init /\ [][Next]_vars

-----------------------------------------------------------------------------
(* Properties *)

\* Snapshots, steps and requests are of their kinds; a reading has its snapshot.
TypeOK ==
  /\ interfaces \in 1..MaxRev /\ run.version \in Nat
  /\ run.capture \in {"running", "failed", "succeeded", "cancelled"}
  /\ run.wiring \in {"pending", "waiting", "succeeded", "cancelled"}
  /\ wiring.by \in {"nobody", "capture", "operator"}
  /\ \A e \in execs : e.at \in 0..Len(snaps) /\ Len(e.mine) <= Len(ToCapture)
  /\ \A e \in execs : e.at # 0 => snaps[e.at].status = "running"
  /\ edits \subseteq Editors /\ Cardinality(confirming) <= 1
  /\ excused \subseteq {"crossed edit", "error", "refused", "crash"}

Named == {run.by[i] : i \in DOMAIN run.by}

\* A capture step names one snapshot of every target, all finished, of one execution: not
\* those of a preview, of an earlier attempt or of a second execution of its task.  One
\* that succeeded names those and none failed; one that failed names some that did, or,
\* if an error ended an execution before it had read every target, may name none.
StepNamesItsOwn ==
  /\ run.by # <<>> =>
       /\ [i \in DOMAIN run.by |-> snaps[run.by[i]].target] = ToCapture
       /\ \A i \in Named : snaps[i].status # "running" /\ snaps[i].scope = "run"
  /\ run.capture = "succeeded" => run.by # <<>> /\ \A i \in Named : snaps[i].status = "succeeded"
  /\ run.capture = "failed" =>
       \/ \E i \in Named : snaps[i].status = "failed"
       \/ run.by = <<>> /\ "error" \in excused

\* Interfaces that no operator has touched are those of the REM in these snapshots, and a
\* confirmed wiring is complete and what was looked at when it was confirmed, unless an
\* edit that had loaded the step crossed the confirmation.
WiringAsCaptured ==
  /\ wiring.by = "capture" => \E i \in Named : snaps[i].target = Rem /\ snaps[i].rev = wiring.rev
  /\ run.wiring = "succeeded" =>
       /\ wiring.by = "operator" \/ wiring.rev \in Clear
       /\ "crossed edit" \notin excused => wiring = run.confirmed

\* Attempts are numbered once, also when two captures of a scope are at work at once; a
\* snapshot stays running only where its process was ended or its result refused.
SnapshotsSettle ==
  /\ \A i, j \in DOMAIN snaps :
       i # j /\ snaps[i].scope = snaps[j].scope /\ snaps[i].target = snaps[j].target
         => snaps[i].attempt # snaps[j].attempt
  /\ \A i \in DOMAIN snaps :
       snaps[i].status = "running" /\ excused \cap {"crash", "refused"} = {} =>
         \E e \in execs : e.at = i

\* What a capture leaves behind is its own and what its wiring step shows.
CapturesAsShown == StepNamesItsOwn /\ WiringAsCaptured /\ SnapshotsSettle
=============================================================================
