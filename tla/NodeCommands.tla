----------------------------- MODULE NodeCommands -----------------------------
(***************************************************************************)
(* A node that runs its commands on a remote host without a terminal       *)
(* (backend/app/services/rem_execution.py, market_execution.py,            *)
(* slnic_merge.py, workflows.py and their handlers).  REM and SLNIC        *)
(* commands share one remote shell that goes on without its handler; REM   *)
(* marks the beginning and end of each command in the output, SLNIC        *)
(* believes the shell's exit status; market scripts are verified and then  *)
(* started one by one.  Merging also archives the packet capture of an     *)
(* earlier attempt and collects the new one when the step is completed.    *)
(***************************************************************************)
EXTENDS Naturals, Sequences, FiniteSets

CONSTANTS
  Kinds,    \* nodes considered, among "rem", "market", "slnic" and "merge"
  N,        \* commands of the node
  MaxExecs, \* bound on the executions of the handler
  Requests  \* completion requests

VARIABLES
  kind,
  row,        \* the step, the version of its run and the results of an execution
  execs,      \* executions of the handler in this process
  shells,     \* what each execution has run on the host
  scripts,    \* revision of each market script, 1: the published one
  preps,      \* merges prepared so far
  output,     \* the packet capture in the parser's directory: preparations before it
  artifact,   \* the collected file and the checksum in its row
  completing, \* completion requests that have downloaded it
  excused     \* what has come between

vars == <<kind, row, execs, shells, scripts, preps, output, artifact, completing, excused>>

Commands == 1..N
Goes(e, new) == execs' = (execs \ {e}) \cup {new}
Fresh(version) == row.version = version

\* The step's task loads the run.  Its lease may have run out in a live process.
Begin ==
  /\ row.status = "running" /\ Len(shells) < MaxExecs
  /\ execs' = execs \cup {[id |-> Len(shells) + 1, version |-> row.version,
                           at |-> "preparing", seen |-> <<>>]}
  /\ shells' = Append(shells, [codes |-> <<>>, revs |-> <<>>, open |-> FALSE, prep |-> 0])
  /\ excused' = IF execs = {} THEN excused ELSE excused \cup {"lapse"}
  /\ UNCHANGED <<kind, row, scripts, preps, output, artifact, completing>>

\* read_many: one script after the other.
ReadScript(e) ==
  /\ kind = "market" /\ e.at = "preparing" /\ Len(e.seen) < N
  /\ Goes(e, [e EXCEPT !.seen = Append(@, scripts[Len(@) + 1])])
  /\ UNCHANGED <<kind, row, shells, scripts, preps, output, artifact, completing, excused>>

\* archive_previous_parser_output
ArchivePrevious(e) ==
  /\ kind = "merge" /\ e.at = "preparing" /\ shells[e.id].prep = 0
  /\ preps' = preps + 1 /\ output' = 0
  /\ shells' = [shells EXCEPT ![e.id].prep = preps + 1]
  /\ UNCHANGED <<kind, row, execs, scripts, artifact, completing, excused>>

Opens(e) ==
  /\ e.at = "preparing"
  /\ Goes(e, [e EXCEPT !.at = "running"])
  /\ shells' = [shells EXCEPT ![e.id].open = TRUE]
  /\ UNCHANGED <<kind, row, scripts, preps, output, artifact, completing, excused>>
OpenRem(e) == kind = "rem" /\ Opens(e)
OpenSlnic(e) ==
  /\ kind \in {"slnic", "merge"} /\ (kind = "merge" => shells[e.id].prep # 0)
  /\ Opens(e)

\* A script that is not the published one stops the node before anything is started.
Published(seen) == Len(seen) = N /\ \A i \in Commands : seen[i] = 1
OpenMarket(e) == kind = "market" /\ Published(e.seen) /\ Opens(e)

\* Every command is followed by a test of its status.
Continues(code) == code = "ok"
Runs(id, code) ==
  shells' = [shells EXCEPT ![id].codes = Append(@, code),
                           ![id].open = Continues(code) /\ Len(shells[id].codes) + 1 < N]

\* The remote shell: a command succeeds, fails, or leaves the shell with either status.
ShellRuns(id) ==
  /\ kind # "market" /\ shells[id].open
  /\ \E code \in {"ok", "bad", "left", "left bad"} : Runs(id, code)
  /\ UNCHANGED <<kind, row, execs, scripts, preps, output, artifact, completing, excused>>

\* The loop over the market's scripts, each a command of its own on the connection.
MarketRuns(e) ==
  /\ kind = "market" /\ e.at = "running" /\ shells[e.id].open
  /\ \E code \in {"ok", "bad"} :
       LET done == shells[e.id].codes
       IN shells' = [shells EXCEPT ![e.id].codes = Append(@, code),
                                   ![e.id].revs = Append(@, scripts[Len(done) + 1]),
                                   ![e.id].open = Continues(code) /\ Len(done) + 1 < N]
  /\ UNCHANGED <<kind, row, execs, scripts, preps, output, artifact, completing, excused>>

EditScript(i) ==
  /\ kind = "market" /\ scripts[i] = 1
  /\ scripts' = [scripts EXCEPT ![i] = 2]
  /\ excused' = IF \E e \in execs : Len(e.seen) >= i THEN excused \cup {"script"} ELSE excused
  /\ UNCHANGED <<kind, row, execs, shells, preps, output, artifact, completing>>

Returns(e) ==
  /\ e.at = "running" /\ ~shells[e.id].open
  /\ Goes(e, [e EXCEPT !.at = "returned"])
  /\ UNCHANGED <<kind, row, shells, scripts, preps, output, artifact, completing, excused>>

\* A check fails, the connection is refused or lost: a shell may go on without it.
Raises(e) ==
  /\ e.at \in {"preparing", "running"}
  /\ Goes(e, [e EXCEPT !.at = "raised"])
  /\ \E open \in {FALSE, shells[e.id].open /\ kind # "market"} :
       /\ shells' = [shells EXCEPT ![e.id].open = open]
       /\ excused' = IF open THEN excused \cup {"lost"} ELSE excused
  /\ UNCHANGED <<kind, row, scripts, preps, output, artifact, completing>>

\* _stream_segments: a command without the marker of its end counts as failed.
ExitCode(code) == IF code = "ok" THEN 0 ELSE 1
Recorded(codes) == [i \in DOMAIN codes |-> ExitCode(codes[i])]

\* Mutant: the exit status of the shell decides for REM as it does for SLNIC.
Succeeds_Shell(codes) == codes[Len(codes)] \in {"ok", "left"}
Succeeds(codes) ==
  LET last == codes[Len(codes)]
  IN last = "ok" \/ (kind \in {"slnic", "merge"} /\ last = "left")

\* The step is saved with what the handler returned; REM's results also with a failure,
\* where they replace those of an earlier attempt.
Saved(e, ok, results) ==
  /\ execs' = execs \ {e}
  /\ row' = IF ~Fresh(e.version) THEN row
            ELSE [status |-> IF ok THEN "waiting" ELSE "failed", version |-> row.version + 1,
                  by |-> e.id,
                  results |-> IF kind = "rem" \/ (kind = "market" /\ ok)
                                THEN results ELSE row.results]
  /\ UNCHANGED <<kind, shells, scripts, preps, output, artifact, completing, excused>>
SaveReturned(e) ==
  e.at = "returned" /\ Saved(e, Succeeds(shells[e.id].codes), Recorded(shells[e.id].codes))
SaveRaised(e) == e.at = "raised" /\ Saved(e, FALSE, <<>>)

Retry ==
  /\ row.status = "failed"
  /\ row' = [row EXCEPT !.status = "running", !.version = @ + 1]
  /\ UNCHANGED <<kind, execs, shells, scripts, preps, output, artifact, completing, excused>>
Cancel ==
  /\ row.status \notin {"succeeded", "cancelled"}
  /\ row' = [row EXCEPT !.status = "cancelled", !.version = @ + 1]
  /\ UNCHANGED <<kind, execs, shells, scripts, preps, output, artifact, completing, excused>>

\* An operator converts the merged capture on a workstation.
Convert ==
  /\ kind = "merge" /\ preps > 0 /\ output' = preps
  /\ UNCHANGED <<kind, row, execs, shells, scripts, preps, artifact, completing, excused>>

Complete ==
  /\ kind # "merge" /\ row.status = "waiting"
  /\ row' = [row EXCEPT !.status = "succeeded", !.version = @ + 1]
  /\ UNCHANGED <<kind, execs, shells, scripts, preps, output, artifact, completing, excused>>

\* collect_slnic_merge_artifact: download, replace the local file, close the connection ...
Download(r) ==
  /\ kind = "merge" /\ row.status = "waiting" /\ output # 0
  /\ \A c \in completing : c.id # r
  /\ completing' = completing \cup
       {[id |-> r, version |-> row.version, got |-> output, replaced |-> FALSE]}
  /\ UNCHANGED <<kind, row, execs, shells, scripts, preps, output, artifact, excused>>
ReplaceFile(c) ==
  /\ ~c.replaced
  /\ completing' = (completing \ {c}) \cup {[c EXCEPT !.replaced = TRUE]}
  /\ artifact' = [artifact EXCEPT !.file = c.got]
  /\ excused' = IF row.status = "waiting" THEN excused ELSE excused \cup {"late file"}
  /\ UNCHANGED <<kind, row, execs, shells, scripts, preps, output>>
\* ... then read the local file, and complete the step if the run has not changed.
Register(c) ==
  /\ c.replaced
  /\ completing' = completing \ {c}
  /\ IF Fresh(c.version)
       THEN /\ row' = [row EXCEPT !.status = "succeeded", !.version = @ + 1]
            /\ artifact' = [artifact EXCEPT !.row = artifact.file]
       ELSE UNCHANGED <<row, artifact>>
  /\ UNCHANGED <<kind, execs, shells, scripts, preps, output, excused>>
CompletionFails(c) ==
  /\ completing' = completing \ {c}
  /\ UNCHANGED <<kind, row, execs, shells, scripts, preps, output, artifact, excused>>

\* The process dies; remote shells go on or end with their connection.
Crash ==
  /\ execs # {} \/ completing # {}
  /\ execs' = {} /\ completing' = {} /\ excused' = excused \cup {"crash"}
  /\ \E kept \in SUBSET {id \in DOMAIN shells : shells[id].open /\ kind # "market"} :
       shells' = [id \in DOMAIN shells |-> [shells[id] EXCEPT !.open = id \in kept]]
  /\ UNCHANGED <<kind, row, scripts, preps, output, artifact>>

Init ==
  /\ kind \in Kinds
  /\ row = [status |-> "running", version |-> 1, by |-> 0, results |-> <<>>]
  /\ execs = {} /\ shells = <<>> /\ scripts = [i \in Commands |-> 1]
  /\ preps = 0 /\ output = 0 /\ artifact = [file |-> 0, row |-> 0]
  /\ completing = {} /\ excused = {}

Next ==
  \/ Begin \/ Retry \/ Cancel \/ Convert \/ Complete \/ Crash
  \/ \E i \in Commands : EditScript(i)
  \/ \E id \in DOMAIN shells : ShellRuns(id)
  \/ \E e \in execs : \/ ReadScript(e) \/ ArchivePrevious(e)
                      \/ OpenRem(e) \/ OpenSlnic(e) \/ OpenMarket(e) \/ MarketRuns(e)
                      \/ Returns(e) \/ Raises(e) \/ SaveReturned(e) \/ SaveRaised(e)
  \/ \E r \in Requests : Download(r)
  \/ \E c \in completing : ReplaceFile(c) \/ Register(c) \/ CompletionFails(c)

Spec == Init /\ [][Next]_vars

-----------------------------------------------------------------------------
(* Properties *)

\* Records stay within their bounds; an open shell has commands left to run.
TypeOK ==
  /\ kind \in Kinds
  /\ row.status \in {"running", "waiting", "failed", "succeeded", "cancelled"}
  /\ row.by \in 0..Len(shells) /\ Len(row.results) <= N
  /\ \A e \in execs : e.id \in DOMAIN shells /\ e.version <= row.version
  /\ \A id \in DOMAIN shells : shells[id].open => Len(shells[id].codes) < N
  /\ output \in 0..preps /\ artifact \in [file : 0..preps, row : 0..preps]

Ended == row.status \in {"waiting", "succeeded"}
OpenShells == {id \in DOMAIN shells : shells[id].open}

\* A step that waits for its completion or is completed has run all its commands with
\* success, in the execution whose results it carries; only an SLNIC command that left
\* its shell with status zero hides the rest.
EndedRanAll ==
  Ended =>
    \/ shells[row.by].codes = [i \in Commands |-> "ok"]
    \/ /\ kind \in {"slnic", "merge"}
       /\ shells[row.by].codes[Len(shells[row.by].codes)] = "left"
\* REM's recorded results are those of that execution.
ResultsAreItsOwn ==
  kind = "rem" /\ row.by # 0 =>
    \A i \in DOMAIN row.results :
      row.results[i] = 0 <=> shells[row.by].codes[i] = "ok"
\* Two shells of a step are at work at once only after a lost connection, a crash or a
\* lapsed lease; a market script runs unverified only if it was changed after its reading.
ShellsAreVerified ==
  /\ Cardinality(OpenShells) > 1 => excused \cap {"lost", "crash", "lapse"} # {}
  /\ "script" \notin excused =>
       \A id \in DOMAIN shells : \A i \in DOMAIN shells[id].revs : shells[id].revs[i] = 1
\* The packet capture of a completed merge was written after the preparation of the
\* execution it completes, and is the file its row describes unless a second completion
\* replaced it after losing its race.
CaptureIsItsOwn ==
  kind = "merge" /\ row.status = "succeeded" =>
    /\ artifact.row >= shells[row.by].prep
    /\ "late file" \notin excused => artifact.file = artifact.row

\* What a step records of its commands is what happened on the host, whatever lost
\* connections, crashes, retries, edits and racing completions came between.
CommandsAsRecorded == EndedRanAll /\ ResultsAreItsOwn /\ ShellsAreVerified /\ CaptureIsItsOwn
=============================================================================
