--------------------------- MODULE WorkflowVersions ---------------------------
(***************************************************************************)
(* The versions of one scenario's workflow                                 *)
(* (backend/app/services/workflow_core.py, workflow_publishing.py,         *)
(* order_configs.py and the routes workflows.py).  A scenario points at a  *)
(* draft and at a published version and is enabled or not.  Enabling a     *)
(* draft publishes it: the remote order files its nodes pin are read one   *)
(* by one, those that name other contract files are rewritten one by one,  *)
(* and everything is committed at the end from objects loaded before the   *)
(* first await.  Every other request loads the rows, tests them and        *)
(* commits in a worker thread beside the event loop.  Neither scenarios    *)
(* nor versions carry a row version, and a commit writes those fields only *)
(* whose value differs from the loaded one.                                *)
(***************************************************************************)
EXTENDS Naturals, Sequences

CONSTANTS
  Files,       \* remote order files the nodes of the workflow pin
  Requests,    \* requests in flight
  MaxVersions, \* bound on version rows
  MaxSum,      \* bound on the contents a remote file may take
  MaxRev       \* bound on a version's revisions

VARIABLES
  scenario,    \* published and draft pointers (0: none), is_enabled
  versions,    \* the version rows, by id: number, generation, status, revision, content
  remote,      \* each order file: its checksum and whether it names the contract files
  resources,   \* whether every resource the nodes name is enabled
  publishing,  \* enable requests between their awaits, with what they loaded
  saving,      \* save requests between load and commit
  working,     \* the other requests between load and commit
  raced,       \* versions written by a save and a publication that overlapped
  overtaken    \* has one of working been committed on rows that were no longer as loaded

vars == <<scenario, versions, remote, resources, publishing, saving, working, raced, overtaken>>

Ids == DOMAIN versions
Largest(S) == CHOOSE m \in S \cup {0} : \A x \in S : x <= m
Same(no) == {versions[v].gen : v \in {w \in Ids : versions[w].no = no}}

\* version_heads_query, is_version_head: the latest generation of each version number
IsHead(v) == versions[v].gen = Largest(Same(versions[v].no))

Unpinned == [ok |-> FALSE, pins |-> [f \in Files |-> 0]]

\* create_draft, with copy_version_contents where there is a source
Draft(no, gen, content) ==
  [no |-> no, gen |-> gen, status |-> "draft", rev |-> 1, content |-> content]

\* The next generation of a version number
NextGeneration(no) == Largest(Same(no)) + 1
NextNumber == Largest({versions[v].no : v \in Ids}) + 1

Idle(r) == \A q \in saving \cup publishing \cup working : q.id # r

\* The database takes no second version of a number and generation.
Taken_Never(new) == FALSE   \* Mutant: nothing makes the pair unique
Taken(new) == \E v \in Ids : versions[v].no = new.no /\ versions[v].gen = new.gen

\* What a field becomes that was loaded and set: unchanged values are not written.
Written(now, loaded, want) == IF want = loaded THEN now ELSE want

\* A request has loaded the scenario and version v (0: none), and means to write what it
\* wants of the scenario and of v's status and to add a version, if there is a new one.
NoVersion == Draft(0, 0, Unpinned)
Loads(r, want, v, status, new) ==
  /\ Idle(r)
  /\ new # NoVersion => Len(versions) < MaxVersions
  /\ working' = working \cup
       {[id |-> r, loaded |-> scenario, want |-> want, v |-> v, status |-> status, new |-> new,
         was |-> IF v = 0 THEN status ELSE versions[v].status]}
  /\ UNCHANGED <<scenario, versions, remote, resources, publishing, saving, raced, overtaken>>

\* db.commit: all of it, or nothing where the database refuses the version.
Commits(q) ==
  /\ working' = working \ {q}
  /\ IF q.new # NoVersion /\ Taken(q.new)
       THEN UNCHANGED <<scenario, versions, overtaken>>
       ELSE
         /\ q.new # NoVersion => Len(versions) < MaxVersions
         /\ LET rows == [v \in Ids |-> IF v = q.v
                           THEN [versions[v] EXCEPT !.status = Written(@, q.was, q.status)]
                           ELSE versions[v]]
            IN versions' = IF q.new = NoVersion THEN rows ELSE Append(rows, q.new)
         /\ scenario' =
              [published |-> Written(scenario.published, q.loaded.published, q.want.published),
               draft |-> IF q.new = NoVersion
                           THEN Written(scenario.draft, q.loaded.draft, q.want.draft)
                           ELSE Len(versions) + 1,
               enabled |-> Written(scenario.enabled, q.loaded.enabled, q.want.enabled)]
         /\ overtaken' =
              (overtaken \/ scenario # q.loaded \/ (q.v # 0 /\ versions[q.v].status # q.was))
  /\ UNCHANGED <<remote, resources, publishing, saving, raced>>

Off == [scenario EXCEPT !.enabled = FALSE]

\* clone_published_to_draft, called by ensure_workflow_draft and by pausing
Clone ==
  IF scenario.published = 0 THEN Draft(NextNumber, 1, Unpinned)
  ELSE LET source == versions[scenario.published]
       IN  Draft(source.no, NextGeneration(source.no), source.content)

EnsureDraft(r) == scenario.draft = 0 /\ Loads(r, Off, 0, "draft", Clone)

Pause(r) ==
  /\ scenario.enabled /\ scenario.published # 0
  /\ Loads(r, Off, 0, "draft", IF scenario.draft = 0 THEN Clone ELSE NoVersion)

\* create_workflow_version: the version in force is retired and nothing is enabled.
CreateVersion(r, source) ==
  /\ scenario.draft = 0 /\ IsHead(source)
  /\ LET published == scenario.published
         retires == published # 0 /\ versions[published].status = "published"
     IN  Loads(r, Off, IF retires THEN published ELSE 0, "retired",
               Draft(NextNumber, 1, versions[source].content))

\* archive_workflow_version
Archive(r, v) ==
  /\ IsHead(v) /\ ~(scenario.enabled /\ scenario.published = v)
  /\ versions[v].status \in {"draft", "retired"}
  /\ LET same == scenario.published # 0 /\ versions[scenario.published].no = versions[v].no
         want == [published |-> IF scenario.draft = v /\ same THEN 0 ELSE scenario.published,
                  draft |-> IF scenario.draft = v THEN 0 ELSE scenario.draft,
                  enabled |-> FALSE]
     IN  Loads(r, want, v, "archived", NoVersion)

\* _enable_workflow without a draft: the published version is put in force again.
Reenable(r) ==
  /\ scenario.draft = 0 /\ scenario.published # 0 /\ ~scenario.enabled
  /\ Loads(r, [scenario EXCEPT !.enabled = TRUE], scenario.published, "published", NoVersion)

\* save_scenario_workflow and replace_draft: the draft and its revision are compared
\* when they are loaded; any content may be saved, pins are taken from what is shown.
SaveLoads(r) ==
  /\ scenario.draft # 0 /\ versions[scenario.draft].status = "draft"
  /\ versions[scenario.draft].rev < MaxRev
  /\ Idle(r)
  /\ \E ok \in BOOLEAN, fresh \in SUBSET Files :
       saving' = saving \cup
         {[id |-> r, v |-> scenario.draft, rev |-> versions[scenario.draft].rev + 1,
           content |-> [ok |-> ok,
                        pins |-> [f \in Files |-> IF f \in fresh THEN remote[f].sum
                                  ELSE versions[scenario.draft].content.pins[f]]]]}
  /\ UNCHANGED <<scenario, versions, remote, resources, publishing, working, raced, overtaken>>

SaveCommits(s) ==
  /\ saving' = saving \ {s}
  /\ versions' = [versions EXCEPT ![s.v].content = s.content, ![s.v].rev = s.rev]
  /\ raced' = IF versions[s.v].status # "draft" \/ \E p \in publishing : p.v = s.v
                THEN raced \cup {s.v} ELSE raced
  /\ UNCHANGED <<scenario, remote, resources, publishing, working, overtaken>>

\* validate_structure: the nodes, their order and their fields are what a save made
\* them; the resources they name may be disabled or deleted at any time.
Sound(content) == content.ok
Usable == resources

\* _enable_workflow with a draft: publish loads it and validates its structure.
EnableBegins(r) ==
  /\ scenario.draft # 0 /\ Idle(r)
  /\ publishing' = publishing \cup
       {[id |-> r, v |-> scenario.draft, loaded |-> scenario,
         was |-> versions[scenario.draft].status, seen |-> versions[scenario.draft].content,
         pins |-> versions[scenario.draft].content.pins, read |-> {},
         errors |-> ~Usable,
         plan |-> {}, writing |-> {}]}
  /\ UNCHANGED <<scenario, versions, remote, resources, saving, working, raced, overtaken>>

Goes(p, new) == publishing' = (publishing \ {p}) \cup {new}
GivesUp(p) == publishing' = publishing \ {p}

\* validate_publish: one remote read per node; a pin must match, if there is one.
ReadFile(p, f) ==
  /\ p.writing = {} /\ f \notin p.read
  /\ LET now == remote[f]
         changed == p.seen.pins[f] \notin {0, now.sum}
     IN  \/ Goes(p, [p EXCEPT !.read = @ \cup {f}, !.errors = @ \/ changed,
                       !.pins[f] = IF changed THEN @ ELSE now.sum,
                       !.plan = IF changed \/ now.named THEN @ ELSE @ \cup {f}])
         \/ Goes(p, [p EXCEPT !.read = @ \cup {f}, !.errors = TRUE])
  /\ UNCHANGED <<scenario, versions, remote, resources, saving, working, raced, overtaken>>

\* WORKFLOW_VALIDATION_FAILED before anything was written
Passed_Pins(p) == ~p.errors   \* Mutant: the structure is not looked at
Passed(p) == Sound(p.seen) /\ ~p.errors
Refused(p) ==
  /\ p.writing = {} /\ p.read = Files /\ ~Passed(p)
  /\ GivesUp(p)
  /\ UNCHANGED <<scenario, versions, remote, resources, saving, working, raced, overtaken>>

\* order_config_service.update: a checksum compared, then the file replaced
CheckFile(p, f) ==
  /\ p.writing = {} /\ p.read = Files /\ Passed(p) /\ f \in p.plan
  /\ \/ remote[f].sum = p.pins[f] /\ Goes(p, [p EXCEPT !.writing = {f}])
     \/ GivesUp(p)
  /\ UNCHANGED <<scenario, versions, remote, resources, saving, working, raced, overtaken>>
ReplaceFile(p) ==
  /\ p.writing # {}
  /\ LET f == CHOOSE g \in p.writing : TRUE IN
       \/ /\ remote[f].sum < MaxSum
          /\ remote' = [remote EXCEPT ![f] = [sum |-> @.sum + 1, named |-> TRUE]]
          /\ Goes(p, [p EXCEPT !.writing = {}, !.plan = @ \ {f}, !.pins[f] = remote[f].sum + 1])
       \/ GivesUp(p) /\ UNCHANGED remote
  /\ UNCHANGED <<scenario, versions, resources, saving, working, raced, overtaken>>

\* The end of publish: what it loaded is written with what it changed.
Repinned(p) ==
  [versions[p.v].content EXCEPT
     !.pins = [f \in Files |-> IF p.pins[f] # p.seen.pins[f] THEN p.pins[f] ELSE @[f]]]
EnableCommits(p) ==
  /\ p.writing = {} /\ p.read = Files /\ Passed(p) /\ p.plan = {}
  /\ GivesUp(p)
  /\ versions' = [v \in Ids |->
       IF v = p.v THEN [versions[v] EXCEPT !.status = Written(@, p.was, "published"),
                                           !.content = Repinned(p)]
       ELSE IF v = p.loaded.published /\ versions[v].no # versions[p.v].no
         THEN [versions[v] EXCEPT !.status = "retired"]
       ELSE versions[v]]
  /\ scenario' = [published |-> Written(scenario.published, p.loaded.published, p.v),
                  draft |-> Written(scenario.draft, p.v, 0),
                  enabled |-> Written(scenario.enabled, p.loaded.enabled, TRUE)]
  /\ UNCHANGED <<remote, resources, saving, working, raced, overtaken>>

\* update_order_config: an operator edits a remote file.
EditFile(f) ==
  /\ remote[f].sum < MaxSum
  /\ \E named \in BOOLEAN :
       remote' = [remote EXCEPT ![f] = [sum |-> @.sum + 1, named |-> named]]
  /\ UNCHANGED <<scenario, versions, resources, publishing, saving, working, raced, overtaken>>

\* update_resource and delete_resource: no workflow keeps a resource from being disabled.
SwitchResource ==
  /\ resources' = ~resources
  /\ UNCHANGED <<scenario, versions, remote, publishing, saving, working, raced, overtaken>>

\* The service restarts: requests are gone, what they wrote remotely stays.
Crash ==
  /\ publishing \cup saving \cup working # {}
  /\ publishing' = {} /\ saving' = {} /\ working' = {}
  /\ UNCHANGED <<scenario, versions, remote, resources, raced, overtaken>>

Init ==
  /\ scenario = [published |-> 0, draft |-> 0, enabled |-> FALSE]
  /\ versions = <<>>
  /\ remote = [f \in Files |-> [sum |-> 1, named |-> FALSE]]
  /\ resources = TRUE /\ publishing = {} /\ saving = {} /\ working = {}
  /\ raced = {} /\ overtaken = FALSE

Next ==
  \/ SwitchResource \/ Crash
  \/ \E r \in Requests :
       \/ EnsureDraft(r) \/ Pause(r) \/ Reenable(r) \/ SaveLoads(r) \/ EnableBegins(r)
       \/ \E v \in Ids : CreateVersion(r, v) \/ Archive(r, v)
  \/ \E q \in working : Commits(q)
  \/ \E s \in saving : SaveCommits(s)
  \/ \E p \in publishing : \/ Refused(p) \/ ReplaceFile(p) \/ EnableCommits(p)
                           \/ \E f \in Files : ReadFile(p, f) \/ CheckFile(p, f)
  \/ \E f \in Files : EditFile(f)

Spec == Init /\ [][Next]_vars

-----------------------------------------------------------------------------
(* Properties *)

\* The rows and pointers hold what they may, and no two versions share number and
\* generation.
TypeOK ==
  /\ resources \in BOOLEAN /\ scenario.published \in {0} \cup Ids /\ scenario.draft \in {0} \cup Ids
  /\ \A v \in Ids : versions[v].status \in {"draft", "published", "retired", "archived"}
  /\ \A v, w \in Ids : v # w => <<versions[v].no, versions[v].gen>> # <<versions[w].no, versions[w].gen>>
  /\ \A p \in publishing : p.v \in Ids

\* Whatever enabling, pausing, archiving and versioning do to one another, also where they
\* overlap: the version a scenario is enabled with has passed validation, unless a save
\* overlapped its publication; and there is one, marked published, unless a request has
\* been committed on rows that had changed since it loaded them.
EnabledWasValidated ==
  scenario.enabled =>
    /\ scenario.published \notin raced \cup {0} => versions[scenario.published].content.ok
    /\ ~overtaken => scenario.published # 0 /\ versions[scenario.published].status = "published"

\* Enabling again validates the nodes and resources first: the resources are enabled and
\* the order files are those the version pins at the moment it is put in force.
Current(v) == resources' /\ \A f \in Files : versions'[v].content.pins[f] = remote'[f].sum
ReenableValidates ==
  [][~scenario.enabled /\ scenario'.enabled /\ publishing \cup saving = {} =>
       Current(scenario'.published)]_vars
=============================================================================
