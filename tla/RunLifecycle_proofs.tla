------------------------ MODULE RunLifecycle_proofs ------------------------
(***************************************************************************)
(* RunLifecycle for every workflow, every number of clients and every      *)
(* bound: the types, and that status_version fences every snapshot.        *)
(*                                                                         *)
(* The argument: each service either returns the run it was given or one   *)
(* with a greater version, because the guards of the requests leave it no  *)
(* move from a status to itself.  So a snapshot that still carries the     *)
(* version of the row has seen every write.                                *)
(***************************************************************************)
EXTENDS RunLifecycle, WellFoundedInduction, TLAPS

-----------------------------------------------------------------------------
(* Helpers on the steps *)

LEMMA MoveToFacts ==
  ASSUME NEW r \in Rows, NEW t \in RunStatuses
  PROVE  LET q == MoveTo(r, t)
         IN /\ q \in Rows
            /\ q.status = t
            /\ q.steps = r.steps
            /\ q.pausedFrom = r.pausedFrom
            /\ r.status = t => q = r
            /\ r.status # t => q.version = r.version + 1
<1>1. CASE r.status = t
  BY <1>1 DEF MoveTo
<1>2. CASE r.status # t
  <2>1. MoveTo(r, t) = [[r EXCEPT !.status = t] EXCEPT !.version = @ + 1]
    BY <1>2 DEF MoveTo
  <2>2. [r EXCEPT !.status = t] \in Rows
    BY DEF Rows
  <2>3. \A q \in Rows : [q EXCEPT !.version = @ + 1] \in Rows
    BY DEF Rows
  <2>4. MoveTo(r, t) \in Rows
    BY <2>1, <2>2, <2>3
  <2> QED
    BY <1>2, <2>1, <2>4 DEF Rows
<1> QED
  BY <1>1, <1>2

\* A move to another status is one version later.
LEMMA Moved ==
  ASSUME NEW r \in Rows, NEW t \in RunStatuses, r.status # t
  PROVE  /\ MoveTo(r, t) \in Rows
         /\ MoveTo(r, t).status = t
         /\ MoveTo(r, t).version = r.version + 1
         /\ MoveTo(r, t).steps = r.steps
         /\ MoveTo(r, t).pausedFrom = r.pausedFrom
BY MoveToFacts

LEMMA SetStepFacts ==
  ASSUME NEW r \in Rows, NEW i, NEW t \in StepStatuses
  PROVE  LET q == SetStep(r, i, t)
         IN /\ q \in Rows
            /\ q.status = r.status
            /\ q.version = r.version
            /\ q.pausedFrom = r.pausedFrom
BY DEF SetStep, Rows

LEMMA ReleaseFacts ==
  ASSUME NEW r \in Rows
  PROVE  LET q == Release(r)
         IN /\ q \in Rows
            /\ q.status = r.status
            /\ q.version = r.version
            /\ q.pausedFrom = r.pausedFrom
            /\ q.steps = r.steps
BY DEF Release, Rows

LEMMA CancelStepsFacts ==
  ASSUME NEW r \in Rows, NEW from
  PROVE  LET q == CancelSteps(r, from)
         IN /\ q \in Rows
            /\ q.status = r.status
            /\ q.version = r.version
            /\ q.pausedFrom = r.pausedFrom
BY DEF CancelSteps, Rows, StepStatuses

\* A run whose steps have not all succeeded has a current step, the first of them.
LEMMA CurrentFacts ==
  ASSUME NEW r \in Rows, ~AllSucceeded(r)
  PROVE  Current(r) \in StepIds /\ IsCurrent(r, Current(r))
<1> DEFINE Open == {i \in StepIds : r.steps[i].status # "succeeded"}
<1>1. StepIds \subseteq Nat
  BY NodesAssumption DEF StepIds
<1>2. Open \subseteq Nat /\ Open # {}
  BY <1>1 DEF AllSucceeded
<1>3. PICK i \in Open : \A j \in Open : ~(<<j, i>> \in OpToRel(<, Nat))
  BY <1>2, WFMin, NatLessThanWellFounded
<1>4. \A j \in Open : ~(j < i)
  BY <1>2, <1>3 DEF OpToRel
<1>5. i \in StepIds /\ IsCurrent(r, i)
  BY <1>1, <1>4, NodesAssumption DEF IsCurrent, StepIds
<1> QED
  BY <1>5 DEF Current

-----------------------------------------------------------------------------
(* The services *)

\* What a service returns for a run it was given: the run, or a later version of it;
\* a running one has a current step, and a paused one knows where it was paused.
WellPaused(r) == r.status = "paused" => r.pausedFrom \in PausableRunStatuses
Carried(r) == r.status = "running" => \E i \in StepIds : IsCurrent(r, i)
Follows(q, r) ==
  /\ q \in Rows
  /\ WellPaused(q)
  /\ Carried(q)
  /\ q = r \/ q.version > r.version

LEMMA BeginFacts ==
  ASSUME NEW r \in Rows, NEW i \in StepIds, IsCurrent(r, i)
  PROVE  LET q == Begin(r, i)
         IN /\ q \in Rows
            /\ q.status = "running"
            /\ Carried(q)
            /\ r.status = "running" => q.version = r.version
            /\ r.status # "running" => q.version = r.version + 1
<1> DEFINE b == [r EXCEPT !.steps[i] = [status |-> "running", begun |-> @.begun + 1]]
<1>0. b.steps = [r.steps EXCEPT ![i] = [status |-> "running", begun |-> @.begun + 1]]
  BY DEF Rows
<1>1. /\ b \in Rows /\ b.status = r.status /\ b.version = r.version
      /\ IsCurrent(b, i)
  <2>1. [status |-> "running", begun |-> r.steps[i].begun + 1]
          \in [status : StepStatuses, begun : Nat]
    BY DEF Rows, StepStatuses
  <2>2. b.steps \in [StepIds -> [status : StepStatuses, begun : Nat]]
    BY <1>0, <2>1 DEF Rows
  <2>3. b.steps[i].status = "running" /\ \A j \in StepIds \ {i} : b.steps[j] = r.steps[j]
    BY <1>0 DEF Rows
  <2>4. 1..(i - 1) \subseteq StepIds \ {i}
    BY NodesAssumption DEF StepIds
  <2>5. IsCurrent(b, i)
    BY <2>3, <2>4 DEF IsCurrent
  <2> QED
    BY <2>2, <2>5 DEF Rows
<1>2. "running" \in RunStatuses
  BY DEF RunStatuses
<1>3. Begin(r, i) = MoveTo(b, "running")
  BY DEF Begin
<1> HIDE DEF b
<1>4. IsCurrent(MoveTo(b, "running"), i)
  BY <1>1, <1>2, MoveToFacts DEF IsCurrent
<1> QED
  BY <1>1, <1>2, <1>3, <1>4, MoveToFacts DEF Carried

\* The statuses the services name are statuses.
LEMMA NamedStatuses ==
  {"draft", "resource_queue", "running", "paused", "completed", "cancelled", "timed_out",
   "execution_failed", "awaiting_review", "awaiting_step_start",
   "awaiting_step_completion", "awaiting_step_retry"} \subseteq RunStatuses
BY DEF RunStatuses, TerminalRunStatuses, PausableRunStatuses

LEMMA AdvanceFacts ==
  ASSUME NEW r \in Rows,
         r.status \in {"awaiting_step_start", "awaiting_step_completion"}
  PROVE  LET q == Advance(r)
         IN /\ q \in Rows
            /\ q.status # "paused"
            /\ Carried(q)
            /\ q.version >= r.version
            /\ r.status = "awaiting_step_completion" => q.version > r.version
<1> USE NamedStatuses
<1>0. r.version \in Nat
  BY DEF Rows
<1>1. CASE AllSucceeded(r)
  <2>1. PICK t \in {"awaiting_review", "completed"} : Advance(r) = Release(MoveTo(r, t))
    BY <1>1 DEF Advance
  <2>2. MoveTo(r, t) \in Rows /\ MoveTo(r, t).status = t /\ MoveTo(r, t).version = r.version + 1
    BY <2>1, MoveToFacts
  <2> QED
    BY <1>0, <2>1, <2>2, ReleaseFacts DEF Carried
<1>2. CASE ~AllSucceeded(r)
  <2> DEFINE i == Current(r)
             q == MoveTo(r, "awaiting_step_start")
  <2>1. i \in StepIds /\ IsCurrent(r, i)
    BY <1>2, CurrentFacts
  <2>2. /\ q \in Rows /\ q.status = "awaiting_step_start" /\ q.version >= r.version
        /\ r.status = "awaiting_step_completion" => q.version > r.version
        /\ IsCurrent(q, i)
    <3>1. q \in Rows /\ q.status = "awaiting_step_start" /\ q.steps = r.steps
      BY MoveToFacts
    <3>2. IF r.status = "awaiting_step_start" THEN q = r ELSE q.version = r.version + 1
      BY MoveToFacts
    <3>3. IsCurrent(q, i)
      BY <2>1, <3>1 DEF IsCurrent
    <3> QED
      BY <1>0, <3>1, <3>2, <3>3
  <2> HIDE DEF i, q
  <2>3. CASE Nodes[i] = "report_generation"
    <3> DEFINE p == IF r.steps[i].status = "pending" THEN SetStep(r, i, "waiting") ELSE r
    <3>1. p \in Rows /\ p.status = r.status /\ p.version = r.version
      BY SetStepFacts DEF StepStatuses
    <3>2. Advance(r) = Release(MoveTo(p, "awaiting_review"))
      BY <1>2, <2>3 DEF Advance, i, q
    <3> HIDE DEF p
    <3>3. /\ MoveTo(p, "awaiting_review") \in Rows
          /\ MoveTo(p, "awaiting_review").status = "awaiting_review"
          /\ MoveTo(p, "awaiting_review").version = r.version + 1
      <4>1. "awaiting_review" \in RunStatuses /\ p.status # "awaiting_review"
        BY <3>1
      <4> QED
        BY <3>1, <4>1, Moved
    <3> QED
      BY <1>0, <3>2, <3>3, ReleaseFacts DEF Carried
  <2>4. CASE Nodes[i] = "wiring_confirmation"
    <3>1. Advance(r) = MoveTo(SetStep(q, i, "waiting"), "awaiting_step_completion")
      BY <1>2, <2>4 DEF Advance, i, q
    <3> DEFINE p == SetStep(q, i, "waiting")
    <3>2. p \in Rows /\ p.status = "awaiting_step_start" /\ p.version = q.version
      BY <2>2, SetStepFacts DEF StepStatuses
    <3> HIDE DEF p
    <3>3. /\ MoveTo(p, "awaiting_step_completion") \in Rows
          /\ MoveTo(p, "awaiting_step_completion").status = "awaiting_step_completion"
          /\ MoveTo(p, "awaiting_step_completion").version = q.version + 1
      <4>1. /\ "awaiting_step_completion" \in RunStatuses
            /\ p.status # "awaiting_step_completion"
        BY <3>2
      <4> QED
        BY <3>2, <4>1, Moved
    <3>4. q.version \in Nat
      BY <2>2 DEF Rows
    <3> QED
      BY <1>0, <2>2, <3>1, <3>3, <3>4 DEF Carried, p
  <2>5. CASE Nodes[i] = "capture"
    <3>1. Advance(r) = Begin(q, i)
      BY <1>2, <2>5 DEF Advance, i, q
    <3>2. q.version \in Nat
      BY <2>2 DEF Rows
    <3> QED
      BY <1>0, <2>1, <2>2, <3>1, <3>2, BeginFacts
  <2>6. CASE Nodes[i] \notin {"report_generation", "wiring_confirmation", "capture"}
    <3>1. Advance(r) = q
      BY <1>2, <2>6 DEF Advance, i, q
    <3> QED
      BY <2>2, <3>1 DEF Carried
  <2> QED
    BY <2>3, <2>4, <2>5, <2>6
<1> QED
  BY <1>1, <1>2

\* A move to a status that is neither running nor paused, from another one.
LEMMA MovedFollows ==
  ASSUME NEW r \in Rows, NEW p \in Rows, p.status = r.status, p.version = r.version,
         NEW t \in RunStatuses \ {"running", "paused"}, r.status # t
  PROVE  Follows(MoveTo(p, t), r) /\ Follows(Release(MoveTo(p, t)), r)
<1>1. r.version \in Nat
  BY DEF Rows
<1>2. /\ MoveTo(p, t) \in Rows /\ MoveTo(p, t).status = t
      /\ MoveTo(p, t).version = r.version + 1
  BY Moved
<1> QED
  BY <1>1, <1>2, ReleaseFacts DEF Follows, WellPaused, Carried

LEMMA BeginFollows ==
  ASSUME NEW r \in Rows, NEW i \in StepIds, IsCurrent(r, i), r.status # "running"
  PROVE  Follows(Begin(r, i), r)
<1>1. r.version \in Nat
  BY DEF Rows
<1> QED
  BY <1>1, BeginFacts DEF Follows, WellPaused

LEMMA CompleteFollows ==
  ASSUME NEW r \in Rows, NEW i, r.status = "awaiting_step_completion"
  PROVE  Follows(CompleteStep(r, i), r)
<1> DEFINE p == SetStep(r, i, "succeeded")
<1>1. p \in Rows /\ p.status = r.status /\ p.version = r.version
  BY SetStepFacts DEF StepStatuses
<1> HIDE DEF p
<1>2. /\ Advance(p) \in Rows /\ Advance(p).status # "paused" /\ Carried(Advance(p))
      /\ Advance(p).version > r.version
  BY <1>1, AdvanceFacts
<1> QED
  BY <1>2 DEF CompleteStep, p, Follows, WellPaused

LEMMA StartWorkflowFollows ==
  ASSUME NEW r \in Rows, r.status \in {"draft", "resource_queue"}, NEW acquired \in BOOLEAN
  PROVE  Follows(StartWorkflow(r, acquired), r)
<1> USE NamedStatuses
<1>1. CASE ~acquired /\ r.status = "resource_queue"
  <2>1. StartWorkflow(r, acquired) = r
    BY <1>1 DEF StartWorkflow, MoveTo
  <2> QED
    BY <1>1, <2>1 DEF Follows, WellPaused, Carried
<1>2. CASE ~acquired /\ r.status = "draft"
  <2>1. StartWorkflow(r, acquired) = MoveTo(r, "resource_queue")
    BY <1>2 DEF StartWorkflow
  <2> QED
    BY <1>2, <2>1, MovedFollows
<1>3. CASE acquired /\ Nodes = << >>
  <2>1. StartWorkflow(r, acquired) = Release(MoveTo(r, "completed"))
    BY <1>3 DEF StartWorkflow
  <2> QED
    BY <2>1, MovedFollows
<1>4. CASE acquired /\ Nodes # << >>
  <2> DEFINE p == [r EXCEPT !.locked = TRUE]
             q == MoveTo(p, "awaiting_step_start")
  <2>1. p \in Rows /\ p.status = r.status /\ p.version = r.version
    BY DEF Rows
  <2> HIDE DEF p
  <2>2. "awaiting_step_start" \in RunStatuses /\ p.status # "awaiting_step_start"
    BY <2>1
  <2>3. q \in Rows /\ q.status = "awaiting_step_start" /\ q.version = r.version + 1
    BY <2>1, <2>2, Moved
  <2> HIDE DEF q
  <2>4. /\ Advance(q) \in Rows /\ Advance(q).status # "paused" /\ Carried(Advance(q))
        /\ Advance(q).version >= q.version
    BY <2>3, AdvanceFacts
  <2>5. r.version \in Nat /\ Advance(q).version \in Nat
    BY <2>4 DEF Rows
  <2>6. StartWorkflow(r, acquired) = Advance(q)
    BY <1>4 DEF StartWorkflow, p, q
  <2> QED
    BY <2>3, <2>4, <2>5, <2>6 DEF Follows, WellPaused
<1> QED
  BY <1>1, <1>2, <1>3, <1>4

LEMMA StepDoneFollows ==
  ASSUME NEW r \in Rows, NEW i, r.status = "running"
  PROVE  Follows(StepDone(r, i), r)
<1> USE NamedStatuses
<1> DEFINE p == SetStep(r, i, "waiting")
           q == MoveTo(p, "awaiting_step_completion")
<1>1. p \in Rows /\ p.status = r.status /\ p.version = r.version
  BY SetStepFacts DEF StepStatuses
<1>2. "awaiting_step_completion" \in RunStatuses
  OBVIOUS
<1> HIDE DEF p
<1>3. q \in Rows /\ q.status = "awaiting_step_completion" /\ q.version = r.version + 1
  BY <1>1, <1>2, Moved
<1>4. Follows(q, r)
  BY <1>1, <1>2, MovedFollows
<1> HIDE DEF q
<1>5. CASE Nodes[i] = "capture"
  <2>1. Follows(CompleteStep(q, i), q)
    BY <1>3, CompleteFollows
  <2>2. StepDone(r, i) = CompleteStep(q, i)
    BY <1>5 DEF StepDone, p, q
  <2>3. r.version \in Nat /\ CompleteStep(q, i).version \in Nat
    BY <2>1 DEF Follows, Rows
  <2> QED
    BY <1>3, <2>1, <2>2, <2>3 DEF Follows
<1>6. CASE Nodes[i] # "capture"
  BY <1>4, <1>6 DEF StepDone, p, q
<1> QED
  BY <1>5, <1>6

LEMMA StepFailedFollows ==
  ASSUME NEW r \in Rows, r.status = "running"
  PROVE  Follows(StepFailed(r), r)
<1> USE NamedStatuses
<1>1. CASE \E i \in StepIds : r.steps[i].status = "running"
  <2>1. PICK i : StepFailed(r) = MoveTo(SetStep(r, i, "failed"), "awaiting_step_retry")
    BY <1>1 DEF StepFailed
  <2>2. /\ SetStep(r, i, "failed") \in Rows
        /\ SetStep(r, i, "failed").status = r.status
        /\ SetStep(r, i, "failed").version = r.version
    BY SetStepFacts DEF StepStatuses
  <2> QED
    BY <2>1, <2>2, MovedFollows
<1>2. CASE ~\E i \in StepIds : r.steps[i].status = "running"
  <2>1. StepFailed(r) = Release(MoveTo(r, "execution_failed"))
    BY <1>2 DEF StepFailed
  <2> QED
    BY <2>1, MovedFollows
<1> QED
  BY <1>1, <1>2

LEMMA CancelFollows ==
  ASSUME NEW r \in Rows, r.status \in RunStatuses \ TerminalRunStatuses
  PROVE  Follows(Cancel(r), r) /\ Cancel(r).status = "cancelled"
<1> DEFINE p == CancelSteps(r, {"running", "waiting"})
<1>1. p \in Rows /\ p.status = r.status /\ p.version = r.version
  BY CancelStepsFacts
<1>2. "cancelled" \in RunStatuses /\ r.status # "cancelled"
  BY NamedStatuses DEF TerminalRunStatuses
<1> HIDE DEF p
<1>3. MoveTo(p, "cancelled") \in Rows /\ MoveTo(p, "cancelled").status = "cancelled"
  BY <1>1, <1>2, Moved
<1>4. Follows(Release(MoveTo(p, "cancelled")), r)
  BY <1>1, <1>2, MovedFollows
<1> QED
  BY <1>3, <1>4, ReleaseFacts DEF Cancel, p

LEMMA ExpireFollows ==
  ASSUME NEW r \in Rows, r.status \in RunStatuses \ TerminalRunStatuses
  PROVE  Follows(Expire(r), r)
<1> DEFINE p == CancelSteps(r, {"pending", "running", "waiting", "failed"})
<1>1. p \in Rows /\ p.status = r.status /\ p.version = r.version
  BY CancelStepsFacts
<1>2. "timed_out" \in RunStatuses /\ r.status # "timed_out"
  BY NamedStatuses DEF TerminalRunStatuses
<1> HIDE DEF p
<1> QED
  BY <1>1, <1>2, MovedFollows DEF Expire, p

LEMMA PauseFollows ==
  ASSUME NEW r \in Rows, r.status \in PausableRunStatuses
  PROVE  Follows(Pause(r), r)
<1> DEFINE p == [r EXCEPT !.pausedFrom = r.status]
<1>1. p \in Rows /\ p.status = r.status /\ p.version = r.version /\ p.pausedFrom = r.status
  BY DEF Rows
<1>2. "paused" \in RunStatuses /\ r.status # "paused"
  BY NamedStatuses DEF PausableRunStatuses
<1> HIDE DEF p
<1>3. /\ MoveTo(p, "paused") \in Rows /\ MoveTo(p, "paused").status = "paused"
      /\ MoveTo(p, "paused").version = r.version + 1
      /\ MoveTo(p, "paused").pausedFrom = r.status
  BY <1>1, <1>2, Moved
<1>4. r.version \in Nat
  BY DEF Rows
<1> QED
  BY <1>3, <1>4 DEF Pause, p, Follows, WellPaused, Carried

LEMMA ResumeFollows ==
  ASSUME NEW r \in Rows, r.status = "paused", WellPaused(r)
  PROVE  Follows(Resume(r), r)
<1> DEFINE p == [r EXCEPT !.pausedFrom = "none"]
<1>1. p \in Rows /\ p.status = r.status /\ p.version = r.version
  BY DEF Rows
<1>2. r.pausedFrom \in RunStatuses \ {"running", "paused"}
  BY DEF WellPaused, RunStatuses, PausableRunStatuses
<1> HIDE DEF p
<1> QED
  BY <1>1, <1>2, MovedFollows DEF Resume, p

LEMMA VerdictFollows ==
  ASSUME NEW r \in Rows, r.status = "awaiting_review"
  PROVE  Follows(SubmitVerdict(r), r)
<1> DEFINE p == [r EXCEPT !.steps = [i \in StepIds |->
     IF Nodes[i] = "report_generation" /\ r.steps[i].status = "waiting"
     THEN [r.steps[i] EXCEPT !.status = "succeeded"] ELSE r.steps[i]]]
<1>1. p \in Rows /\ p.status = r.status /\ p.version = r.version
  BY DEF Rows, StepStatuses
<1>2. "completed" \in RunStatuses
  BY NamedStatuses
<1> HIDE DEF p
<1> QED
  BY <1>1, <1>2, MovedFollows DEF SubmitVerdict, p

LEMMA RetryFollows ==
  ASSUME NEW r \in Rows, NEW i \in StepIds,
         \/ CanBegin(r, i, "awaiting_step_retry", "failed")
         \/ CanComplete(r, i)
  PROVE  Follows(RetryStep(r, i), r)
<1> USE NamedStatuses
<1>1. CASE CanBegin(r, i, "awaiting_step_retry", "failed")
  <2>1. RetryStep(r, i) = Begin(r, i)
    BY <1>1 DEF RetryStep, CanBegin
  <2> QED
    BY <1>1, <2>1, BeginFollows DEF CanBegin
<1>2. CASE CanComplete(r, i)
  <2> DEFINE p == SetStep(r, i, "failed")
             q == MoveTo(p, "awaiting_step_retry")
  <2>1. p \in Rows /\ p.status = r.status /\ p.version = r.version
    BY SetStepFacts DEF StepStatuses
  <2>2. IsCurrent(p, i)
    <3>1. p.steps = [r.steps EXCEPT ![i].status = "failed"]
      BY DEF SetStep, Rows
    <3>2. p.steps[i].status = "failed" /\ \A j \in StepIds \ {i} : p.steps[j] = r.steps[j]
      BY <3>1 DEF Rows
    <3>3. 1..(i - 1) \subseteq StepIds \ {i}
      BY NodesAssumption DEF StepIds
    <3> QED
      BY <1>2, <3>2, <3>3 DEF IsCurrent, CanComplete, CanBegin
  <2>3. p.status # "awaiting_step_retry" /\ "awaiting_step_retry" \in RunStatuses
    BY <1>2, <2>1 DEF CanComplete, CanBegin
  <2> HIDE DEF p
  <2>4. /\ q \in Rows /\ q.status = "awaiting_step_retry"
        /\ q.version = r.version + 1 /\ q.steps = p.steps
    BY <2>1, <2>3, Moved
  <2>5. IsCurrent(q, i)
    BY <2>2, <2>4 DEF IsCurrent
  <2> HIDE DEF q
  <2>6. Follows(Begin(q, i), q)
    BY <2>4, <2>5, BeginFollows
  <2>7. RetryStep(r, i) = Begin(q, i)
    BY <1>2 DEF RetryStep, CanComplete, CanBegin, p, q
  <2>8. r.version \in Nat /\ Begin(q, i).version \in Nat
    BY <2>6 DEF Follows, Rows
  <2> QED
    BY <2>4, <2>6, <2>7, <2>8 DEF Follows
<1> QED
  BY <1>1, <1>2

-----------------------------------------------------------------------------
(* The inductive invariant *)

\* What is in flight has passed its guards; a run that was never moved is a draft.
RequestsPassed ==
  \A q \in reqs :
    IF q.op = "purge" THEN q.seen.status = "cancelled" ELSE Accepted(q.op, q.seen, q.step)

ExecutionsRunnable ==
  \A e \in execs : e.phase = "work" =>
    \/ e.key[1] \in RunKinds /\ e.seen.status \in {"draft", "resource_queue"}
    \/ e.key[1] = "step" /\ e.seen.status = "running"

FirstVersion == row.version = 0 /\ row.status # "deleted" => row = Draft

IInv ==
  /\ TypeOK
  /\ VersionFencesSnapshots
  /\ RequestsPassed
  /\ ExecutionsRunnable
  /\ FirstVersion
  /\ WellPaused(row)

\* How a step may write the row, and where the snapshots after it come from.
RowMoves ==
  /\ row' \in Rows
  /\ WellPaused(row)'
  /\ \/ row' = row
     \/ row'.version > row.version
     \/ row'.status = "deleted" /\ row'.version = row.version

SnapshotsKept ==
  \A s \in reqs' \cup execs' :
    s.seen = row' \/ s.seen = Draft \/ \E t \in reqs \cup execs : t.seen = s.seen

TasksOK(ts) ==
  /\ DOMAIN ts \subseteq TaskKeys
  /\ ts \in [DOMAIN ts ->
       [status : {"queued", "running", "succeeded", "failed"}, attempts : 0..MaxAttempts]]

LEMMA DraftType == Draft \in Rows /\ Draft.version = 0 /\ Draft.status = "draft"
BY NamedStatuses DEF Draft, Rows, StepStatuses

LEMMA EnqueuedType ==
  ASSUME NEW ts, TasksOK(ts), NEW key \in TaskKeys, NEW reactivate
  PROVE  TasksOK(Enqueued(ts, key, reactivate))
BY BoundsAssumption DEF TasksOK, Enqueued, NewTask

LEMMA WithStepTaskType ==
  ASSUME NEW ts, TasksOK(ts), NEW r \in Rows, Carried(r)
  PROVE  TasksOK(WithStepTask(ts, r))
<1>1. CASE r.status = "running"
  <2>1. Current(r) \in StepIds
    BY <1>1 DEF Carried, Current
  <2>2. StepTask(r, Current(r)) \in TaskKeys
    BY <2>1, NodesAssumption DEF StepTask, TaskKeys, StepIds, Rows
  <2> QED
    BY <1>1, <2>2, EnqueuedType DEF WithStepTask
<1>2. CASE r.status # "running"
  BY <1>2 DEF WithStepTask
<1> QED
  BY <1>1, <1>2

\* A fresh snapshot is the row, so what follows the snapshot follows the row.
LEMMA Wrote ==
  ASSUME IInv, NEW s \in reqs \cup execs, Fresh(s.seen), NEW r, Follows(r, s.seen), row' = r
  PROVE  RowMoves
BY DEF IInv, VersionFencesSnapshots, Follows, RowMoves, WellPaused

\* The heart of the argument.
LEMMA StillFenced ==
  ASSUME IInv, RowMoves, SnapshotsKept
  PROVE  VersionFencesSnapshots' /\ FirstVersion' /\ WellPaused(row)'
<1>1. row.version \in Nat /\ row'.version \in Nat /\ row'.version >= row.version
  BY DEF IInv, TypeOK, RowMoves, Rows
<1>2. FirstVersion'
  BY <1>1 DEF IInv, FirstVersion, RowMoves
<1>3. ASSUME NEW s \in reqs' \cup execs'
      PROVE  s.seen.version <= row'.version /\ (Fresh(s.seen)' => s.seen = row')
  <2>1. CASE s.seen = row'
    BY <1>1, <2>1
  <2>2. CASE s.seen = Draft
    BY <1>1, <1>2, <2>2, DraftType DEF FirstVersion, Fresh
  <2>3. CASE \E t \in reqs \cup execs : t.seen = s.seen
    <3>1. PICK t \in reqs \cup execs : t.seen = s.seen
      BY <2>3
    <3>2. t.seen \in Rows
      BY DEF IInv, TypeOK
    <3>3. t.seen.version \in Nat /\ t.seen.version <= row.version
      BY <3>2 DEF IInv, VersionFencesSnapshots, Rows
    <3>4. ASSUME Fresh(s.seen)' PROVE s.seen = row'
      <4>1. row'.version = t.seen.version /\ row'.status # "deleted"
        BY <3>1, <3>4 DEF Fresh
      <4>2. row' = row
        BY <1>1, <3>3, <4>1 DEF RowMoves
      <4> QED
        BY <3>1, <4>1, <4>2 DEF IInv, VersionFencesSnapshots, Fresh
    <3> QED
      BY <1>1, <3>1, <3>3, <3>4
  <2> QED
    BY <2>1, <2>2, <2>3 DEF SnapshotsKept
<1> QED
  BY <1>2, <1>3 DEF RowMoves, VersionFencesSnapshots

LEMMA SaveKeeps ==
  ASSUME IInv, NEW q \in reqs, NEW r, Save(q, r), Follows(r, q.seen)
  PROVE  IInv'
<1>1. Fresh(q.seen) /\ row' = r /\ reqs' = reqs \ {q}
      /\ tasks' = WithStepTask(tasks, r) /\ UNCHANGED <<execs, up, crashes, stops>>
  BY DEF Save
<1>2. RowMoves
  BY <1>1, Wrote
<1>3. SnapshotsKept
  BY <1>1 DEF SnapshotsKept
<1>4. TasksOK(tasks')
  BY <1>1, WithStepTaskType DEF IInv, TypeOK, TasksOK, Follows
<1>5. TypeOK'
  BY <1>1, <1>2, <1>4 DEF IInv, TypeOK, TasksOK, RowMoves
<1>6. RequestsPassed' /\ ExecutionsRunnable'
  BY <1>1 DEF IInv, RequestsPassed, ExecutionsRunnable
<1> QED
  BY <1>2, <1>3, <1>5, <1>6, StillFenced DEF IInv

LEMMA FinishesKeeps ==
  ASSUME IInv, NEW e \in execs, NEW r, Finishes(e, r), Follows(r, e.seen)
  PROVE  IInv'
<1>1. UNCHANGED <<reqs, up, crashes, stops>>
  BY DEF Finishes
<1>2. PICK phase \in {"ok", "err"} :
        execs' = (execs \ {e}) \cup {[e EXCEPT !.phase = phase, !.seen = NoSession]}
  BY DEF Finishes
<1>3. RowMoves
  <2>1. CASE Fresh(e.seen)
    BY <2>1, Wrote DEF Finishes
  <2>2. CASE ~Fresh(e.seen)
    BY <2>2 DEF Finishes, RowMoves, IInv, TypeOK, WellPaused
  <2> QED
    BY <2>1, <2>2
<1>4. TasksOK(tasks')
  BY WithStepTaskType DEF Finishes, IInv, TypeOK, TasksOK, Follows
<1>5. [e EXCEPT !.phase = phase, !.seen = NoSession]
        \in [key : TaskKeys, phase : {"claimed", "work", "ok", "err"}, seen : Rows]
      /\ [e EXCEPT !.phase = phase, !.seen = NoSession].seen = Draft
      /\ [e EXCEPT !.phase = phase, !.seen = NoSession].phase = phase
  BY DraftType DEF IInv, TypeOK, NoSession
<1>6. SnapshotsKept
  BY <1>1, <1>2, <1>5 DEF SnapshotsKept
<1>7. TypeOK'
  BY <1>1, <1>2, <1>3, <1>4, <1>5 DEF IInv, TypeOK, TasksOK, RowMoves
<1>8. RequestsPassed' /\ ExecutionsRunnable'
  BY <1>1, <1>2, <1>5 DEF IInv, RequestsPassed, ExecutionsRunnable
<1> QED
  BY <1>3, <1>6, <1>7, <1>8, StillFenced DEF IInv

\* A step that leaves the row alone, and whose requests and executions are in order.
LEMMA RowAloneKeeps ==
  ASSUME IInv, row' = row, TypeOK', SnapshotsKept, RequestsPassed', ExecutionsRunnable'
  PROVE  IInv'
<1>1. RowMoves
  BY DEF RowMoves, IInv, TypeOK, WellPaused
<1> QED
  BY <1>1, StillFenced DEF IInv

LEMMA ReceiveKeeps ==
  ASSUME IInv, NEW c \in Clients, NEW op \in Operations, NEW i \in 0..Len(Nodes),
         Receive(c, op, i)
  PROVE  IInv'
<1> DEFINE q == [client |-> c, op |-> op, step |-> i, seen |-> row]
<1>1. reqs' = reqs \cup {q} /\ Accepted(op, row, i)
      /\ UNCHANGED <<row, tasks, execs, up, crashes, stops>>
  BY DEF Receive
<1>2. q.op # "purge" /\ Accepted(q.op, q.seen, q.step) /\ q.seen = row
  BY <1>1, OperationsAssumption DEF RequestKinds
<1>3. q \in [client : Clients, op : Operations \cup {"purge"}, step : 0..Len(Nodes), seen : Rows]
  BY DEF IInv, TypeOK
<1> HIDE DEF q
<1>4. TypeOK'
  BY <1>1, <1>3 DEF IInv, TypeOK
<1>5. SnapshotsKept
  BY <1>1, <1>2 DEF SnapshotsKept
<1>6. RequestsPassed' /\ ExecutionsRunnable'
  BY <1>1, <1>2 DEF IInv, RequestsPassed, ExecutionsRunnable
<1> QED
  BY <1>1, <1>4, <1>5, <1>6, RowAloneKeeps

\* What the guard of a request says of the snapshot it still holds.
LEMMA PassedFacts ==
  ASSUME IInv, NEW q \in reqs
  PROVE  /\ q.seen \in Rows
         /\ q.op # "purge" => Accepted(q.op, q.seen, q.step)
         /\ q.op = "purge" => q.seen.status = "cancelled"
         /\ q.step # 0 => q.step \in StepIds
         /\ Fresh(q.seen) => WellPaused(q.seen)
BY NodesAssumption DEF IInv, TypeOK, RequestsPassed, StepIds, VersionFencesSnapshots

LEMMA SavesKeep ==
  ASSUME IInv, NEW q \in reqs,
         \/ StepStarted(q) \/ StepRetried(q) \/ Reanalyzed(q) \/ StepCompleted(q)
         \/ RunCancelled(q) \/ RunExpired(q) \/ RunPaused(q) \/ VerdictSubmitted(q)
  PROVE  IInv'
<1>1. CASE StepStarted(q)
  <2>1. q.step \in StepIds /\ CanBegin(q.seen, q.step, "awaiting_step_start", "pending")
    BY <1>1, PassedFacts DEF StepStarted, Accepted
  <2>2. Follows(Begin(q.seen, q.step), q.seen)
    BY <2>1, PassedFacts, BeginFollows DEF CanBegin
  <2> QED
    BY <1>1, <2>2, SaveKeeps DEF StepStarted
<1>2. CASE StepRetried(q)
  <2>1. q.step \in StepIds /\ \/ CanBegin(q.seen, q.step, "awaiting_step_retry", "failed")
                              \/ CanComplete(q.seen, q.step)
    BY <1>2, PassedFacts DEF StepRetried, Accepted
  <2>2. Follows(RetryStep(q.seen, q.step), q.seen)
    BY <2>1, PassedFacts, RetryFollows
  <2> QED
    BY <1>2, <2>2, SaveKeeps DEF StepRetried
<1>3. CASE Reanalyzed(q)
  <2>1. q.step \in StepIds /\ CanComplete(q.seen, q.step)
    BY <1>3, PassedFacts DEF Reanalyzed, Accepted
  <2>2. Follows(Begin(q.seen, q.step), q.seen)
    BY <2>1, PassedFacts, BeginFollows DEF CanComplete, CanBegin
  <2> QED
    BY <1>3, <2>2, SaveKeeps DEF Reanalyzed
<1>4. CASE StepCompleted(q)
  <2>1. q.seen.status = "awaiting_step_completion"
    BY <1>4, PassedFacts DEF StepCompleted, Accepted, CanComplete, CanBegin
  <2>2. Follows(CompleteStep(q.seen, q.step), q.seen)
    BY <2>1, PassedFacts, CompleteFollows
  <2> QED
    BY <1>4, <2>2, SaveKeeps DEF StepCompleted
<1>5. CASE RunCancelled(q)
  <2>1. q.seen.status \in RunStatuses \ TerminalRunStatuses
    BY <1>5, PassedFacts DEF RunCancelled, Accepted
  <2>2. Follows(Cancel(q.seen), q.seen)
    BY <2>1, PassedFacts, CancelFollows
  <2> QED
    BY <1>5, <2>2, SaveKeeps DEF RunCancelled
<1>6. CASE RunExpired(q)
  <2>1. q.seen.status \in RunStatuses \ TerminalRunStatuses
    BY <1>6, PassedFacts DEF RunExpired, Accepted
  <2>2. Follows(Expire(q.seen), q.seen)
    BY <2>1, PassedFacts, ExpireFollows
  <2> QED
    BY <1>6, <2>2, SaveKeeps DEF RunExpired
<1>7. CASE RunPaused(q)
  <2>1. q.seen.status \in PausableRunStatuses
    BY <1>7, PassedFacts DEF RunPaused, Accepted
  <2>2. Follows(Pause(q.seen), q.seen)
    BY <2>1, PassedFacts, PauseFollows
  <2> QED
    BY <1>7, <2>2, SaveKeeps DEF RunPaused
<1>8. CASE VerdictSubmitted(q)
  <2>1. q.seen.status = "awaiting_review"
    BY <1>8, PassedFacts DEF VerdictSubmitted, Accepted
  <2>2. Follows(SubmitVerdict(q.seen), q.seen)
    BY <2>1, PassedFacts, VerdictFollows
  <2> QED
    BY <1>8, <2>2, SaveKeeps DEF VerdictSubmitted
<1> QED
  BY <1>1, <1>2, <1>3, <1>4, <1>5, <1>6, <1>7, <1>8

LEMMA ConflictKeeps ==
  ASSUME IInv, NEW q \in reqs, Conflict(q)
  PROVE  IInv'
<1>1. reqs' = reqs \ {q} /\ UNCHANGED <<row, tasks, execs, up, crashes, stops>>
  BY DEF Conflict
<1>2. TypeOK' /\ SnapshotsKept
  BY <1>1 DEF IInv, TypeOK, SnapshotsKept
<1>3. RequestsPassed' /\ ExecutionsRunnable'
  BY <1>1 DEF IInv, RequestsPassed, ExecutionsRunnable
<1> QED
  BY <1>1, <1>2, <1>3, RowAloneKeeps

LEMMA StartRequestedKeeps ==
  ASSUME IInv, NEW q \in reqs, StartRequested(q)
  PROVE  IInv'
<1> DEFINE r == MoveTo(q.seen, "resource_queue")
<1>1. reqs' = reqs \ {q} /\ UNCHANGED <<execs, up, crashes, stops>>
  BY DEF StartRequested
<1>2. q.seen \in Rows /\ q.seen.status \in {"draft", "resource_queue"}
  BY PassedFacts DEF StartRequested, Accepted
<1>3. r \in Rows
  BY <1>2, MoveToFacts, NamedStatuses
<1>4. RowMoves
  <2>1. CASE WritesRun(q)
    <3>1. q.seen.status = "draft"
      BY <2>1 DEF StartRequested, WritesRun
    <3>2. "resource_queue" \in RunStatuses \ {"running", "paused"}
      BY NamedStatuses
    <3>3. Follows(r, q.seen)
      BY <1>2, <3>1, <3>2, MovedFollows
    <3> QED
      BY <2>1, <3>3, Wrote DEF StartRequested
  <2>2. CASE ~WritesRun(q)
    BY <2>2 DEF StartRequested, RowMoves, IInv, TypeOK, WellPaused
  <2> QED
    BY <2>1, <2>2
<1>5. TasksOK(tasks')
  <2>1. RunTask("start", r.version) \in TaskKeys
    BY <1>3 DEF RunTask, TaskKeys, RunKinds, Rows
  <2> QED
    BY <2>1, EnqueuedType DEF StartRequested, IInv, TypeOK, TasksOK
<1>6. TypeOK' /\ SnapshotsKept
  BY <1>1, <1>4, <1>5 DEF IInv, TypeOK, TasksOK, RowMoves, SnapshotsKept
<1>7. RequestsPassed' /\ ExecutionsRunnable'
  BY <1>1 DEF IInv, RequestsPassed, ExecutionsRunnable
<1> QED
  BY <1>4, <1>6, <1>7, StillFenced DEF IInv

LEMMA RunResumedKeeps ==
  ASSUME IInv, NEW q \in reqs, RunResumed(q)
  PROVE  IInv'
<1>1. /\ Fresh(q.seen) /\ row' = Resume(q.seen) /\ reqs' = reqs \ {q}
      /\ UNCHANGED <<execs, up, crashes, stops>>
  BY DEF RunResumed
<1>2. Follows(Resume(q.seen), q.seen)
  BY <1>1, PassedFacts, ResumeFollows DEF RunResumed, Accepted
<1>3. RowMoves
  BY <1>1, <1>2, Wrote
<1>4. TasksOK(tasks')
  <2>1. RunTask("resume", row'.version) \in TaskKeys
    BY <1>3 DEF RowMoves, RunTask, TaskKeys, RunKinds, Rows
  <2>2. TasksOK(tasks)
    BY DEF IInv, TypeOK, TasksOK
  <2>3. TasksOK(Enqueued(tasks, RunTask("resume", row'.version), FALSE))
    BY <2>1, <2>2, EnqueuedType
  <2> QED
    BY <2>2, <2>3 DEF RunResumed
<1>5. TypeOK' /\ SnapshotsKept
  BY <1>1, <1>3, <1>4 DEF IInv, TypeOK, TasksOK, RowMoves, SnapshotsKept
<1>6. RequestsPassed' /\ ExecutionsRunnable'
  BY <1>1 DEF IInv, RequestsPassed, ExecutionsRunnable
<1> QED
  BY <1>3, <1>5, <1>6, StillFenced DEF IInv

LEMMA DeleteKeeps ==
  ASSUME IInv, NEW q \in reqs, DeleteCancels(q) \/ Purged(q)
  PROVE  IInv'
<1>1. CASE DeleteCancels(q)
  <2> DEFINE p == [q EXCEPT !.op = "purge", !.seen = row']
  <2>1. /\ Fresh(q.seen) /\ row' = Cancel(q.seen) /\ reqs' = (reqs \ {q}) \cup {p}
        /\ UNCHANGED <<tasks, execs, up, crashes, stops>>
    BY <1>1 DEF DeleteCancels
  <2>2. q.seen \in Rows /\ q.seen.status \in RunStatuses \ TerminalRunStatuses
    <3>1. q.seen \in Rows /\ q.seen.status \in DeletableStatuses
      BY <1>1, PassedFacts DEF DeleteCancels, Accepted
    <3>2. DeletableStatuses \subseteq RunStatuses
      BY DEF DeletableStatuses, RunStatuses, PausableRunStatuses
    <3> QED
      BY <1>1, <3>1, <3>2 DEF DeleteCancels
  <2>3. Follows(Cancel(q.seen), q.seen) /\ row'.status = "cancelled"
    BY <2>1, <2>2, CancelFollows
  <2>4. RowMoves
    BY <2>1, <2>3, Wrote
  <2>5. /\ p \in [client : Clients, op : Operations \cup {"purge"}, step : 0..Len(Nodes),
                  seen : Rows]
        /\ p.op = "purge" /\ p.seen = row'
    BY <2>4 DEF IInv, TypeOK, RowMoves
  <2> HIDE DEF p
  <2>6. TypeOK' /\ SnapshotsKept
    BY <2>1, <2>4, <2>5 DEF IInv, TypeOK, RowMoves, SnapshotsKept
  <2>7. RequestsPassed' /\ ExecutionsRunnable'
    BY <2>1, <2>3, <2>5 DEF IInv, RequestsPassed, ExecutionsRunnable
  <2> QED
    BY <2>4, <2>6, <2>7, StillFenced DEF IInv
<1>2. CASE Purged(q)
  <2>1. /\ row' = [row EXCEPT !.status = "deleted"] /\ tasks' = [k \in {} |-> NewTask]
        /\ reqs' = reqs \ {q} /\ UNCHANGED <<execs, up, crashes, stops>>
    BY <1>2 DEF Purged
  <2>2. RowMoves
    BY <2>1 DEF RowMoves, IInv, TypeOK, Rows, WellPaused
  <2>3. TypeOK' /\ SnapshotsKept
    BY <2>1, <2>2 DEF IInv, TypeOK, RowMoves, SnapshotsKept
  <2>4. RequestsPassed' /\ ExecutionsRunnable'
    BY <2>1 DEF IInv, RequestsPassed, ExecutionsRunnable
  <2> QED
    BY <2>2, <2>3, <2>4, StillFenced DEF IInv
<1> QED
  BY <1>1, <1>2

ExecRecords == [key : TaskKeys, phase : {"claimed", "work", "ok", "err"}, seen : Rows]

LEMMA ClaimKeeps ==
  ASSUME IInv, NEW key \in DOMAIN tasks, Claim(key)
  PROVE  IInv'
<1> DEFINE e == [key |-> key, phase |-> "claimed", seen |-> NoSession]
           task == [status |-> "running", attempts |-> tasks[key].attempts + 1]
<1>1. /\ execs' = execs \cup {e} /\ tasks' = [tasks EXCEPT ![key] = task]
      /\ tasks[key].attempts < MaxAttempts /\ UNCHANGED <<row, reqs, up, crashes, stops>>
  BY DEF Claim, Claimable
<1>2. e \in ExecRecords /\ e.seen = Draft /\ e.phase = "claimed"
  BY DraftType DEF IInv, TypeOK, NoSession, ExecRecords
<1>3. task \in [status : {"queued", "running", "succeeded", "failed"}, attempts : 0..MaxAttempts]
  BY <1>1, BoundsAssumption DEF IInv, TypeOK
<1> HIDE DEF e, task
<1>4. TypeOK' /\ SnapshotsKept
  BY <1>1, <1>2, <1>3 DEF IInv, TypeOK, SnapshotsKept, ExecRecords
<1>5. RequestsPassed' /\ ExecutionsRunnable'
  BY <1>1, <1>2 DEF IInv, RequestsPassed, ExecutionsRunnable
<1> QED
  BY <1>1, <1>4, <1>5, RowAloneKeeps

LEMMA LoadKeeps ==
  ASSUME IInv, NEW e \in execs, Load(e)
  PROVE  IInv'
<1>1. UNCHANGED <<row, tasks, reqs, up, crashes, stops>>
  BY DEF Load
<1>2. PICK f : /\ execs' = (execs \ {e}) \cup {f}
               /\ f = IF Runnable(e.key) THEN [e EXCEPT !.phase = "work", !.seen = row]
                                        ELSE [e EXCEPT !.phase = "ok"]
  BY DEF Load
<1>3. f \in ExecRecords /\ f.key = e.key /\ (f.seen = row' \/ f.seen = e.seen)
  BY <1>1, <1>2 DEF IInv, TypeOK, ExecRecords
<1>4. f.phase = "work" => Runnable(f.key) /\ f.seen = row
  BY <1>2 DEF IInv, TypeOK
<1>5. TypeOK' /\ SnapshotsKept
  BY <1>1, <1>2, <1>3 DEF IInv, TypeOK, SnapshotsKept, ExecRecords
<1>6. RequestsPassed' /\ ExecutionsRunnable'
  BY <1>1, <1>2, <1>4 DEF IInv, RequestsPassed, ExecutionsRunnable, Runnable
<1> QED
  BY <1>1, <1>5, <1>6, RowAloneKeeps

LEMMA WorkKeeps ==
  ASSUME IInv, NEW e \in execs, RunStarts(e) \/ HandlerReturns(e) \/ HandlerRaises(e)
  PROVE  IInv'
<1>1. e.seen \in Rows
  BY DEF IInv, TypeOK
<1>2. CASE RunStarts(e)
  <2>1. PICK acquired \in BOOLEAN : Finishes(e, StartWorkflow(e.seen, acquired))
    BY <1>2 DEF RunStarts
  <2>2. e.seen.status \in {"draft", "resource_queue"}
    BY <1>2 DEF RunStarts, IInv, ExecutionsRunnable, RunKinds
  <2> QED
    BY <1>1, <2>1, <2>2, StartWorkflowFollows, FinishesKeeps
<1>3. CASE HandlerReturns(e) \/ HandlerRaises(e)
  <2>1. e.seen.status = "running"
    BY <1>3 DEF HandlerReturns, HandlerRaises, IInv, ExecutionsRunnable, RunKinds
  <2>2. \/ Finishes(e, StepDone(e.seen, e.key[2]))
        \/ Finishes(e, StepFailed(e.seen))
    BY <1>3 DEF HandlerReturns, HandlerRaises
  <2> QED
    BY <1>1, <2>1, <2>2, StepDoneFollows, StepFailedFollows, FinishesKeeps
<1> QED
  BY <1>2, <1>3

LEMMA SettledType ==
  ASSUME NEW task \in [status : {"queued", "running", "succeeded", "failed"},
                      attempts : 0..MaxAttempts], NEW phase
  PROVE  Settled(task, phase) \in [status : {"queued", "running", "succeeded", "failed"},
                                  attempts : 0..MaxAttempts]
BY DEF Settled

LEMMA SettleKeeps ==
  ASSUME IInv, NEW e \in execs, Settle(e)
  PROVE  IInv'
<1>1. execs' = execs \ {e} /\ UNCHANGED <<row, reqs, up, crashes, stops>>
  BY DEF Settle
<1>2. TasksOK(tasks')
  BY SettledType DEF Settle, IInv, TypeOK, TasksOK
<1>3. TypeOK' /\ SnapshotsKept
  BY <1>1, <1>2 DEF IInv, TypeOK, TasksOK, SnapshotsKept
<1>4. RequestsPassed' /\ ExecutionsRunnable'
  BY <1>1 DEF IInv, RequestsPassed, ExecutionsRunnable
<1> QED
  BY <1>1, <1>3, <1>4, RowAloneKeeps

LEMMA ProcessKeeps ==
  ASSUME IInv, Crash \/ Stop \/ Restart
  PROVE  IInv'
<1>1. CASE Crash
  <2>1. /\ execs' = {} /\ reqs' = {} /\ up' = FALSE /\ crashes' = crashes + 1
        /\ crashes < MaxCrashes /\ UNCHANGED <<row, tasks, stops>>
    BY <1>1 DEF Crash
  <2>2. crashes' \in 0..MaxCrashes
    BY <2>1, BoundsAssumption DEF IInv, TypeOK
  <2>3. TypeOK'
    BY <2>1, <2>2 DEF IInv, TypeOK
  <2>4. SnapshotsKept /\ RequestsPassed' /\ ExecutionsRunnable'
    BY <2>1 DEF SnapshotsKept, RequestsPassed, ExecutionsRunnable
  <2> QED
    BY <2>1, <2>3, <2>4, RowAloneKeeps
<1>2. CASE Stop
  <2>1. /\ execs' = {} /\ up' = FALSE /\ stops' = stops + 1
        /\ stops < MaxStops /\ UNCHANGED <<row, reqs, crashes>>
    BY <1>2 DEF Stop
  <2>2. stops' \in 0..MaxStops
    BY <2>1, BoundsAssumption DEF IInv, TypeOK
  <2>3. TasksOK(tasks')
    <3>1. DOMAIN tasks' = DOMAIN tasks
      BY <1>2 DEF Stop
    <3>2. ASSUME NEW k \in DOMAIN tasks
          PROVE  tasks'[k] \in [status : {"queued", "running", "succeeded", "failed"},
                                attempts : 0..MaxAttempts]
      <4>1. tasks[k] \in [status : {"queued", "running", "succeeded", "failed"},
                          attempts : 0..MaxAttempts]
        BY DEF IInv, TypeOK
      <4>2. tasks'[k] = tasks[k] \/ \E phase : tasks'[k] = Settled(tasks[k], phase)
        BY <1>2 DEF Stop
      <4> QED
        BY <4>1, <4>2, SettledType
    <3>3. tasks' = [k \in DOMAIN tasks' |-> tasks'[k]]
      BY <1>2 DEF Stop
    <3> QED
      BY <3>1, <3>2, <3>3 DEF TasksOK, IInv, TypeOK
  <2>4. TypeOK'
    BY <2>1, <2>2, <2>3 DEF IInv, TypeOK, TasksOK
  <2>5. SnapshotsKept /\ RequestsPassed' /\ ExecutionsRunnable'
    BY <2>1 DEF IInv, SnapshotsKept, RequestsPassed, ExecutionsRunnable
  <2> QED
    BY <2>1, <2>4, <2>5, RowAloneKeeps
<1>3. CASE Restart
  <2>1. up' = TRUE /\ UNCHANGED <<row, execs, reqs, crashes, stops>>
    BY <1>3 DEF Restart
  <2>2. TasksOK(tasks')
    <3>1. RunTask("recovery", row.version) \in TaskKeys /\ TasksOK(tasks)
      BY DEF IInv, TypeOK, TasksOK, RunTask, TaskKeys, RunKinds, Rows
    <3>2. TasksOK(Enqueued(tasks, RunTask("recovery", row.version), FALSE))
      BY <3>1, EnqueuedType
    <3> QED
      BY <1>3, <3>1, <3>2 DEF Restart
  <2>3. TypeOK'
    BY <2>1, <2>2 DEF IInv, TypeOK, TasksOK
  <2>4. SnapshotsKept /\ RequestsPassed' /\ ExecutionsRunnable'
    BY <2>1 DEF IInv, SnapshotsKept, RequestsPassed, ExecutionsRunnable
  <2> QED
    BY <2>1, <2>3, <2>4, RowAloneKeeps
<1> QED
  BY <1>1, <1>2, <1>3

-----------------------------------------------------------------------------
(* Theorems *)

LEMMA StepKeeps == IInv /\ [Next]_vars => IInv'
<1> SUFFICES ASSUME IInv, [Next]_vars
             PROVE  IInv'
  OBVIOUS
<1>1. CASE Arrival
  BY <1>1, ReceiveKeeps DEF Arrival
<1>2. CASE Answer
  BY <1>2, ConflictKeeps, StartRequestedKeeps, SavesKeep, RunResumedKeeps, DeleteKeeps
     DEF Answer
<1>3. CASE Execution
  BY <1>3, ClaimKeeps, LoadKeeps, WorkKeeps, SettleKeeps DEF Execution
<1>4. CASE Crash \/ Stop \/ Restart
  BY <1>4, ProcessKeeps
<1>5. CASE UNCHANGED vars
  <2>1. TypeOK' /\ SnapshotsKept /\ row' = row
    BY <1>5 DEF vars, IInv, TypeOK, SnapshotsKept
  <2>2. RequestsPassed' /\ ExecutionsRunnable'
    BY <1>5 DEF vars, IInv, RequestsPassed, ExecutionsRunnable
  <2> QED
    BY <2>1, <2>2, RowAloneKeeps
<1> QED
  BY <1>1, <1>2, <1>3, <1>4, <1>5 DEF Next

LEMMA Inductive == Spec => []IInv
<1>1. Init => IInv
  <2> SUFFICES ASSUME Init PROVE IInv
    OBVIOUS
  <2>1. row = Draft /\ row.version = 0 /\ row.status = "draft" /\ row \in Rows
    BY DraftType DEF Init
  <2>2. TasksOK(tasks)
    BY DEF Init, TasksOK
  <2>3. TypeOK
    BY <2>1, <2>2, BoundsAssumption DEF Init, TypeOK, TasksOK
  <2>4. VersionFencesSnapshots /\ RequestsPassed /\ ExecutionsRunnable
    BY DEF Init, VersionFencesSnapshots, RequestsPassed, ExecutionsRunnable
  <2> QED
    BY <2>1, <2>3, <2>4 DEF IInv, FirstVersion, WellPaused
<1> QED
  BY <1>1, StepKeeps, PTL DEF Spec

\* The variables keep their types whatever the workflow, the requests and the stops.
THEOREM Typing == Spec => []TypeOK
<1>1. IInv => TypeOK
  BY DEF IInv
<1> QED
  BY <1>1, Inductive, PTL

\* A snapshot with the version of the run is the run: the version check of the run row
\* is enough to protect everything a request or a task writes with it.
THEOREM VersionFences == Spec => []VersionFencesSnapshots
<1>1. IInv => VersionFencesSnapshots
  BY DEF IInv
<1> QED
  BY <1>1, Inductive, PTL

\* A request or an execution that may write holds a snapshot of a run that had not ended.
LEMMA WritersSawNoEnd ==
  ASSUME IInv, row.status \in TerminalRunStatuses
  PROVE  /\ \A q \in reqs : q.op \notin {"purge", "delete"} => ~Fresh(q.seen)
         /\ \A e \in execs : e.phase = "work" => ~Fresh(e.seen)
<1>1. \A s \in reqs \cup execs : Fresh(s.seen) => s.seen.status \in TerminalRunStatuses
  BY DEF IInv, VersionFencesSnapshots
<1>2. ASSUME NEW q \in reqs, q.op \notin {"purge", "delete"}
      PROVE  q.seen.status \notin TerminalRunStatuses
  <2>1. q.op \in RequestKinds \ {"delete"} /\ Accepted(q.op, q.seen, q.step)
    BY <1>2, PassedFacts, OperationsAssumption DEF IInv, TypeOK
  <2> QED
    BY <2>1 DEF RequestKinds, Accepted, CanBegin, CanComplete, TerminalRunStatuses,
                PausableRunStatuses
<1>3. \A e \in execs : e.phase = "work" => e.seen.status \notin TerminalRunStatuses
  BY DEF IInv, ExecutionsRunnable, TerminalRunStatuses
<1> QED
  BY <1>1, <1>2, <1>3

\* Whatever was in flight when a run ended is refused; only its deletion moves it.
LEMMA EndStays ==
  ASSUME IInv, Next, row.status \in TerminalRunStatuses, row' # row
  PROVE  row'.status = "deleted" /\ row'.steps = row.steps
<1>1. CASE Answer
  <2>1. PICK q \in reqs : row' # row /\ (DeleteCancels(q) \/ Purged(q))
    <3>1. PICK q \in reqs :
            \/ Conflict(q) \/ StartRequested(q) \/ StepStarted(q) \/ StepRetried(q)
            \/ Reanalyzed(q) \/ StepCompleted(q) \/ RunCancelled(q) \/ RunExpired(q)
            \/ RunPaused(q) \/ RunResumed(q) \/ VerdictSubmitted(q)
            \/ DeleteCancels(q) \/ Purged(q)
      BY <1>1 DEF Answer
    <3>2. ~Conflict(q)
      BY DEF Conflict
    <3>3. ~StartRequested(q)
      BY WritersSawNoEnd DEF StartRequested
    <3>4. /\ ~StepStarted(q) /\ ~StepRetried(q) /\ ~Reanalyzed(q) /\ ~StepCompleted(q)
          /\ ~RunCancelled(q) /\ ~RunExpired(q) /\ ~RunPaused(q) /\ ~VerdictSubmitted(q)
          /\ ~RunResumed(q)
      BY WritersSawNoEnd
         DEF StepStarted, StepRetried, Reanalyzed, StepCompleted, RunCancelled, RunExpired,
             RunPaused, VerdictSubmitted, RunResumed, Save
    <3> QED
      BY <3>1, <3>2, <3>3, <3>4
  <2>2. ~DeleteCancels(q)
    BY DEF DeleteCancels, IInv, VersionFencesSnapshots
  <2>3. row' = [row EXCEPT !.status = "deleted"]
    BY <2>1, <2>2 DEF Purged
  <2> QED
    BY <2>3 DEF IInv, TypeOK, Rows
<1>2. CASE Execution
  BY <1>2, WritersSawNoEnd
     DEF Execution, Claim, Load, RunStarts, HandlerReturns, HandlerRaises, Finishes, Settle
<1>3. CASE Arrival \/ Crash \/ Stop \/ Restart
  BY <1>3 DEF Arrival, Receive, Crash, Stop, Restart
<1> QED
  BY <1>1, <1>2, <1>3 DEF Next

\* A run that ended is never moved again: whatever was in flight is refused.
THEOREM EndsForGood == Spec => EndIsFinal
<1>1. IInv /\ [Next]_vars =>
        [row.status \in TerminalRunStatuses =>
           row'.status = "deleted" /\ row'.steps = row.steps]_row
  BY EndStays DEF vars
<1> QED
  BY <1>1, Inductive, PTL DEF Spec, EndIsFinal
=============================================================================
