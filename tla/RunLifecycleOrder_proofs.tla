---------------------- MODULE RunLifecycleOrder_proofs ----------------------
(***************************************************************************)
(* RunLifecycle for every workflow, continued: the steps keep their order, *)
(* the run's status fits its current step and its locks, every move is one *)
(* the tables allow, and the task of a running run is never lost to a      *)
(* crash nor worked on by two handlers.                                    *)
(*                                                                         *)
(* The argument: a service is given a well-shaped run that passed a guard  *)
(* and returns a well-shaped one; the version fence makes the run it was   *)
(* given the run that is stored.  The key of a step's task carries how     *)
(* often the step was begun, and that number only grows, so a task that is *)
(* enqueued for a begun step is a new one.                                 *)
(***************************************************************************)
EXTENDS RunLifecycle_proofs, FiniteSetTheorems

-----------------------------------------------------------------------------
(* The shape of a run *)

Touched == {"running", "waiting", "failed", "succeeded"}
Active == DOMAIN ExpectedStep

InOrder(r) ==
  \A j \in StepIds :
    r.steps[j].status \in Touched =>
      \A i \in 1..(j - 1) : r.steps[i].status = "succeeded"

\* What was begun is no longer pending, and what runs was begun.
Counted(r) ==
  \A i \in StepIds :
    /\ r.steps[i].begun > 0 => r.steps[i].status # "pending"
    /\ r.steps[i].status = "running" => r.steps[i].begun > 0

\* The run r is as it should be in status s.
ShapedAs(r, s) ==
  /\ InOrder(r)
  /\ Counted(r)
  /\ r.locked <=> s \in Active
  /\ s \in Active =>
       /\ \E i \in StepIds : IsCurrent(r, i) /\ r.steps[i].status = ExpectedStep[s]
       /\ \A i \in StepIds : r.steps[i].status # "cancelled"
  /\ s \in {"draft", "resource_queue"} => \A i \in StepIds : r.steps[i].status = "pending"

Shape(r) == ShapedAs(r, Effective(r))

\* What a service makes of the steps: a number of begins never decreases, and
\* the step of a running result has been begun once more.
BegunKept(q, r) == \A i \in StepIds : q.steps[i].begun >= r.steps[i].begun
Renewed(q, r) ==
  q.status = "running" =>
    \E i \in StepIds : /\ IsCurrent(q, i) /\ q.steps[i].status = "running"
                       /\ q.steps[i].begun > r.steps[i].begun
Grown(q, r) ==
  /\ Shape(q) /\ BegunKept(q, r) /\ Renewed(q, r)
  /\ q.status \in RunStatuses \ {"draft"}

LEMMA ActiveStatuses ==
  /\ Active = {"awaiting_step_start", "running", "awaiting_step_completion",
               "awaiting_step_retry"}
  /\ ExpectedStep["awaiting_step_start"] = "pending"
  /\ ExpectedStep["running"] = "running"
  /\ ExpectedStep["awaiting_step_completion"] = "waiting"
  /\ ExpectedStep["awaiting_step_retry"] = "failed"
BY DEF Active, ExpectedStep

LEMMA StepTypes ==
  ASSUME NEW r \in Rows, NEW i \in StepIds
  PROVE  r.steps[i].status \in StepStatuses /\ r.steps[i].begun \in Nat
BY DEF Rows

LEMMA Prefix ==
  ASSUME NEW i \in StepIds
  PROVE  /\ i \in Nat /\ i >= 1
         /\ \A j \in 1..(i - 1) : j \in StepIds /\ j # i /\ j < i
BY NodesAssumption DEF StepIds

\* A run has at most one current step.
LEMMA CurrentIs ==
  ASSUME NEW r, NEW i \in StepIds, IsCurrent(r, i)
  PROVE  Current(r) = i
<1>1. ASSUME NEW j \in StepIds, IsCurrent(r, j) PROVE j = i
  <2>1. i \in Nat /\ j \in Nat /\ i >= 1 /\ j >= 1
    BY Prefix
  <2>2. ~(i < j) /\ ~(j < i)
    BY <1>1, <2>1 DEF IsCurrent
  <2> QED
    BY <2>1, <2>2
<1> QED
  BY <1>1 DEF Current

\* In an ordered run, what is neither succeeded nor current was not touched.
LEMMA BesideCurrent ==
  ASSUME NEW r \in Rows, InOrder(r), NEW i \in StepIds, IsCurrent(r, i),
         NEW j \in StepIds, j # i
  PROVE  r.steps[j].status \in {"succeeded", "pending", "cancelled"}
<1>1. CASE j < i
  BY <1>1, Prefix DEF IsCurrent
<1>2. CASE ~(j < i)
  <2>1. i \in 1..(j - 1)
    BY <1>2, Prefix
  <2> QED
    BY <2>1, StepTypes DEF InOrder, Touched, IsCurrent, StepStatuses
<1> QED
  BY <1>1, <1>2

\* A step that was touched and has not succeeded is the current one.
LEMMA TouchedIsCurrent ==
  ASSUME NEW r, InOrder(r), NEW i \in StepIds, r.steps[i].status \in Touched \ {"succeeded"}
  PROVE  IsCurrent(r, i)
BY DEF InOrder, IsCurrent

\* p is r with step i in status t.
Changed(p, r, i, t) ==
  /\ p \in Rows
  /\ p.steps[i].status = t
  /\ p.steps[i].begun >= r.steps[i].begun
  /\ \A j \in StepIds \ {i} : p.steps[j] = r.steps[j]

LEMMA CurrentChanged ==
  ASSUME NEW r \in Rows, InOrder(r), NEW i \in StepIds, IsCurrent(r, i),
         NEW p, NEW t \in StepStatuses \ {"pending"}, Changed(p, r, i, t)
  PROVE  /\ InOrder(p)
         /\ t # "succeeded" => IsCurrent(p, i)
         /\ BegunKept(p, r)
<1>1. \A j \in 1..(i - 1) : p.steps[j].status = "succeeded"
  BY Prefix DEF Changed, IsCurrent
<1>2. ASSUME NEW j \in StepIds, p.steps[j].status \in Touched, NEW k \in 1..(j - 1)
      PROVE  p.steps[k].status = "succeeded"
  <2>1. CASE j = i
    BY <1>1, <1>2, <2>1
  <2>2. CASE j # i
    <3>1. \A l \in 1..(j - 1) : r.steps[l].status = "succeeded"
      BY <1>2, <2>2 DEF Changed, InOrder
    <3>2. k \in StepIds /\ k # i
      BY <1>2, <3>1, Prefix DEF IsCurrent
    <3> QED
      BY <1>2, <3>1, <3>2 DEF Changed
  <2> QED
    BY <2>1, <2>2
<1>3. BegunKept(p, r)
  BY StepTypes DEF Changed, BegunKept
<1> QED
  BY <1>1, <1>2, <1>3 DEF InOrder, IsCurrent, Changed

LEMMA SetStepChanges ==
  ASSUME NEW r \in Rows, NEW i \in StepIds, NEW t \in StepStatuses
  PROVE  LET p == SetStep(r, i, t)
         IN /\ Changed(p, r, i, t)
            /\ p.steps[i].begun = r.steps[i].begun
            /\ p.status = r.status /\ p.locked = r.locked /\ p.pausedFrom = r.pausedFrom
<1>1. SetStep(r, i, t).steps = [r.steps EXCEPT ![i].status = t]
  BY DEF SetStep, Rows
<1>2. r.steps \in [StepIds -> [status : StepStatuses, begun : Nat]]
  BY DEF Rows
<1>3. SetStep(r, i, t).locked = r.locked
  BY DEF SetStep, Rows
<1> QED
  BY <1>1, <1>2, <1>3, SetStepFacts DEF Changed

\* Moving and releasing leave the steps alone.
LEMMA MoveToShape ==
  ASSUME NEW r \in Rows, NEW t \in RunStatuses \ {"paused"}
  PROVE  /\ MoveTo(r, t).steps = r.steps /\ MoveTo(r, t).locked = r.locked
         /\ MoveTo(r, t).status = t
         /\ ShapedAs(r, t) => Shape(MoveTo(r, t))
<1>1. MoveTo(r, t).steps = r.steps /\ MoveTo(r, t).status = t
  BY MoveToFacts
<1>2. MoveTo(r, t).locked = r.locked
  BY DEF MoveTo, Rows
<1>3. Effective(MoveTo(r, t)) = t
  BY <1>1 DEF Effective
<1> QED
  BY <1>1, <1>2, <1>3 DEF Shape, ShapedAs, InOrder, Counted, IsCurrent

\* The run in status s but for its locks.
Unlocked(r, s) ==
  /\ s \notin Active /\ InOrder(r) /\ Counted(r)
  /\ s \in {"draft", "resource_queue"} => \A i \in StepIds : r.steps[i].status = "pending"

LEMMA ReleaseShape ==
  ASSUME NEW r \in Rows, NEW t \in RunStatuses \ {"paused"}, Unlocked(r, t)
  PROVE  /\ Shape(Release(MoveTo(r, t)))
         /\ Release(MoveTo(r, t)).steps = r.steps
         /\ Release(MoveTo(r, t)).status = t
<1>1. /\ MoveTo(r, t) \in Rows /\ MoveTo(r, t).steps = r.steps /\ MoveTo(r, t).status = t
  BY MoveToFacts
<1>2. /\ Release(MoveTo(r, t)).steps = r.steps
      /\ Release(MoveTo(r, t)).status = t
  BY <1>1, ReleaseFacts
<1>3. Release(MoveTo(r, t)).locked = FALSE
  BY <1>1 DEF Release, Rows
<1>4. Effective(Release(MoveTo(r, t))) = t
  BY <1>2 DEF Effective
<1> QED
  BY <1>2, <1>3, <1>4 DEF Unlocked, Shape, ShapedAs, InOrder, Counted

\* The current step of a run in an active status.
LEMMA CurrentOf ==
  ASSUME NEW r \in Rows, NEW s \in Active, ShapedAs(r, s)
  PROVE  \E i \in StepIds :
           /\ IsCurrent(r, i) /\ r.steps[i].status = ExpectedStep[s] /\ Current(r) = i
           /\ \A j \in StepIds \ {i} : r.steps[j].status \in {"succeeded", "pending"}
<1>1. PICK i \in StepIds : IsCurrent(r, i) /\ r.steps[i].status = ExpectedStep[s]
  BY DEF ShapedAs
<1> QED
  BY <1>1, CurrentIs, BesideCurrent DEF ShapedAs

-----------------------------------------------------------------------------
(* The services keep the shape *)

LEMMA BeginGrows ==
  ASSUME NEW r \in Rows, InOrder(r), Counted(r), r.locked, NEW i \in StepIds, IsCurrent(r, i),
         \A j \in StepIds \ {i} : r.steps[j].status # "cancelled"
  PROVE  Grown(Begin(r, i), r)
<1> DEFINE b == [r EXCEPT !.steps[i] = [status |-> "running", begun |-> @.begun + 1]]
           q == Begin(r, i)
<1>0. b.steps = [r.steps EXCEPT ![i] = [status |-> "running", begun |-> @.begun + 1]]
  BY DEF Rows
<1>1. /\ r.steps[i].begun \in Nat
      /\ r.steps \in [StepIds -> [status : StepStatuses, begun : Nat]]
  BY DEF Rows
<1>2. /\ b.steps[i] = [status |-> "running", begun |-> r.steps[i].begun + 1]
      /\ \A j \in StepIds \ {i} : b.steps[j] = r.steps[j]
  BY <1>0, <1>1
<1>3. b \in Rows
  <2>1. b.steps \in [StepIds -> [status : StepStatuses, begun : Nat]]
    BY <1>0, <1>1 DEF StepStatuses
  <2> QED
    BY <2>1 DEF Rows
<1>4. b.locked = r.locked
  BY DEF Rows
<1>5. q = MoveTo(b, "running")
  BY DEF Begin
<1> HIDE DEF b, q
<1>6. Changed(b, r, i, "running")
  BY <1>1, <1>2, <1>3 DEF Changed
<1>7. InOrder(b) /\ IsCurrent(b, i) /\ BegunKept(b, r)
  BY <1>6, CurrentChanged DEF StepStatuses
<1>8. ShapedAs(b, "running")
  <2>1. Counted(b)
    BY <1>1, <1>2 DEF Counted
  <2> QED
    BY <1>2, <1>4, <1>7, <2>1, ActiveStatuses DEF ShapedAs
<1>9. /\ q.steps = b.steps /\ q.status = "running" /\ Shape(q)
  BY <1>3, <1>5, <1>8, MoveToShape, NamedStatuses
<1> QED
  <2>1. q.steps[i].status = "running" /\ q.steps[i].begun > r.steps[i].begun
    BY <1>1, <1>2, <1>9
  <2> QED
    BY <1>7, <1>9, <2>1, NamedStatuses DEF Grown, BegunKept, Renewed, IsCurrent, q

\* Between two steps: those before have succeeded, those after were not touched.
Rested(r) ==
  /\ InOrder(r) /\ Counted(r) /\ r.locked
  /\ \A i \in StepIds : r.steps[i].status \in {"succeeded", "pending"}

LEMMA AdvanceGrows ==
  ASSUME NEW r \in Rows, Rested(r)
  PROVE  Grown(Advance(r), r)
<1> USE NamedStatuses
<1>1. CASE AllSucceeded(r)
  <2>1. PICK t \in {"awaiting_review", "completed"} : Advance(r) = Release(MoveTo(r, t))
    BY <1>1 DEF Advance
  <2>2. Unlocked(r, t)
    BY ActiveStatuses DEF Rested, Unlocked
  <2>3. /\ Shape(Advance(r)) /\ Advance(r).steps = r.steps /\ Advance(r).status = t
    BY <2>1, <2>2, ReleaseShape
  <2> QED
    BY <2>3, StepTypes DEF Grown, BegunKept, Renewed
<1>2. CASE ~AllSucceeded(r)
  <2> DEFINE i == Current(r)
             q == MoveTo(r, "awaiting_step_start")
  <2>1. /\ i \in StepIds /\ IsCurrent(r, i) /\ r.steps[i].status = "pending"
    BY <1>2, CurrentFacts DEF Rested, IsCurrent
  <2>2. /\ q \in Rows /\ q.status = "awaiting_step_start" /\ q.steps = r.steps
        /\ q.locked = r.locked
    BY MoveToFacts, MoveToShape
  <2> HIDE DEF i, q
  <2>3. Rested(q) /\ IsCurrent(q, i) /\ q.steps[i].status = "pending"
    BY <2>1, <2>2 DEF Rested, IsCurrent, InOrder, Counted
  <2>4. CASE Nodes[i] = "report_generation"
    <3> DEFINE p == SetStep(r, i, "waiting")
    <3>1. Advance(r) = Release(MoveTo(p, "awaiting_review"))
      BY <1>2, <2>1, <2>4 DEF Advance, i
    <3>2. Changed(p, r, i, "waiting") /\ p.steps[i].begun = r.steps[i].begun
      BY <2>1, SetStepChanges DEF StepStatuses
    <3> HIDE DEF p
    <3>3. InOrder(p) /\ BegunKept(p, r)
      BY <2>1, <3>2, CurrentChanged DEF Rested, StepStatuses
    <3>4. Unlocked(p, "awaiting_review") /\ p \in Rows
      BY <3>2, <3>3, ActiveStatuses DEF Unlocked, Counted, Changed, Rested
    <3>5. /\ Shape(Advance(r)) /\ Advance(r).steps = p.steps
          /\ Advance(r).status = "awaiting_review"
      BY <3>1, <3>4, ReleaseShape
    <3> QED
      BY <3>3, <3>5 DEF Grown, BegunKept, Renewed
  <2>5. CASE Nodes[i] = "wiring_confirmation"
    <3> DEFINE p == SetStep(q, i, "waiting")
    <3>1. Advance(r) = MoveTo(p, "awaiting_step_completion")
      BY <1>2, <2>5 DEF Advance, i, q
    <3>2. /\ Changed(p, q, i, "waiting") /\ p.locked = q.locked
      BY <2>1, <2>2, SetStepChanges DEF StepStatuses
    <3> HIDE DEF p
    <3>3. InOrder(p) /\ IsCurrent(p, i) /\ BegunKept(p, q)
      BY <2>1, <2>2, <2>3, <3>2, CurrentChanged DEF Rested, StepStatuses
    <3>4. ShapedAs(p, "awaiting_step_completion") /\ p \in Rows
      BY <2>1, <2>3, <3>2, <3>3, ActiveStatuses DEF ShapedAs, Counted, Changed, Rested
    <3>5. /\ Shape(Advance(r)) /\ Advance(r).steps = p.steps
          /\ Advance(r).status = "awaiting_step_completion"
      BY <3>1, <3>4, MoveToShape
    <3> QED
      BY <2>2, <3>3, <3>5 DEF Grown, BegunKept, Renewed
  <2>6. CASE Nodes[i] = "capture"
    <3>1. Advance(r) = Begin(q, i)
      BY <1>2, <2>6 DEF Advance, i, q
    <3>2. Grown(Begin(q, i), q)
      BY <2>1, <2>2, <2>3, BeginGrows DEF Rested
    <3> QED
      BY <2>2, <3>1, <3>2 DEF Grown, BegunKept, Renewed
  <2>7. CASE Nodes[i] \notin {"report_generation", "wiring_confirmation", "capture"}
    <3>1. Advance(r) = q
      BY <1>2, <2>7 DEF Advance, i, q
    <3>2. ShapedAs(r, "awaiting_step_start")
      BY <2>1, ActiveStatuses DEF ShapedAs, Rested
    <3>3. Shape(q)
      BY <3>2, MoveToShape DEF q
    <3> QED
      BY <2>2, <3>1, <3>3, StepTypes DEF Grown, BegunKept, Renewed
  <2> QED
    BY <2>4, <2>5, <2>6, <2>7
<1> QED
  BY <1>1, <1>2

LEMMA CompleteGrows ==
  ASSUME NEW r \in Rows, ShapedAs(r, "awaiting_step_completion"),
         NEW i \in StepIds, IsCurrent(r, i)
  PROVE  Grown(CompleteStep(r, i), r)
<1> DEFINE p == SetStep(r, i, "succeeded")
<1>1. Changed(p, r, i, "succeeded") /\ p.steps[i].begun = r.steps[i].begun /\ p.locked = r.locked
  BY SetStepChanges DEF StepStatuses
<1> HIDE DEF p
<1>2. InOrder(p) /\ BegunKept(p, r)
  BY <1>1, CurrentChanged DEF ShapedAs, StepStatuses
<1>3. \A j \in StepIds \ {i} : r.steps[j].status \in {"succeeded", "pending"}
  BY CurrentOf, CurrentIs, ActiveStatuses
<1>4. Rested(p) /\ p \in Rows
  BY <1>1, <1>2, <1>3, ActiveStatuses DEF Rested, Changed, Counted, ShapedAs
<1>5. Grown(Advance(p), p)
  BY <1>4, AdvanceGrows
<1>6. \A j \in StepIds : p.steps[j].begun = r.steps[j].begun
  BY <1>1 DEF Changed
<1> QED
  BY <1>5, <1>6 DEF CompleteStep, p, Grown, BegunKept, Renewed

LEMMA StartWorkflowGrows ==
  ASSUME NEW r \in Rows, r.status \in {"draft", "resource_queue"}, Shape(r),
         NEW acquired \in BOOLEAN
  PROVE  Grown(StartWorkflow(r, acquired), r)
<1> USE NamedStatuses
<1>1. /\ InOrder(r) /\ Counted(r) /\ ~r.locked
      /\ \A i \in StepIds : r.steps[i].status = "pending"
  BY ActiveStatuses DEF Shape, ShapedAs, Effective, Rows
<1>2. CASE ~acquired
  <2>1. StartWorkflow(r, acquired) = MoveTo(r, "resource_queue")
    BY <1>2 DEF StartWorkflow
  <2>2. ShapedAs(r, "resource_queue")
    BY <1>1, ActiveStatuses DEF ShapedAs
  <2>3. /\ Shape(MoveTo(r, "resource_queue")) /\ MoveTo(r, "resource_queue").steps = r.steps
        /\ MoveTo(r, "resource_queue").status = "resource_queue"
    BY <2>2, MoveToShape
  <2> QED
    BY <2>1, <2>3, StepTypes DEF Grown, BegunKept, Renewed
<1>3. CASE acquired /\ Nodes = << >>
  <2>1. StartWorkflow(r, acquired) = Release(MoveTo(r, "completed"))
    BY <1>3 DEF StartWorkflow
  <2>2. Unlocked(r, "completed")
    BY <1>1, ActiveStatuses DEF Unlocked
  <2>3. /\ Shape(StartWorkflow(r, acquired)) /\ StartWorkflow(r, acquired).steps = r.steps
        /\ StartWorkflow(r, acquired).status = "completed"
    BY <2>1, <2>2, ReleaseShape
  <2> QED
    BY <2>3, StepTypes DEF Grown, BegunKept, Renewed
<1>4. CASE acquired /\ Nodes # << >>
  <2> DEFINE p == [r EXCEPT !.locked = TRUE]
             q == MoveTo(p, "awaiting_step_start")
  <2>1. p \in Rows /\ p.steps = r.steps /\ p.locked
    BY DEF Rows
  <2> HIDE DEF p
  <2>2. q \in Rows /\ q.steps = r.steps /\ q.locked
    BY <2>1, MoveToFacts, MoveToShape
  <2>3. StartWorkflow(r, acquired) = Advance(q)
    BY <1>4 DEF StartWorkflow, p, q
  <2> HIDE DEF q
  <2>4. Rested(q)
    BY <1>1, <2>2 DEF Rested, InOrder, Counted
  <2>5. Grown(Advance(q), q)
    BY <2>2, <2>4, AdvanceGrows
  <2> QED
    BY <2>2, <2>3, <2>5 DEF Grown, BegunKept, Renewed
<1> QED
  BY <1>2, <1>3, <1>4

\* The handler's own step is touched, so if it may still move to waiting it is current.
LEMMA StepDoneGrows ==
  ASSUME NEW r \in Rows, r.status = "running", Shape(r), NEW i \in StepIds,
         r.steps[i].begun > 0, r.steps[i].status # "succeeded"
  PROVE  Grown(StepDone(r, i), r)
<1> USE NamedStatuses
<1> DEFINE p == SetStep(r, i, "waiting")
           q == MoveTo(p, "awaiting_step_completion")
<1>0. ShapedAs(r, "running") /\ InOrder(r) /\ Counted(r)
  BY DEF Shape, ShapedAs, Effective
<1>1. IsCurrent(r, i)
  <2>1. r.steps[i].status \in Touched \ {"succeeded"}
    BY <1>0, StepTypes, ActiveStatuses DEF ShapedAs, Counted, Touched, StepStatuses
  <2> QED
    BY <1>0, <2>1, TouchedIsCurrent
<1>2. \A j \in StepIds \ {i} : r.steps[j].status \in {"succeeded", "pending"}
  BY <1>0, <1>1, CurrentOf, CurrentIs, ActiveStatuses
<1>3. Changed(p, r, i, "waiting") /\ p.steps[i].begun = r.steps[i].begun /\ p.locked = r.locked
  BY SetStepChanges DEF StepStatuses
<1> HIDE DEF p
<1>4. InOrder(p) /\ IsCurrent(p, i) /\ BegunKept(p, r)
  BY <1>0, <1>1, <1>3, CurrentChanged DEF StepStatuses
<1>5. ShapedAs(p, "awaiting_step_completion") /\ p \in Rows
  BY <1>0, <1>2, <1>3, <1>4, ActiveStatuses DEF ShapedAs, Counted, Changed
<1>6. /\ q \in Rows /\ q.steps = p.steps /\ q.locked = p.locked /\ Shape(q)
      /\ q.status = "awaiting_step_completion"
  <2>1. "awaiting_step_completion" \in RunStatuses \ {"paused"}
    OBVIOUS
  <2>2. q \in Rows
    BY <1>5, <2>1, MoveToFacts
  <2> QED
    BY <1>5, <2>1, <2>2, MoveToShape
<1> HIDE DEF q
<1>7. \A j \in StepIds : q.steps[j].begun = r.steps[j].begun
  BY <1>3, <1>6 DEF Changed
<1>8. CASE Nodes[i] = "capture"
  <2>1. ShapedAs(q, "awaiting_step_completion") /\ IsCurrent(q, i)
    BY <1>4, <1>6 DEF Shape, Effective, IsCurrent
  <2>2. Grown(CompleteStep(q, i), q)
    BY <1>6, <2>1, CompleteGrows
  <2> QED
    BY <1>7, <1>8, <2>2 DEF StepDone, p, q, Grown, BegunKept, Renewed
<1>9. CASE Nodes[i] # "capture"
  <2>1. StepDone(r, i) = q
    BY <1>9 DEF StepDone, p, q
  <2> QED
    BY <1>6, <1>7, <2>1, StepTypes DEF Grown, BegunKept, Renewed
<1> QED
  BY <1>8, <1>9

\* The failure path finds the current step: a running run has one running step.
LEMMA StepFailedGrows ==
  ASSUME NEW r \in Rows, r.status = "running", Shape(r)
  PROVE  Grown(StepFailed(r), r)
<1> USE NamedStatuses
<1>0. ShapedAs(r, "running")
  BY DEF Shape, Effective
<1>1. PICK i \in StepIds :
        /\ IsCurrent(r, i) /\ r.steps[i].status = "running"
        /\ \A j \in StepIds \ {i} : r.steps[j].status \in {"succeeded", "pending"}
  BY <1>0, CurrentOf, ActiveStatuses
<1> DEFINE p == SetStep(r, i, "failed")
<1>2. StepFailed(r) = MoveTo(p, "awaiting_step_retry")
  <2>1. \A j \in StepIds : r.steps[j].status = "running" => j = i
    BY <1>1
  <2>2. \A j \in 1..(i - 1) : r.steps[j].status # "running"
    BY <1>1, Prefix
  <2> QED
    BY <1>1, <2>1, <2>2 DEF StepFailed
<1>3. Changed(p, r, i, "failed") /\ p.steps[i].begun = r.steps[i].begun /\ p.locked = r.locked
  BY SetStepChanges DEF StepStatuses
<1> HIDE DEF p
<1>4. InOrder(p) /\ IsCurrent(p, i) /\ BegunKept(p, r)
  BY <1>0, <1>1, <1>3, CurrentChanged DEF ShapedAs, StepStatuses
<1>5. ShapedAs(p, "awaiting_step_retry") /\ p \in Rows
  BY <1>0, <1>1, <1>3, <1>4, ActiveStatuses DEF ShapedAs, Counted, Changed
<1>6. /\ Shape(StepFailed(r)) /\ StepFailed(r).steps = p.steps
      /\ StepFailed(r).status = "awaiting_step_retry"
  BY <1>2, <1>5, MoveToShape
<1> QED
  BY <1>4, <1>6 DEF Grown, BegunKept, Renewed

\* Cancelling steps undoes no order: what was succeeded stays.
LEMMA CancelStepsKeepOrder ==
  ASSUME NEW r \in Rows, InOrder(r), Counted(r),
         NEW from \in SUBSET (StepStatuses \ {"succeeded"}), "running" \in from
  PROVE  LET p == CancelSteps(r, from)
         IN /\ InOrder(p) /\ Counted(p) /\ p \in Rows
            /\ \A i \in StepIds : p.steps[i].begun = r.steps[i].begun
<1> DEFINE p == CancelSteps(r, from)
<1>1. p \in Rows
  BY CancelStepsFacts
<1>2. ASSUME NEW i \in StepIds
      PROVE  /\ p.steps[i].begun = r.steps[i].begun
             /\ p.steps[i].status \in {r.steps[i].status, "cancelled"}
             /\ r.steps[i].status \in from => p.steps[i].status = "cancelled"
             /\ r.steps[i].status \notin from => p.steps[i] = r.steps[i]
  <2>1. p.steps = [j \in StepIds |->
          IF r.steps[j].status \in from THEN [r.steps[j] EXCEPT !.status = "cancelled"]
                                        ELSE r.steps[j]]
    BY DEF CancelSteps, Rows
  <2>2. r.steps[i] \in [status : StepStatuses, begun : Nat]
    BY DEF Rows
  <2> QED
    BY <2>1, <2>2
<1> HIDE DEF p
<1>3. InOrder(p)
  <2> SUFFICES ASSUME NEW j \in StepIds, p.steps[j].status \in Touched, NEW i \in 1..(j - 1)
               PROVE  p.steps[i].status = "succeeded"
    BY DEF InOrder
  <2>1. p.steps[j] = r.steps[j] /\ i \in StepIds
    BY <1>2, Prefix DEF Touched
  <2>2. r.steps[i].status = "succeeded"
    BY <2>1 DEF InOrder
  <2> QED
    BY <1>2, <2>1, <2>2
<1>4. Counted(p)
  BY <1>2 DEF Counted
<1> QED
  BY <1>1, <1>2, <1>3, <1>4 DEF p

LEMMA CancelGrows ==
  ASSUME NEW r \in Rows, Shape(r)
  PROVE  Grown(Cancel(r), r)
<1> USE NamedStatuses
<1> DEFINE p == CancelSteps(r, {"running", "waiting"})
<1>1. /\ InOrder(p) /\ Counted(p) /\ p \in Rows
      /\ \A i \in StepIds : p.steps[i].begun = r.steps[i].begun
  BY CancelStepsKeepOrder DEF Shape, ShapedAs, StepStatuses
<1> HIDE DEF p
<1>2. Unlocked(p, "cancelled")
  BY <1>1, ActiveStatuses DEF Unlocked
<1>3. /\ Shape(Cancel(r)) /\ Cancel(r).steps = p.steps /\ Cancel(r).status = "cancelled"
  BY <1>1, <1>2, ReleaseShape DEF Cancel, p
<1> QED
  BY <1>1, <1>3, StepTypes DEF Grown, BegunKept, Renewed

LEMMA ExpireGrows ==
  ASSUME NEW r \in Rows, Shape(r)
  PROVE  Grown(Expire(r), r)
<1> USE NamedStatuses
<1> DEFINE p == CancelSteps(r, {"pending", "running", "waiting", "failed"})
<1>1. /\ InOrder(p) /\ Counted(p) /\ p \in Rows
      /\ \A i \in StepIds : p.steps[i].begun = r.steps[i].begun
  BY CancelStepsKeepOrder DEF Shape, ShapedAs, StepStatuses
<1> HIDE DEF p
<1>2. Unlocked(p, "timed_out")
  BY <1>1, ActiveStatuses DEF Unlocked
<1>3. /\ Shape(Expire(r)) /\ Expire(r).steps = p.steps /\ Expire(r).status = "timed_out"
  BY <1>1, <1>2, ReleaseShape DEF Expire, p
<1> QED
  BY <1>1, <1>3, StepTypes DEF Grown, BegunKept, Renewed

\* A paused run keeps the shape of the status it was paused from.
LEMMA PauseGrows ==
  ASSUME NEW r \in Rows, r.status \in PausableRunStatuses, Shape(r)
  PROVE  Grown(Pause(r), r)
<1> DEFINE p == [r EXCEPT !.pausedFrom = r.status]
<1>1. p \in Rows /\ p.steps = r.steps /\ p.locked = r.locked /\ p.pausedFrom = r.status
      /\ p.status = r.status
  BY DEF Rows
<1>2. r.status # "paused"
  BY DEF PausableRunStatuses
<1> HIDE DEF p
<1>3. Pause(r) = [[p EXCEPT !.status = "paused"] EXCEPT !.version = @ + 1]
  BY <1>1, <1>2 DEF Pause, MoveTo, p
<1>4. /\ Pause(r).steps = r.steps /\ Pause(r).locked = r.locked
      /\ Pause(r).status = "paused" /\ Pause(r).pausedFrom = r.status
  BY <1>1, <1>3 DEF Rows
<1>5. Effective(Pause(r)) = Effective(r)
  BY <1>2, <1>4 DEF Effective
<1> QED
  BY <1>4, <1>5, StepTypes, NamedStatuses
     DEF Grown, BegunKept, Renewed, Shape, ShapedAs, InOrder, Counted, IsCurrent

LEMMA ResumeGrows ==
  ASSUME NEW r \in Rows, r.status = "paused", WellPaused(r), Shape(r)
  PROVE  Grown(Resume(r), r)
<1> DEFINE p == [r EXCEPT !.pausedFrom = "none"]
<1>1. p \in Rows /\ p.steps = r.steps /\ p.locked = r.locked
  BY DEF Rows
<1>2. r.pausedFrom \in RunStatuses \ {"running", "paused", "draft"}
  BY DEF WellPaused, RunStatuses, PausableRunStatuses
<1>3. ShapedAs(p, r.pausedFrom)
  BY <1>1 DEF Shape, Effective, ShapedAs, InOrder, Counted, IsCurrent
<1> HIDE DEF p
<1>4. Shape(Resume(r)) /\ Resume(r).steps = r.steps /\ Resume(r).status = r.pausedFrom
  BY <1>1, <1>2, <1>3, MoveToShape DEF Resume, p
<1> QED
  BY <1>2, <1>4, StepTypes DEF Grown, BegunKept, Renewed

\* A verdict completes what waits: a waiting step is preceded by succeeded ones only.
LEMMA VerdictGrows ==
  ASSUME NEW r \in Rows, r.status = "awaiting_review", Shape(r)
  PROVE  Grown(SubmitVerdict(r), r)
<1> USE NamedStatuses
<1> DEFINE p == [r EXCEPT !.steps = [i \in StepIds |->
     IF Nodes[i] = "report_generation" /\ r.steps[i].status = "waiting"
     THEN [r.steps[i] EXCEPT !.status = "succeeded"] ELSE r.steps[i]]]
<1>1. p \in Rows
  BY DEF Rows, StepStatuses
<1>2. ASSUME NEW i \in StepIds
      PROVE  /\ p.steps[i].begun = r.steps[i].begun
             /\ \/ p.steps[i] = r.steps[i]
                \/ p.steps[i].status = "succeeded" /\ r.steps[i].status = "waiting"
  <2>1. p.steps = [j \in StepIds |->
          IF Nodes[j] = "report_generation" /\ r.steps[j].status = "waiting"
          THEN [r.steps[j] EXCEPT !.status = "succeeded"] ELSE r.steps[j]]
    BY DEF Rows
  <2>2. r.steps[i] \in [status : StepStatuses, begun : Nat]
    BY DEF Rows
  <2> QED
    BY <2>1, <2>2
<1> HIDE DEF p
<1>3. InOrder(r) /\ Counted(r)
  BY DEF Shape, ShapedAs
<1>4. InOrder(p)
  <2> SUFFICES ASSUME NEW j \in StepIds, p.steps[j].status \in Touched, NEW i \in 1..(j - 1)
               PROVE  p.steps[i].status = "succeeded"
    BY DEF InOrder
  <2>1. r.steps[j].status \in Touched /\ i \in StepIds
    BY <1>2, Prefix DEF Touched
  <2>2. r.steps[i].status = "succeeded"
    BY <1>3, <2>1 DEF InOrder
  <2> QED
    BY <1>2, <2>1, <2>2
<1>5. Unlocked(p, "completed")
  BY <1>2, <1>3, <1>4, ActiveStatuses DEF Unlocked, Counted
<1>6. /\ Shape(SubmitVerdict(r)) /\ SubmitVerdict(r).steps = p.steps
      /\ SubmitVerdict(r).status = "completed"
  BY <1>1, <1>5, ReleaseShape DEF SubmitVerdict, p
<1> QED
  BY <1>2, <1>6, StepTypes DEF Grown, BegunKept, Renewed

\* Starting, retrying and analysing again: a begin of the current step.
LEMMA CanBeginGrows ==
  ASSUME NEW r \in Rows, Shape(r), NEW i \in StepIds, NEW s \in Active, NEW t,
         CanBegin(r, i, s, t)
  PROVE  Grown(Begin(r, i), r)
<1>1. ShapedAs(r, s)
  BY ActiveStatuses DEF CanBegin, Shape, Effective
<1> QED
  BY <1>1, BeginGrows DEF CanBegin, ShapedAs

LEMMA RetryGrows ==
  ASSUME NEW r \in Rows, Shape(r), NEW i \in StepIds,
         \/ CanBegin(r, i, "awaiting_step_retry", "failed")
         \/ CanComplete(r, i)
  PROVE  Grown(RetryStep(r, i), r)
<1> USE NamedStatuses
<1>1. CASE CanBegin(r, i, "awaiting_step_retry", "failed")
  <2>1. RetryStep(r, i) = Begin(r, i)
    BY <1>1 DEF RetryStep, CanBegin
  <2> QED
    BY <1>1, <2>1, CanBeginGrows, ActiveStatuses
<1>2. CASE CanComplete(r, i)
  <2> DEFINE p == SetStep(r, i, "failed")
             q == MoveTo(p, "awaiting_step_retry")
  <2>0. IsCurrent(r, i) /\ ShapedAs(r, "awaiting_step_completion")
    BY <1>2 DEF CanComplete, CanBegin, Shape, Effective
  <2>1. \A j \in StepIds \ {i} : r.steps[j].status \in {"succeeded", "pending"}
    BY <2>0, CurrentOf, CurrentIs, ActiveStatuses
  <2>2. Changed(p, r, i, "failed") /\ p.steps[i].begun = r.steps[i].begun /\ p.locked = r.locked
    BY SetStepChanges DEF StepStatuses
  <2>3. RetryStep(r, i) = Begin(q, i)
    BY <1>2 DEF RetryStep, CanComplete, CanBegin
  <2> HIDE DEF p
  <2>4. InOrder(p) /\ IsCurrent(p, i) /\ BegunKept(p, r)
    BY <2>0, <2>2, CurrentChanged DEF ShapedAs, StepStatuses
  <2>5. ShapedAs(p, "awaiting_step_retry") /\ p \in Rows
    BY <2>0, <2>1, <2>2, <2>4, ActiveStatuses DEF ShapedAs, Counted, Changed
  <2>6. /\ q \in Rows /\ q.steps = p.steps /\ q.locked = p.locked
        /\ q.status = "awaiting_step_retry" /\ Shape(q)
    <3>1. "awaiting_step_retry" \in RunStatuses \ {"paused"}
      OBVIOUS
    <3>2. q \in Rows
      BY <2>5, <3>1, MoveToFacts
    <3> QED
      BY <2>5, <3>1, <3>2, MoveToShape
  <2> HIDE DEF q
  <2>7. CanBegin(q, i, "awaiting_step_retry", "failed")
    BY <2>2, <2>4, <2>6 DEF CanBegin, IsCurrent, Changed
  <2>8. Grown(Begin(q, i), q)
    BY <2>6, <2>7, CanBeginGrows, ActiveStatuses
  <2>9. \A j \in StepIds : q.steps[j].begun = r.steps[j].begun
    BY <2>2, <2>6 DEF Changed
  <2> QED
    BY <2>3, <2>8, <2>9 DEF Grown, BegunKept, Renewed
<1> QED
  BY <1>1, <1>2

-----------------------------------------------------------------------------
(* The inductive invariant *)

\* The keys of steps, in the table or in a worker's hands, name begins that happened.
Keys == DOMAIN tasks \cup {e.key : e \in execs}
KeysBegun ==
  \A k \in Keys :
    k[1] = "step" => k[2] \in StepIds /\ k[3] \in 1..row.steps[k[2]].begun

DraftIdle ==
  row.status = "draft" => row.version = 0 /\ DOMAIN tasks = {} /\ execs = {}

\* A request that saw an ended run waits to delete it, and the run has not come back.
Over(r) == r.status \in TerminalRunStatuses \cup {"deleted"}
EndsSeen == \A q \in reqs : q.seen.status \in TerminalRunStatuses => Over(row)

OInv == Shape(row) /\ KeysBegun /\ DraftIdle /\ EndsSeen

\* A step leaves the run alone, removes it, or saves what a service made of it.
Removed == Over(row) /\ row' = [row EXCEPT !.status = "deleted"]
RowStep == row' = row \/ Removed \/ Grown(row', row)

\* The only new step key is that of the step begun by the run that is saved.
BegunNow(k) == row'.status = "running" /\ Grown(row', row) /\ k = StepTask(row', Current(row'))
KeyStep == \A k \in Keys' : k[1] = "step" => k \in Keys \/ BegunNow(k)

LEMMA FreshIsRow ==
  ASSUME IInv, NEW s \in reqs \cup execs, Fresh(s.seen)
  PROVE  s.seen = row /\ row \in Rows /\ WellPaused(row) /\ row.status # "deleted"
BY DEF IInv, TypeOK, VersionFencesSnapshots, Fresh

\* A request on a fresh snapshot saves a grown run and the task of what it began.
LEMMA SavesGrow ==
  ASSUME IInv, Shape(row), NEW q \in reqs,
         \/ StepStarted(q) \/ StepRetried(q) \/ Reanalyzed(q) \/ StepCompleted(q)
         \/ RunCancelled(q) \/ RunExpired(q) \/ RunPaused(q) \/ VerdictSubmitted(q)
  PROVE  Save(q, row') /\ Grown(row', row)
<1>1. /\ q.seen = row /\ row \in Rows /\ Save(q, row')
      /\ q.op # "purge" /\ Accepted(q.op, row, q.step)
      /\ q.step # 0 => q.step \in StepIds
  <2>1. Fresh(q.seen) /\ Save(q, row') /\ q.op # "purge"
    BY DEF StepStarted, StepRetried, Reanalyzed, StepCompleted, RunCancelled, RunExpired,
           RunPaused, VerdictSubmitted, Save
  <2> QED
    BY <2>1, FreshIsRow, PassedFacts
<1>2. CASE StepStarted(q)
  <2>1. q.step \in StepIds /\ CanBegin(row, q.step, "awaiting_step_start", "pending")
    BY <1>1, <1>2 DEF StepStarted, Accepted
  <2> QED
    BY <1>1, <1>2, <2>1, CanBeginGrows, ActiveStatuses DEF StepStarted, Save
<1>3. CASE StepRetried(q)
  <2>1. q.step \in StepIds /\ \/ CanBegin(row, q.step, "awaiting_step_retry", "failed")
                              \/ CanComplete(row, q.step)
    BY <1>1, <1>3 DEF StepRetried, Accepted
  <2> QED
    BY <1>1, <1>3, <2>1, RetryGrows DEF StepRetried, Save
<1>4. CASE Reanalyzed(q)
  <2>1. q.step \in StepIds /\ CanBegin(row, q.step, "awaiting_step_completion", "waiting")
    BY <1>1, <1>4 DEF Reanalyzed, Accepted, CanComplete
  <2> QED
    BY <1>1, <1>4, <2>1, CanBeginGrows, ActiveStatuses DEF Reanalyzed, Save
<1>5. CASE StepCompleted(q)
  <2>1. q.step \in StepIds /\ CanBegin(row, q.step, "awaiting_step_completion", "waiting")
    BY <1>1, <1>5 DEF StepCompleted, Accepted, CanComplete
  <2>2. IsCurrent(row, q.step) /\ ShapedAs(row, "awaiting_step_completion")
    BY <2>1 DEF CanBegin, Shape, Effective
  <2> QED
    BY <1>1, <1>5, <2>1, <2>2, CompleteGrows DEF StepCompleted, Save
<1>6. CASE RunCancelled(q) \/ RunExpired(q)
  BY <1>1, <1>6, CancelGrows, ExpireGrows DEF RunCancelled, RunExpired, Save
<1>7. CASE RunPaused(q)
  <2>1. row.status \in PausableRunStatuses
    BY <1>1, <1>7 DEF RunPaused, Accepted
  <2> QED
    BY <1>1, <1>7, <2>1, PauseGrows DEF RunPaused, Save
<1>8. CASE VerdictSubmitted(q)
  <2>1. row.status = "awaiting_review"
    BY <1>1, <1>8 DEF VerdictSubmitted, Accepted
  <2> QED
    BY <1>1, <1>8, <2>1, VerdictGrows DEF VerdictSubmitted, Save
<1> QED
  BY <1>2, <1>3, <1>4, <1>5, <1>6, <1>7, <1>8

LEMMA ResumedGrows ==
  ASSUME IInv, Shape(row), NEW q \in reqs, RunResumed(q)
  PROVE  Grown(row', row) /\ row'.status \in PausableRunStatuses
<1>1. q.seen = row /\ row \in Rows /\ row.status = "paused" /\ WellPaused(row)
      /\ row' = Resume(row)
  BY FreshIsRow, PassedFacts DEF RunResumed, Accepted
<1>2. [row EXCEPT !.pausedFrom = "none"] \in Rows /\ row.pausedFrom \in RunStatuses
  BY <1>1 DEF Rows, WellPaused, RunStatuses
<1>3. row'.status = row.pausedFrom
  BY <1>1, <1>2, MoveToFacts DEF Resume
<1> QED
  BY <1>1, <1>3, ResumeGrows DEF WellPaused

\* A draft has not moved, so a request that finds one saw it.
LEMMA StartedGrows ==
  ASSUME IInv, OInv, NEW q \in reqs, StartRequested(q)
  PROVE  \/ row' = row /\ row.status # "draft"
         \/ Grown(row', row) /\ row'.status = "resource_queue"
<1> USE NamedStatuses
<1>0. q.seen \in Rows /\ q.seen.status \in {"draft", "resource_queue"}
  BY PassedFacts DEF StartRequested, Accepted
<1>1. CASE WritesRun(q)
  <2>1. /\ q.seen = row /\ row \in Rows /\ row.status = "draft"
        /\ row' = MoveTo(row, "resource_queue")
    BY <1>1, FreshIsRow DEF StartRequested, WritesRun
  <2>2. FALSE \in BOOLEAN /\ StartWorkflow(row, FALSE) = MoveTo(row, "resource_queue")
    BY DEF StartWorkflow
  <2>3. Grown(row', row)
    <3>1. Grown(StartWorkflow(row, FALSE), row)
      BY <2>1, <2>2, StartWorkflowGrows DEF OInv
    <3> QED
      BY <2>1, <2>2, <3>1
  <2> QED
    BY <2>1, <2>3, MoveToFacts
<1>2. CASE ~WritesRun(q)
  <2>1. row' = row /\ row.status # "deleted" /\ q.seen.status = "resource_queue"
    BY <1>0, <1>2 DEF StartRequested, WritesRun
  <2>2. row.status # "draft"
    <3>1. ASSUME row.status = "draft" PROVE Fresh(q.seen)
      BY <1>0, <3>1 DEF OInv, DraftIdle, Fresh, IInv, VersionFencesSnapshots, Rows
    <3> QED
      BY <2>1, <3>1, FreshIsRow
  <2> QED
    BY <2>1, <2>2
<1> QED
  BY <1>1, <1>2

\* What an execution writes on a fresh snapshot.
LEMMA WorkGrows ==
  ASSUME IInv, OInv, NEW e \in execs,
         RunStarts(e) \/ HandlerReturns(e) \/ HandlerRaises(e)
  PROVE  /\ Finishes(e, row')
         /\ ~Fresh(e.seen) => row' = row
         /\ Fresh(e.seen) => e.seen = row /\ Grown(row', row)
<1>1. CASE ~Fresh(e.seen)
  BY <1>1 DEF RunStarts, HandlerReturns, HandlerRaises, Finishes
<1>2. CASE Fresh(e.seen)
  <2>1. e.seen = row /\ row \in Rows /\ Shape(row) /\ e.phase = "work"
    BY <1>2, FreshIsRow DEF OInv, RunStarts, HandlerReturns, HandlerRaises
  <2>2. Finishes(e, row')
    BY <1>2 DEF RunStarts, HandlerReturns, HandlerRaises, Finishes
  <2>3. CASE RunStarts(e)
    <3>1. PICK acquired \in BOOLEAN : Finishes(e, StartWorkflow(e.seen, acquired))
      BY <2>3 DEF RunStarts
    <3>2. row' = StartWorkflow(row, acquired)
      BY <1>2, <2>1, <3>1 DEF Finishes
    <3>3. row.status \in {"draft", "resource_queue"}
      BY <2>1, <2>3 DEF RunStarts, IInv, ExecutionsRunnable, RunKinds
    <3> QED
      BY <1>2, <2>1, <2>2, <3>2, <3>3, StartWorkflowGrows
  <2>4. CASE HandlerReturns(e) \/ HandlerRaises(e)
    <3> DEFINE i == e.key[2]
    <3>1. e.key[1] = "step" /\ row.status = "running"
      BY <2>1, <2>4 DEF HandlerReturns, HandlerRaises, IInv, ExecutionsRunnable, RunKinds
    <3>2. i \in StepIds /\ row.steps[i].begun > 0
      <4>1. e.key \in Keys
        BY DEF Keys
      <4>2. i \in StepIds /\ e.key[3] \in 1..row.steps[i].begun
        BY <3>1, <4>1 DEF OInv, KeysBegun
      <4> QED
        BY <2>1, <4>2, StepTypes
    <3>3. \/ row' = StepFailed(row)
          \/ row' = StepDone(row, i) /\ Allowed(StepTransitions, row.steps[i].status, "waiting")
      BY <1>2, <2>1, <2>4 DEF HandlerReturns, HandlerRaises, Finishes
    <3>4. Allowed(StepTransitions, row.steps[i].status, "waiting")
            => row.steps[i].status # "succeeded"
      BY DEF Allowed, StepTransitions, StepStatuses
    <3> QED
      BY <1>2, <2>1, <2>2, <3>1, <3>2, <3>3, <3>4, StepDoneGrows, StepFailedGrows
  <2> QED
    BY <2>3, <2>4
<1> QED
  BY <1>1, <1>2

LEMMA OverStays ==
  ASSUME IInv, Next, Over(row)
  PROVE  Over(row')
<1>1. CASE row.status \in TerminalRunStatuses
  BY <1>1, EndStays DEF Over
<1>2. CASE row.status = "deleted"
  <2>1. CASE Answer
    <3>1. PICK q \in reqs :
            \/ Conflict(q) \/ StartRequested(q) \/ StepStarted(q) \/ StepRetried(q)
            \/ Reanalyzed(q) \/ StepCompleted(q) \/ RunCancelled(q) \/ RunExpired(q)
            \/ RunPaused(q) \/ RunResumed(q) \/ VerdictSubmitted(q)
            \/ DeleteCancels(q) \/ Purged(q)
      BY <2>1 DEF Answer
    <3>2. Conflict(q) \/ Purged(q)
      BY <1>2, <3>1
         DEF StartRequested, StepStarted, StepRetried, Reanalyzed, StepCompleted,
             RunCancelled, RunExpired, RunPaused, RunResumed, VerdictSubmitted, DeleteCancels,
             Save, Fresh
    <3> QED
      BY <1>2, <3>2 DEF Conflict, Purged, Over, IInv, TypeOK, Rows
  <2>2. CASE Execution
    BY <1>2, <2>2
       DEF Execution, Claim, Load, RunStarts, HandlerReturns, HandlerRaises, Finishes, Settle,
           Fresh, Over
  <2>3. CASE Arrival \/ Crash \/ Stop \/ Restart
    BY <1>2, <2>3 DEF Arrival, Receive, Crash, Stop, Restart, Over
  <2> QED
    BY <2>1, <2>2, <2>3 DEF Next
<1> QED
  BY <1>1, <1>2 DEF Over

LEMMA EnqueuedKeys ==
  ASSUME NEW ts, NEW key, NEW reactivate
  PROVE  /\ DOMAIN ts \subseteq DOMAIN Enqueued(ts, key, reactivate)
         /\ DOMAIN Enqueued(ts, key, reactivate) \subseteq DOMAIN ts \cup {key}
         /\ key \in DOMAIN Enqueued(ts, key, reactivate)
         /\ \A k \in DOMAIN ts \ {key} : Enqueued(ts, key, reactivate)[k] = ts[k]
         /\ key \notin DOMAIN ts => Enqueued(ts, key, reactivate)[key] = NewTask
BY DEF Enqueued

LEMMA RunTaskAdds ==
  ASSUME NEW ts, NEW kind \in RunKinds, NEW v, NEW reactivate
  PROVE  LET us == Enqueued(ts, RunTask(kind, v), reactivate)
         IN \A k \in DOMAIN us : k[1] = "step" => k \in DOMAIN ts /\ us[k] = ts[k]
<1>1. RunTask(kind, v)[1] # "step"
  BY DEF RunTask, RunKinds
<1> QED
  BY <1>1, EnqueuedKeys

LEMMA ShapeKept ==
  ASSUME IInv, Shape(row), RowStep
  PROVE  Shape(row')
<1>1. CASE Removed
  <2>1. /\ row'.status = "deleted" /\ row'.steps = row.steps /\ row'.locked = row.locked
    BY <1>1 DEF Removed, IInv, TypeOK, Rows
  <2>2. "paused" \notin TerminalRunStatuses \cup {"deleted"}
    BY DEF TerminalRunStatuses
  <2>3. Effective(row) \notin Active /\ Effective(row') = "deleted"
    BY <1>1, <2>1, <2>2, ActiveStatuses DEF Removed, Over, Effective, TerminalRunStatuses
  <2> QED
    BY <2>1, <2>3, ActiveStatuses DEF Shape, ShapedAs, InOrder, Counted, IsCurrent
<1> QED
  BY <1>1 DEF RowStep, Grown

LEMMA KeysKept ==
  ASSUME IInv, IInv', KeysBegun, RowStep, KeyStep
  PROVE  KeysBegun'
<1>0. row \in Rows /\ row' \in Rows
  BY DEF IInv, TypeOK
<1> SUFFICES ASSUME NEW k \in Keys', k[1] = "step"
             PROVE  k[2] \in StepIds /\ k[3] \in 1..row'.steps[k[2]].begun
  BY DEF KeysBegun
<1>1. CASE k \in Keys
  <2>1. k[2] \in StepIds /\ k[3] \in 1..row.steps[k[2]].begun
    BY <1>1 DEF KeysBegun
  <2>2. row'.steps[k[2]].begun >= row.steps[k[2]].begun
    <3>1. CASE row' = row \/ Removed
      BY <1>0, <2>1, <3>1, StepTypes DEF Removed, Rows
    <3> QED
      BY <2>1, <3>1 DEF RowStep, Grown, BegunKept
  <2> QED
    BY <1>0, <2>1, <2>2, StepTypes
<1>2. CASE BegunNow(k)
  <2>1. PICK i \in StepIds :
          IsCurrent(row', i) /\ row'.steps[i].begun > row.steps[i].begun
    BY <1>2 DEF BegunNow, Grown, Renewed
  <2>2. k = <<"step", i, row'.steps[i].begun>>
    BY <1>2, <2>1, CurrentIs DEF BegunNow, StepTask
  <2> QED
    BY <1>0, <2>1, <2>2, StepTypes
<1> QED
  BY <1>1, <1>2 DEF KeyStep

\* Saving a run adds no key but that of the step it begins.
LEMMA SavedKeys ==
  ASSUME Grown(row', row), tasks' = WithStepTask(tasks, row'),
         \A e \in execs' : \E f \in execs : f.key = e.key
  PROVE  RowStep /\ KeyStep /\ DraftIdle'
<1>1. row'.status # "draft"
  BY DEF Grown
<1>2. ASSUME NEW k \in DOMAIN tasks' PROVE k \in DOMAIN tasks \/ BegunNow(k)
  <2>1. CASE row'.status = "running"
    BY <1>2, <2>1, EnqueuedKeys DEF WithStepTask, BegunNow
  <2>2. CASE row'.status # "running"
    BY <1>2, <2>2 DEF WithStepTask
  <2> QED
    BY <2>1, <2>2
<1> QED
  BY <1>1, <1>2 DEF RowStep, KeyStep, DraftIdle, Keys

LEMMA AnswerMoves ==
  ASSUME IInv, IInv', OInv, Answer
  PROVE  RowStep /\ KeyStep /\ DraftIdle'
<1> PICK q \in reqs :
      \/ Conflict(q) \/ StartRequested(q) \/ StepStarted(q) \/ StepRetried(q)
      \/ Reanalyzed(q) \/ StepCompleted(q) \/ RunCancelled(q) \/ RunExpired(q)
      \/ RunPaused(q) \/ RunResumed(q) \/ VerdictSubmitted(q)
      \/ DeleteCancels(q) \/ Purged(q)
  BY DEF Answer
<1>1. CASE Conflict(q)
  BY <1>1 DEF Conflict, RowStep, KeyStep, Keys, OInv, DraftIdle
<1>2. CASE StartRequested(q)
  <2>1. row'.status # "draft" /\ RowStep /\ execs' = execs
    BY <1>2, StartedGrows DEF StartRequested, RowStep
  <2>2. \A k \in DOMAIN tasks' : k[1] = "step" => k \in DOMAIN tasks
    <3> DEFINE v == MoveTo(q.seen, "resource_queue").version
    <3>1. tasks' = Enqueued(tasks, RunTask("start", v), TRUE)
      BY <1>2 DEF StartRequested
    <3> HIDE DEF v
    <3> QED
      BY <3>1, RunTaskAdds DEF RunKinds
  <2> QED
    BY <2>1, <2>2 DEF KeyStep, Keys, DraftIdle
<1>3. CASE \/ StepStarted(q) \/ StepRetried(q) \/ Reanalyzed(q) \/ StepCompleted(q)
           \/ RunCancelled(q) \/ RunExpired(q) \/ RunPaused(q) \/ VerdictSubmitted(q)
  <2>1. Save(q, row') /\ Grown(row', row)
    BY <1>3, SavesGrow DEF OInv
  <2> QED
    BY <2>1, SavedKeys DEF Save
<1>4. CASE RunResumed(q)
  <2>1. Grown(row', row) /\ execs' = execs
    BY <1>4, ResumedGrows DEF OInv, RunResumed
  <2>2. \A k \in DOMAIN tasks' : k[1] = "step" => k \in DOMAIN tasks
    <3>1. tasks' = Enqueued(tasks, RunTask("resume", row'.version), FALSE) \/ tasks' = tasks
      BY <1>4 DEF RunResumed
    <3> QED
      BY <3>1, RunTaskAdds DEF RunKinds
  <2> QED
    BY <2>1, <2>2 DEF RowStep, KeyStep, Keys, DraftIdle, Grown
<1>5. CASE DeleteCancels(q)
  <2>1. q.seen = row /\ row \in Rows /\ row' = Cancel(row) /\ tasks' = tasks /\ execs' = execs
    BY <1>5, FreshIsRow DEF DeleteCancels
  <2>2. Grown(row', row)
    BY <2>1, CancelGrows DEF OInv
  <2> QED
    BY <2>1, <2>2 DEF RowStep, KeyStep, Keys, DraftIdle, Grown
<1>6. CASE Purged(q)
  <2>1. Over(row) /\ row'.status = "deleted" /\ execs' = execs /\ DOMAIN tasks' = {}
    BY <1>6 DEF Purged, OInv, EndsSeen, IInv, TypeOK, Rows
  <2> QED
    BY <1>6, <2>1 DEF Purged, Removed, RowStep, KeyStep, Keys, DraftIdle
<1> QED
  BY <1>1, <1>2, <1>3, <1>4, <1>5, <1>6

LEMMA ExecutionMoves ==
  ASSUME IInv, IInv', OInv, Execution
  PROVE  RowStep /\ KeyStep /\ DraftIdle'
<1>1. CASE \E key \in DOMAIN tasks : Claim(key)
  BY <1>1 DEF Claim, RowStep, KeyStep, Keys, OInv, DraftIdle
<1>2. CASE \E e \in execs : Load(e)
  <2>1. PICK e \in execs : Load(e)
    BY <1>2
  <2>2. \A f \in execs' : \E g \in execs : g.key = f.key
    BY <2>1 DEF Load, IInv, TypeOK
  <2> QED
    BY <2>1, <2>2 DEF Load, RowStep, KeyStep, Keys, OInv, DraftIdle
<1>3. CASE \E e \in execs : RunStarts(e) \/ HandlerReturns(e) \/ HandlerRaises(e)
  <2>1. PICK e \in execs : RunStarts(e) \/ HandlerReturns(e) \/ HandlerRaises(e)
    BY <1>3
  <2>2. Finishes(e, row') /\ (~Fresh(e.seen) => row' = row)
        /\ (Fresh(e.seen) => Grown(row', row))
    BY <2>1, WorkGrows
  <2>3. \A f \in execs' : \E g \in execs : g.key = f.key
    BY <2>2 DEF Finishes, IInv, TypeOK
  <2>4. CASE Fresh(e.seen)
    BY <2>2, <2>3, <2>4, SavedKeys DEF Finishes
  <2>5. CASE ~Fresh(e.seen)
    BY <2>2, <2>3, <2>5 DEF Finishes, RowStep, KeyStep, Keys, OInv, DraftIdle
  <2> QED
    BY <2>4, <2>5
<1>4. CASE \E e \in execs : Settle(e)
  <2>1. PICK e \in execs : Settle(e)
    BY <1>4
  <2>2. row' = row /\ execs' \subseteq execs /\ DOMAIN tasks' = DOMAIN tasks
    BY <2>1 DEF Settle
  <2> QED
    BY <2>1, <2>2 DEF RowStep, KeyStep, Keys, OInv, DraftIdle
<1> QED
  BY <1>1, <1>2, <1>3, <1>4 DEF Execution

LEMMA OtherMoves ==
  ASSUME IInv, IInv', OInv, Arrival \/ Crash \/ Stop \/ Restart \/ UNCHANGED vars
  PROVE  RowStep /\ KeyStep /\ DraftIdle'
<1>1. row' = row /\ execs' \subseteq execs
  BY DEF Arrival, Receive, Crash, Stop, Restart, vars
<1>2. CASE Arrival \/ Crash \/ Stop \/ UNCHANGED vars
  <2>1. DOMAIN tasks' = DOMAIN tasks
    BY <1>2 DEF Arrival, Receive, Crash, Stop, vars
  <2> QED
    BY <1>1, <2>1 DEF RowStep, KeyStep, Keys, OInv, DraftIdle
<1>3. CASE Restart
  <2>1. /\ \A k \in DOMAIN tasks' : k[1] = "step" => k \in DOMAIN tasks
        /\ row.status # "resource_queue" => tasks' = tasks
    <3>1. \/ tasks' = tasks
          \/ /\ row.status = "resource_queue"
             /\ tasks' = Enqueued(tasks, RunTask("recovery", row.version), FALSE)
      BY <1>3 DEF Restart
    <3>2. CASE tasks' = tasks
      BY <3>2
    <3>3. CASE tasks' = Enqueued(tasks, RunTask("recovery", row.version), FALSE)
      BY <3>1, <3>3, RunTaskAdds DEF RunKinds
    <3> QED
      BY <3>1, <3>2, <3>3
  <2> QED
    BY <1>1, <2>1 DEF RowStep, KeyStep, Keys, OInv, DraftIdle
<1> QED
  BY <1>2, <1>3

\* Requests see the run as it is, or as their own cancellation leaves it.
LEMMA EndsSeenKept ==
  ASSUME IInv, IInv', OInv, [Next]_vars
  PROVE  EndsSeen'
<1>1. Over(row) => Over(row')
  BY OverStays DEF vars
<1>2. ASSUME NEW p \in reqs'
      PROVE  p.seen = row' \/ \E q \in reqs : q.seen = p.seen
  <2>1. CASE Arrival
    BY <1>2, <2>1 DEF Arrival, Receive
  <2>2. CASE Answer
    BY <1>2, <2>2, ZenonT(60)
       DEF Answer, Conflict, StartRequested, StepStarted, StepRetried, Reanalyzed,
           StepCompleted, RunCancelled, RunExpired, RunPaused, RunResumed, VerdictSubmitted,
           DeleteCancels, Purged, Save, IInv, TypeOK
  <2>3. reqs' = {} \/ reqs' = reqs \/ Arrival \/ Answer
    BY DEF Next, Execution, Claim, Load, RunStarts, HandlerReturns, HandlerRaises, Finishes,
           Settle, Crash, Stop, Restart, vars
  <2> QED
    BY <1>2, <2>1, <2>2, <2>3
<1> QED
  BY <1>1, <1>2 DEF EndsSeen, OInv, Over

LEMMA OrderKept == IInv /\ OInv /\ [Next]_vars => OInv'
<1> SUFFICES ASSUME IInv, OInv, [Next]_vars
             PROVE  OInv'
  OBVIOUS
<1>1. IInv'
  BY StepKeeps
<1>2. RowStep /\ KeyStep /\ DraftIdle'
  BY <1>1, AnswerMoves, ExecutionMoves, OtherMoves DEF Next
<1>3. Shape(row)' /\ KeysBegun'
  BY <1>1, <1>2, ShapeKept, KeysKept DEF OInv
<1>4. EndsSeen'
  BY <1>1, EndsSeenKept
<1> QED
  BY <1>2, <1>3, <1>4 DEF OInv

LEMMA Ordered == Spec => [](IInv /\ OInv)
<1>1. Init => OInv
  <2> SUFFICES ASSUME Init PROVE OInv
    OBVIOUS
  <2>1. row = Draft /\ row \in Rows /\ row.status = "draft" /\ row.version = 0
        /\ DOMAIN tasks = {} /\ execs = {} /\ reqs = {}
    BY DraftType DEF Init
  <2>2. /\ row.locked = FALSE
        /\ \A i \in StepIds : row.steps[i].status = "pending" /\ row.steps[i].begun = 0
    BY DEF Init, Draft
  <2>3. Shape(row)
    BY <2>1, <2>2, ActiveStatuses
       DEF Shape, ShapedAs, Effective, InOrder, Counted, Touched
  <2> QED
    BY <2>1, <2>3 DEF OInv, KeysBegun, Keys, DraftIdle, EndsSeen
<1> QED
  BY <1>1, OrderKept, Inductive, PTL DEF Spec

-----------------------------------------------------------------------------
(* The tasks of the steps *)

\* A run that is gone has no tasks; a key is executed once at a time, while it is running.
Gone == row.status = "deleted" => DOMAIN tasks = {}
ExecutionsKnown ==
  row.status # "deleted" =>
    \A e \in execs : e.key \in DOMAIN tasks /\ tasks[e.key].status = "running"
OnePerKey == \A e, f \in execs : e.key = f.key => e = f

Known == Gone /\ ExecutionsKnown /\ OnePerKey

\* The task of the begun step: not settled, and an attempt was lost only to a crash.
CarriedOn ==
  stops = 0 /\ row.status = "running" =>
    LET key == StepTask(row, Current(row))
    IN /\ key \in DOMAIN tasks
       /\ tasks[key].status \in {"queued", "running"}
       /\ \A e \in execs : e.key = key =>
            e.phase \in {"claimed", "work"} /\ (e.phase = "work" => e.seen = row)
       /\ tasks[key].attempts <= crashes + 1
       /\ ~Executing(key) => tasks[key].attempts <= crashes

\* Statuses in which the task of the last begun step may still be in the queue.
Stayed(r) == r.status \in {"running", "cancelled", "timed_out", "deleted"}
OfCurrent(k, r) == \E i \in StepIds : IsCurrent(r, i) /\ k = StepTask(r, i)

\* Without crashes, what is not done with a step is the task of the last begun one.
OnlyCurrent ==
  crashes = 0 =>
    /\ \A e \in execs : e.key[1] = "step" /\ e.phase # "ok" =>
         /\ Stayed(row) /\ OfCurrent(e.key, row)
         /\ e.phase = "work" => OfCurrent(e.key, e.seen)
    /\ \A k \in DOMAIN tasks : k[1] = "step" =>
         \/ tasks[k].status \in {"succeeded", "failed"}
         \/ \E e \in execs : e.key = k /\ e.phase = "ok"
         \/ Stayed(row) /\ OfCurrent(k, row)

TInv == Known /\ CarriedOn /\ OnlyCurrent

\* What the table of tasks may become when a task is put into it.
TasksGrow ==
  /\ \A k \in DOMAIN tasks :
       /\ k \in DOMAIN tasks'
       /\ k[1] = "step" \/ tasks[k].status \notin {"succeeded", "failed"} => tasks'[k] = tasks[k]
  /\ \A k \in DOMAIN tasks' \ DOMAIN tasks :
       k[1] = "step" => BegunNow(k) /\ tasks'[k] = NewTask
  /\ row.status = "deleted" => tasks' = tasks

Saved ==
  /\ Grown(row', row)
  /\ row.status # "deleted"
  /\ row'.status = "running" => StepTask(row', Current(row')) \in DOMAIN tasks'

\* A run that is cancelled while it runs stays where it was.
InPlace ==
  /\ row.status = "running"
  /\ row'.status \in {"cancelled", "timed_out"}
  /\ \A i \in StepIds : /\ row'.steps[i].begun = row.steps[i].begun
                        /\ row'.steps[i].status = "succeeded" <=>
                             row.steps[i].status = "succeeded"

\* A step that touches no execution.
Quiet ==
  /\ UNCHANGED <<execs, crashes, stops>>
  /\ TasksGrow
  /\ \/ row' = row
     \/ Saved /\ (Stayed(row) => InPlace)

LEMMA TaskAdded ==
  ASSUME NEW kind \in RunKinds, NEW v, NEW reactivate, row.status # "deleted",
         tasks' = Enqueued(tasks, RunTask(kind, v), reactivate)
  PROVE  TasksGrow
<1>1. RunTask(kind, v)[1] # "step"
  BY DEF RunTask, RunKinds
<1>2. ASSUME NEW k \in DOMAIN tasks
      PROVE  /\ k \in DOMAIN tasks'
             /\ k[1] = "step" \/ tasks[k].status \notin {"succeeded", "failed"}
                  => tasks'[k] = tasks[k]
  <2>1. CASE k = RunTask(kind, v)
    BY <1>1, <1>2, <2>1 DEF Enqueued
  <2>2. CASE k # RunTask(kind, v)
    BY <1>2, <2>2, EnqueuedKeys
  <2> QED
    BY <2>1, <2>2
<1>3. \A k \in DOMAIN tasks' \ DOMAIN tasks : k[1] # "step"
  BY <1>1, EnqueuedKeys
<1> QED
  BY <1>2, <1>3 DEF TasksGrow

\* The task of a begun step is a new one: its key names a begin that had not happened.
LEMMA BegunIsNew ==
  ASSUME IInv, OInv, NEW k, BegunNow(k)
  PROVE  /\ k \notin Keys /\ k[1] = "step"
         /\ \E i \in StepIds : IsCurrent(row', i) /\ k = StepTask(row', i)
<1>1. PICK i \in StepIds :
        IsCurrent(row', i) /\ row'.steps[i].begun > row.steps[i].begun
  BY DEF BegunNow, Grown, Renewed
<1>2. k = StepTask(row', i) /\ k = <<"step", i, row'.steps[i].begun>>
  BY <1>1, CurrentIs DEF BegunNow, StepTask
<1>3. row.steps[i].begun \in Nat
  BY StepTypes DEF IInv, TypeOK
<1>4. ASSUME k \in Keys PROVE FALSE
  <2>1. row'.steps[i].begun \in 1..row.steps[i].begun
    BY <1>2, <1>4 DEF OInv, KeysBegun
  <2> QED
    BY <1>1, <1>3, <2>1
<1>5. k[1] = "step"
  BY <1>2
<1> QED
  BY <1>1, <1>2, <1>4, <1>5

LEMMA StepTaskAdded ==
  ASSUME IInv, OInv, Grown(row', row), row.status # "deleted",
         tasks' = WithStepTask(tasks, row')
  PROVE  TasksGrow /\ Saved
<1>1. CASE row'.status = "running"
  <2> DEFINE key == StepTask(row', Current(row'))
  <2>1. BegunNow(key)
    BY <1>1 DEF BegunNow
  <2>2. key \notin DOMAIN tasks
    BY <2>1, BegunIsNew DEF Keys
  <2>3. tasks' = Enqueued(tasks, key, FALSE)
    BY <1>1 DEF WithStepTask
  <2> HIDE DEF key
  <2>4. /\ DOMAIN tasks \subseteq DOMAIN tasks' /\ DOMAIN tasks' \subseteq DOMAIN tasks \cup {key}
        /\ key \in DOMAIN tasks'
        /\ \A k \in DOMAIN tasks : tasks'[k] = tasks[k]
        /\ tasks'[key] = NewTask
    BY <2>2, <2>3 DEF Enqueued
  <2>5. TasksGrow
    BY <2>1, <2>4 DEF TasksGrow
  <2> QED
    BY <1>1, <2>4, <2>5 DEF Saved, key
<1>2. CASE row'.status # "running"
  BY <1>2 DEF WithStepTask, TasksGrow, Saved
<1> QED
  BY <1>1, <1>2

LEMMA CancelStepsInPlace ==
  ASSUME NEW r \in Rows, NEW from \in SUBSET (StepStatuses \ {"succeeded"}), NEW i \in StepIds
  PROVE  /\ CancelSteps(r, from).steps[i].begun = r.steps[i].begun
         /\ CancelSteps(r, from).steps[i].status = "succeeded" <=> r.steps[i].status = "succeeded"
<1>1. CancelSteps(r, from).steps = [j \in StepIds |->
        IF r.steps[j].status \in from THEN [r.steps[j] EXCEPT !.status = "cancelled"]
                                      ELSE r.steps[j]]
  BY DEF CancelSteps, Rows
<1>2. r.steps[i] \in [status : StepStatuses, begun : Nat]
  BY DEF Rows
<1> QED
  BY <1>1, <1>2

LEMMA CancelInPlace ==
  ASSUME NEW r \in Rows
  PROVE  /\ Cancel(r).status = "cancelled" /\ Expire(r).status = "timed_out"
         /\ \A q \in {Cancel(r), Expire(r)} : \A i \in StepIds :
              /\ q.steps[i].begun = r.steps[i].begun
              /\ q.steps[i].status = "succeeded" <=> r.steps[i].status = "succeeded"
<1> USE NamedStatuses
<1> DEFINE p == CancelSteps(r, {"running", "waiting"})
           x == CancelSteps(r, {"pending", "running", "waiting", "failed"})
<1>1. p \in Rows /\ x \in Rows
  BY CancelStepsFacts
<1>2. \A i \in StepIds :
        /\ p.steps[i].begun = r.steps[i].begun /\ x.steps[i].begun = r.steps[i].begun
        /\ p.steps[i].status = "succeeded" <=> r.steps[i].status = "succeeded"
        /\ x.steps[i].status = "succeeded" <=> r.steps[i].status = "succeeded"
  BY CancelStepsInPlace DEF StepStatuses
<1>3. Cancel(r) = Release(MoveTo(p, "cancelled")) /\ Expire(r) = Release(MoveTo(x, "timed_out"))
  BY DEF Cancel, Expire
<1> HIDE DEF p, x
<1>4. /\ MoveTo(p, "cancelled") \in Rows /\ MoveTo(p, "cancelled").steps = p.steps
      /\ MoveTo(p, "cancelled").status = "cancelled"
  BY <1>1, MoveToFacts
<1>5. /\ MoveTo(x, "timed_out") \in Rows /\ MoveTo(x, "timed_out").steps = x.steps
      /\ MoveTo(x, "timed_out").status = "timed_out"
  BY <1>1, MoveToFacts
<1>6. Cancel(r).steps = p.steps /\ Expire(r).steps = x.steps
      /\ Cancel(r).status = "cancelled" /\ Expire(r).status = "timed_out"
  BY <1>3, <1>4, <1>5, ReleaseFacts
<1> QED
  BY <1>2, <1>6

\* Only a cancellation or a timeout moves a running run from outside.
LEMMA SavesStay ==
  ASSUME IInv, NEW q \in reqs, Stayed(row),
         \/ StepStarted(q) \/ StepRetried(q) \/ Reanalyzed(q) \/ StepCompleted(q)
         \/ RunCancelled(q) \/ RunExpired(q) \/ RunPaused(q) \/ RunResumed(q)
         \/ VerdictSubmitted(q)
  PROVE  InPlace
<1>1. /\ Fresh(q.seen) /\ q.op \notin {"purge", "delete"}
      /\ RunCancelled(q) \/ RunExpired(q) \/ q.op \notin {"cancel", "expire"}
  BY DEF StepStarted, StepRetried, Reanalyzed, StepCompleted, RunCancelled, RunExpired,
         RunPaused, RunResumed, VerdictSubmitted, Save
<1>2. q.seen = row /\ row \in Rows /\ row.status # "deleted" /\ Accepted(q.op, row, q.step)
  BY <1>1, FreshIsRow, PassedFacts
<1>3. row.status = "running"
  BY <1>1, <1>2, WritersSawNoEnd DEF Stayed, TerminalRunStatuses
<1>4. RunCancelled(q) \/ RunExpired(q)
  BY <1>1, <1>2, <1>3
     DEF Accepted, CanComplete, CanBegin, PausableRunStatuses, StepStarted, StepRetried,
         Reanalyzed, StepCompleted, RunPaused, RunResumed, VerdictSubmitted
<1>5. row' \in {Cancel(row), Expire(row)}
  BY <1>2, <1>4 DEF RunCancelled, RunExpired, Save
<1> QED
  BY <1>2, <1>3, <1>5, CancelInPlace DEF InPlace

LEMMA QuietAnswers ==
  ASSUME IInv, OInv, NEW q \in reqs,
         \/ Conflict(q) \/ StartRequested(q) \/ StepStarted(q) \/ StepRetried(q)
         \/ Reanalyzed(q) \/ StepCompleted(q) \/ RunCancelled(q) \/ RunExpired(q)
         \/ RunPaused(q) \/ RunResumed(q) \/ VerdictSubmitted(q) \/ DeleteCancels(q)
  PROVE  Quiet
<1>0. UNCHANGED <<execs, crashes, stops>>
  BY DEF Conflict, StartRequested, StepStarted, StepRetried, Reanalyzed, StepCompleted,
         RunCancelled, RunExpired, RunPaused, RunResumed, VerdictSubmitted, DeleteCancels, Save
<1>1. CASE Conflict(q)
  BY <1>0, <1>1 DEF Conflict, Quiet, TasksGrow
<1>2. CASE StartRequested(q)
  <2> DEFINE v == MoveTo(q.seen, "resource_queue").version
  <2>1. tasks' = Enqueued(tasks, RunTask("start", v), TRUE) /\ row.status # "deleted"
    BY <1>2 DEF StartRequested
  <2> HIDE DEF v
  <2>2. TasksGrow
    BY <2>1, TaskAdded DEF RunKinds
  <2>3. CASE row' = row
    BY <1>0, <2>2, <2>3 DEF Quiet
  <2>4. CASE row' # row
    <3>1. Grown(row', row) /\ row'.status = "resource_queue"
      BY <1>2, <2>4, StartedGrows
    <3>2. ~Stayed(row)
      <4>1. Fresh(q.seen) /\ q.op = "start"
        BY <1>2, <2>4 DEF StartRequested
      <4>2. row.status \in {"draft", "resource_queue"}
        BY <4>1, FreshIsRow, PassedFacts DEF Accepted
      <4> QED
        BY <4>2 DEF Stayed
    <3> QED
      BY <1>0, <2>1, <2>2, <3>1, <3>2 DEF Quiet, Saved
  <2> QED
    BY <2>3, <2>4
<1>3. CASE \/ StepStarted(q) \/ StepRetried(q) \/ Reanalyzed(q) \/ StepCompleted(q)
           \/ RunCancelled(q) \/ RunExpired(q) \/ RunPaused(q) \/ VerdictSubmitted(q)
  <2>1. Save(q, row') /\ Grown(row', row)
    BY <1>3, SavesGrow DEF OInv
  <2>2. tasks' = WithStepTask(tasks, row') /\ row.status # "deleted"
    BY <2>1 DEF Save, Fresh
  <2>3. TasksGrow /\ Saved
    BY <2>1, <2>2, StepTaskAdded
  <2>4. Stayed(row) => InPlace
    BY <1>3, SavesStay
  <2> QED
    BY <1>0, <2>3, <2>4 DEF Quiet
<1>4. CASE RunResumed(q)
  <2>1. Grown(row', row) /\ row'.status \in PausableRunStatuses /\ row.status # "deleted"
    BY <1>4, ResumedGrows DEF OInv, RunResumed, Fresh
  <2>2. TasksGrow
    <3>1. CASE tasks' = tasks
      BY <3>1 DEF TasksGrow
    <3>2. CASE tasks' # tasks
      <4>1. tasks' = Enqueued(tasks, RunTask("resume", row'.version), FALSE)
        BY <1>4, <3>2 DEF RunResumed
      <4> QED
        BY <2>1, <4>1, TaskAdded DEF RunKinds
    <3> QED
      BY <3>1, <3>2
  <2>3. row'.status # "running"
    BY <2>1 DEF PausableRunStatuses
  <2>4. Stayed(row) => InPlace
    BY <1>4, SavesStay
  <2> QED
    BY <1>0, <2>1, <2>2, <2>3, <2>4 DEF Quiet, Saved
<1>5. CASE DeleteCancels(q)
  <2>1. /\ q.seen = row /\ row \in Rows /\ row' = Cancel(row) /\ tasks' = tasks
        /\ row.status # "deleted" /\ row.status \in DeletableStatuses \ TerminalRunStatuses
    BY <1>5, FreshIsRow, PassedFacts DEF DeleteCancels, Accepted
  <2>2. Grown(row', row) /\ row'.status = "cancelled"
    BY <2>1, CancelGrows, CancelInPlace DEF OInv
  <2>3. ~Stayed(row)
    BY <2>1 DEF Stayed, DeletableStatuses, TerminalRunStatuses
  <2> QED
    BY <1>0, <2>1, <2>2, <2>3 DEF Quiet, Saved, TasksGrow
<1> QED
  BY <1>1, <1>2, <1>3, <1>4, <1>5

LEMMA QuietSteps ==
  ASSUME IInv, OInv, Arrival \/ Restart \/ UNCHANGED vars
  PROVE  Quiet
<1>1. UNCHANGED <<row, execs, crashes, stops>>
  BY DEF Arrival, Receive, Restart, vars
<1>2. CASE tasks' = tasks
  BY <1>1, <1>2 DEF Quiet, TasksGrow
<1>3. CASE tasks' # tasks
  <2>1. /\ row.status = "resource_queue"
        /\ tasks' = Enqueued(tasks, RunTask("recovery", row.version), FALSE)
    BY <1>3 DEF Arrival, Receive, Restart, vars
  <2> QED
    BY <1>1, <2>1, TaskAdded DEF Quiet, RunKinds
<1> QED
  BY <1>2, <1>3

-----------------------------------------------------------------------------
(* What a step of each kind keeps *)

\* What becomes of an execution that loads, and of one that finishes.
LEMMA LoadTurns ==
  ASSUME IInv, NEW e \in execs, Load(e)
  PROVE  /\ UNCHANGED <<row, tasks, crashes, stops>> /\ e.phase = "claimed"
         /\ \E f \in ExecRecords :
              /\ execs' = (execs \ {e}) \cup {f} /\ f.key = e.key
              /\ IF Runnable(e.key) THEN f.phase = "work" /\ f.seen = row ELSE f.phase = "ok"
<1> DEFINE f == IF Runnable(e.key) THEN [e EXCEPT !.phase = "work", !.seen = row]
                                   ELSE [e EXCEPT !.phase = "ok"]
<1>1. execs' = (execs \ {e}) \cup {f}
  BY DEF Load
<1>2. e \in ExecRecords /\ row \in Rows
  BY DEF IInv, TypeOK, ExecRecords
<1>3. f \in ExecRecords /\ f.key = e.key
  BY <1>2 DEF ExecRecords
<1>4. IF Runnable(e.key) THEN f.phase = "work" /\ f.seen = row ELSE f.phase = "ok"
  BY <1>2 DEF ExecRecords
<1> HIDE DEF f
<1> QED
  BY <1>1, <1>3, <1>4 DEF Load

LEMMA FinishTurns ==
  ASSUME IInv, NEW e \in execs, Finishes(e, row')
  PROVE  /\ UNCHANGED <<crashes, stops>>
         /\ tasks' = IF Fresh(e.seen) THEN WithStepTask(tasks, row') ELSE tasks
         /\ \E f \in ExecRecords :
              /\ execs' = (execs \ {e}) \cup {f} /\ f.key = e.key
              /\ f.phase = IF Fresh(e.seen) THEN "ok" ELSE "err"
<1> DEFINE f == [e EXCEPT !.phase = IF Fresh(e.seen) THEN "ok" ELSE "err", !.seen = NoSession]
<1>1. /\ execs' = (execs \ {e}) \cup {f}
      /\ tasks' = IF Fresh(e.seen) THEN WithStepTask(tasks, row') ELSE tasks
      /\ UNCHANGED <<crashes, stops>>
  BY DEF Finishes
<1>2. e \in ExecRecords /\ NoSession \in Rows
  BY DraftType DEF IInv, TypeOK, ExecRecords, NoSession
<1>3. /\ f \in ExecRecords /\ f.key = e.key
      /\ f.phase = IF Fresh(e.seen) THEN "ok" ELSE "err"
  BY <1>2 DEF ExecRecords
<1> HIDE DEF f
<1> QED
  BY <1>1, <1>3

Working(e) == RunStarts(e) \/ HandlerReturns(e) \/ HandlerRaises(e)

LEMMA StepKinds ==
  ASSUME IInv, OInv, [Next]_vars
  PROVE  \/ Quiet
         \/ \E key \in DOMAIN tasks : Claim(key)
         \/ \E e \in execs : Load(e)
         \/ \E e \in execs : Working(e)
         \/ \E e \in execs : Settle(e)
         \/ \E q \in reqs : Purged(q)
         \/ Crash \/ Stop
BY QuietAnswers, QuietSteps DEF Next, Answer, Execution, Working

\* A key is executed by one worker: a claim finds a task that nobody executes.
LEMMA KnownKept ==
  ASSUME IInv, OInv, Known, [Next]_vars
  PROVE  Known'
<1> USE DEF Known
<1>0. Over(row) => Over(row')
  BY OverStays DEF vars
<1>1. ASSUME Quiet PROVE Known'
  <2>1. row.status = "deleted" => row'.status = "deleted"
    BY <1>1 DEF Quiet, Saved
  <2>2. row'.status = "deleted" => row.status = "deleted"
    BY <1>1 DEF Quiet, Saved, Grown, RunStatuses, TerminalRunStatuses, PausableRunStatuses
  <2> QED
    BY <1>1, <2>1, <2>2 DEF Quiet, TasksGrow, Gone, ExecutionsKnown, OnePerKey
<1>2. CASE \E key \in DOMAIN tasks : Claim(key)
  <2>1. PICK key \in DOMAIN tasks : Claim(key)
    BY <1>2
  <2>2. row' = row /\ row.status # "deleted"
    BY <2>1 DEF Claim, Gone
  <2>3. ~Executing(key)
    BY <2>1, <2>2 DEF Claim, Claimable, ExecutionsKnown, Executing
  <2>4. /\ DOMAIN tasks' = DOMAIN tasks /\ tasks'[key].status = "running"
        /\ \A k \in DOMAIN tasks \ {key} : tasks'[k] = tasks[k]
    BY <2>1 DEF Claim, IInv, TypeOK
  <2> DEFINE e == [key |-> key, phase |-> "claimed", seen |-> NoSession]
  <2>5. execs' = execs \cup {e} /\ e.key = key
    BY <2>1 DEF Claim
  <2> HIDE DEF e
  <2> QED
    BY <2>2, <2>3, <2>4, <2>5 DEF Gone, ExecutionsKnown, OnePerKey, Executing
<1>3. CASE \E e \in execs : Load(e)
  <2>1. PICK e \in execs : Load(e)
    BY <1>3
  <2>2. PICK f : execs' = (execs \ {e}) \cup {f} /\ f.key = e.key
    BY <2>1, LoadTurns
  <2>3. row' = row /\ tasks' = tasks
    BY <2>1, LoadTurns
  <2> QED
    BY <2>2, <2>3 DEF Gone, ExecutionsKnown, OnePerKey
<1>4. CASE \E e \in execs : RunStarts(e) \/ HandlerReturns(e) \/ HandlerRaises(e)
  <2>1. PICK e \in execs : RunStarts(e) \/ HandlerReturns(e) \/ HandlerRaises(e)
    BY <1>4
  <2>2. Finishes(e, row') /\ (~Fresh(e.seen) => row' = row)
        /\ (Fresh(e.seen) => e.seen = row /\ Grown(row', row))
    BY <2>1, WorkGrows
  <2>3. PICK f : execs' = (execs \ {e}) \cup {f} /\ f.key = e.key
    BY <2>2, FinishTurns
  <2>4. CASE Fresh(e.seen)
    <3>1. TasksGrow /\ row.status # "deleted" /\ Grown(row', row)
      BY <2>2, <2>4, StepTaskAdded DEF Finishes, Fresh
    <3>2. row'.status # "deleted"
      BY <3>1 DEF Grown, RunStatuses, TerminalRunStatuses, PausableRunStatuses
    <3> QED
      BY <2>3, <3>1, <3>2 DEF TasksGrow, Gone, ExecutionsKnown, OnePerKey
  <2>5. CASE ~Fresh(e.seen)
    BY <2>2, <2>3, <2>5 DEF Finishes, Gone, ExecutionsKnown, OnePerKey
  <2> QED
    BY <2>4, <2>5
<1>5. CASE \E e \in execs : Settle(e)
  <2>1. PICK e \in execs : Settle(e)
    BY <1>5
  <2>2. /\ row' = row /\ execs' = execs \ {e} /\ DOMAIN tasks' = DOMAIN tasks
        /\ \A k \in DOMAIN tasks : k # e.key => tasks'[k] = tasks[k]
    BY <2>1 DEF Settle
  <2> QED
    BY <2>2 DEF Gone, ExecutionsKnown, OnePerKey
<1>6. CASE \E q \in reqs : Purged(q)
  <2>1. row'.status = "deleted" /\ DOMAIN tasks' = {} /\ execs' = execs
    BY <1>6 DEF Purged, IInv, TypeOK, Rows
  <2> QED
    BY <2>1 DEF Gone, ExecutionsKnown, OnePerKey
<1>7. CASE Crash \/ Stop
  <2>1. row' = row /\ execs' = {} /\ DOMAIN tasks' = DOMAIN tasks
    BY <1>7 DEF Crash, Stop
  <2> QED
    BY <2>1 DEF Gone, ExecutionsKnown, OnePerKey
<1> QED
  BY <1>1, <1>2, <1>3, <1>4, <1>5, <1>6, <1>7, StepKinds DEF Working

\* A run that is saved as running has a queued task that was never tried.
LEMMA SavedIsCarried ==
  ASSUME IInv, IInv', OInv, Saved, TasksGrow, row'.status = "running", crashes' = crashes,
         \A f \in execs' : \E e \in execs : e.key = f.key
  PROVE  CarriedOn'
<1> DEFINE key == StepTask(row', Current(row'))
<1>1. BegunNow(key)
  BY DEF Saved, BegunNow
<1>2. key \notin Keys /\ key[1] = "step"
  BY <1>1, BegunIsNew
<1>3. key \in DOMAIN tasks' /\ tasks'[key] = NewTask
  BY <1>2 DEF Saved, TasksGrow, Keys
<1>4. \A f \in execs' : f.key # key
  BY <1>2 DEF Keys
<1>5. crashes' \in Nat
  BY DEF IInv, TypeOK
<1> HIDE DEF key
<1>6. /\ tasks'[key].status = "queued" /\ tasks'[key].attempts = 0
      /\ tasks'[key].attempts <= crashes' /\ tasks'[key].attempts <= crashes' + 1
  BY <1>3, <1>5 DEF NewTask
<1> QED
  BY <1>3, <1>4, <1>6 DEF CarriedOn, key

LEMMA StopsGrow ==
  ASSUME [Next]_vars
  PROVE  stops' = stops \/ stops' = stops + 1
<1>1. CASE Answer
  BY <1>1 DEF Answer, Conflict, StartRequested, StepStarted, StepRetried, Reanalyzed,
              StepCompleted, RunCancelled, RunExpired, RunPaused, RunResumed,
              VerdictSubmitted, DeleteCancels, Purged, Save
<1>2. CASE Execution
  BY <1>2 DEF Execution, Claim, Load, RunStarts, HandlerReturns, HandlerRaises, Finishes, Settle
<1>3. CASE Arrival \/ Crash \/ Stop \/ Restart \/ UNCHANGED vars
  BY <1>3 DEF Arrival, Receive, Crash, Stop, Restart, vars
<1> QED
  BY <1>1, <1>2, <1>3 DEF Next

LEMMA CarriedKept ==
  ASSUME IInv, IInv', OInv, Known, CarriedOn, [Next]_vars
  PROVE  CarriedOn'
<1> DEFINE key == StepTask(row, Current(row))
<1> SUFFICES ASSUME stops' = 0, row'.status = "running"
             PROVE  CarriedOn'
  BY DEF CarriedOn
<1>1. stops = 0
  BY StopsGrow DEF IInv, TypeOK
<1>2. key[1] = "step"
  BY DEF StepTask
<1>3. ASSUME row' = row
      PROVE  /\ row.status = "running" /\ row.status # "deleted"
             /\ key' = key
             /\ key \in DOMAIN tasks /\ tasks[key].status \in {"queued", "running"}
             /\ \A e \in execs : e.key = key =>
                  e.phase \in {"claimed", "work"} /\ (e.phase = "work" => e.seen = row)
             /\ tasks[key].attempts <= crashes + 1
             /\ ~Executing(key) => tasks[key].attempts <= crashes
  BY <1>1, <1>3 DEF CarriedOn
<1>4. crashes \in Nat /\ \A k \in DOMAIN tasks : tasks[k].attempts \in Nat
  BY BoundsAssumption DEF IInv, TypeOK
<1>5. ASSUME NEW k
      PROVE  /\ k \in DOMAIN tasks' /\ tasks'[k].status \in {"queued", "running"}
             /\ \A e \in execs' : e.key = k =>
                  e.phase \in {"claimed", "work"} /\ (e.phase = "work" => e.seen = row')
             /\ tasks'[k].attempts <= crashes' + 1
             /\ ~Executing(k)' => tasks'[k].attempts <= crashes'
             /\ k = key'
             => CarriedOn'
  BY DEF CarriedOn
<1> HIDE DEF key
<1>6. CASE Quiet
  <2>1. CASE row' = row
    <3>1. key \in DOMAIN tasks' /\ tasks'[key] = tasks[key]
      BY <1>2, <1>3, <1>6, <2>1 DEF Quiet, TasksGrow
    <3> QED
      BY <1>3, <1>5, <1>6, <2>1, <3>1 DEF Quiet, Executing
  <2>2. CASE row' # row
    BY <1>6, <2>2, SavedIsCarried DEF Quiet
  <2> QED
    BY <2>1, <2>2
<1>7. CASE \E k \in DOMAIN tasks : Claim(k)
  <2>1. PICK k \in DOMAIN tasks : Claim(k)
    BY <1>7
  <2> DEFINE e == [key |-> k, phase |-> "claimed", seen |-> NoSession]
  <2>2. /\ row' = row /\ crashes' = crashes /\ execs' = execs \cup {e}
        /\ e.key = k /\ e.phase = "claimed"
        /\ tasks' = [tasks EXCEPT ![k] = [status |-> "running", attempts |-> @ .attempts + 1]]
    BY <2>1 DEF Claim
  <2>3. ~Executing(k)
    BY <1>3, <2>1, <2>2 DEF Claim, Claimable, Known, ExecutionsKnown, Executing
  <2> HIDE DEF e
  <2>4. CASE k = key
    <3>1. /\ key \in DOMAIN tasks' /\ tasks'[key].status = "running"
          /\ tasks'[key].attempts = tasks[key].attempts + 1
      BY <1>3, <2>2, <2>4 DEF IInv, TypeOK
    <3>2. tasks'[key].attempts <= crashes' + 1
      BY <1>3, <1>4, <2>1, <2>2, <2>3, <2>4, <3>1
    <3>3. Executing(key)'
      BY <1>3, <2>2, <2>4 DEF Executing
    <3> QED
      BY <1>3, <1>5, <2>2, <3>1, <3>2, <3>3
  <2>5. CASE k # key
    <3>1. key \in DOMAIN tasks' /\ tasks'[key] = tasks[key]
      BY <1>3, <2>2, <2>5 DEF IInv, TypeOK
    <3> QED
      BY <1>3, <1>5, <2>2, <2>5, <3>1 DEF Executing
  <2> QED
    BY <2>4, <2>5
<1>8. CASE \E e \in execs : Load(e)
  <2>1. PICK e \in execs : Load(e)
    BY <1>8
  <2>2. PICK f : /\ execs' = (execs \ {e}) \cup {f} /\ f.key = e.key
                 /\ IF Runnable(e.key) THEN f.phase = "work" /\ f.seen = row
                                       ELSE f.phase = "ok"
    BY <2>1, LoadTurns
  <2>3. UNCHANGED <<row, tasks, crashes, stops>>
    BY <2>1, LoadTurns
  <2>4. Runnable(key)
    BY <1>2, <1>3, <2>3 DEF Runnable
  <2>5. Executing(key)' <=> Executing(key)
    BY <1>3, <2>1, <2>2, <2>3 DEF Executing
  <2> QED
    BY <1>3, <1>5, <2>2, <2>3, <2>4, <2>5
<1>9. CASE \E e \in execs : Working(e)
  <2>1. PICK e \in execs : Working(e)
    BY <1>9
  <2>2. /\ Finishes(e, row') /\ (~Fresh(e.seen) => row' = row)
        /\ Fresh(e.seen) => e.seen = row /\ Grown(row', row)
        /\ e.phase = "work"
    BY <2>1, WorkGrows DEF Working, RunStarts, HandlerReturns, HandlerRaises
  <2>3. UNCHANGED <<crashes, stops>>
        /\ tasks' = IF Fresh(e.seen) THEN WithStepTask(tasks, row') ELSE tasks
    BY <2>2, FinishTurns
  <2>4. PICK f : execs' = (execs \ {e}) \cup {f} /\ f.key = e.key
    BY <2>2, FinishTurns
  <2>5. CASE Fresh(e.seen)
    <3>1. Saved /\ TasksGrow
      BY <2>2, <2>3, <2>5, StepTaskAdded DEF Fresh
    <3> QED
      BY <2>3, <2>4, <3>1, SavedIsCarried
  <2>6. CASE ~Fresh(e.seen)
    <3>1. row' = row /\ tasks' = tasks
      BY <2>2, <2>3, <2>6
    <3>2. e.key # key
      BY <1>3, <2>2, <2>6, <3>1 DEF Fresh
    <3>3. Executing(key)' <=> Executing(key)
      BY <1>3, <2>4, <3>1, <3>2 DEF Executing
    <3> QED
      BY <1>3, <1>5, <2>3, <2>4, <3>1, <3>2, <3>3
  <2> QED
    BY <2>5, <2>6
<1>10. CASE \E e \in execs : Settle(e)
  <2>1. PICK e \in execs : Settle(e)
    BY <1>10
  <2>2. /\ row' = row /\ crashes' = crashes /\ execs' = execs \ {e}
        /\ DOMAIN tasks' = DOMAIN tasks /\ e.phase \in {"ok", "err"}
        /\ \A k \in DOMAIN tasks : k # e.key => tasks'[k] = tasks[k]
    BY <2>1 DEF Settle
  <2>3. e.key # key
    BY <1>3, <2>2
  <2>4. key \in DOMAIN tasks' /\ tasks'[key] = tasks[key] /\ (Executing(key)' <=> Executing(key))
    BY <1>3, <2>2, <2>3 DEF Executing
  <2> QED
    BY <1>3, <1>5, <2>2, <2>4
<1>11. CASE \E q \in reqs : Purged(q)
  <2>1. row'.status = "deleted"
    BY <1>11 DEF Purged, IInv, TypeOK, Rows
  <2> QED
    BY <2>1
<1>12. CASE Crash
  <2>1. row' = row /\ tasks' = tasks /\ execs' = {} /\ crashes' = crashes + 1
    BY <1>12 DEF Crash
  <2>2. tasks[key].attempts <= crashes' /\ tasks[key].attempts <= crashes' + 1
    BY <1>3, <1>4, <2>1
  <2> QED
    BY <1>3, <1>5, <2>1, <2>2
<1>13. CASE Stop
  BY <1>1, <1>13 DEF Stop, IInv, TypeOK
<1> QED
  BY <1>6, <1>7, <1>8, <1>9, <1>10, <1>11, <1>12, <1>13, StepKinds

LEMMA OfCurrentIsOne ==
  ASSUME NEW r, NEW k, NEW l, OfCurrent(k, r), OfCurrent(l, r)
  PROVE  k = l
BY CurrentIs DEF OfCurrent

LEMMA OfCurrentStays ==
  ASSUME NEW k, OfCurrent(k, row),
         InPlace \/ (row \in Rows /\ row' = [row EXCEPT !.status = "deleted"])
  PROVE  OfCurrent(k, row')
<1>1. PICK i \in StepIds : IsCurrent(row, i) /\ k = StepTask(row, i)
  BY DEF OfCurrent
<1>2. \A j \in StepIds : /\ row'.steps[j].begun = row.steps[j].begun
                         /\ row'.steps[j].status = "succeeded" <=> row.steps[j].status = "succeeded"
  BY DEF InPlace, Rows
<1>3. IsCurrent(row', i) /\ k = StepTask(row', i)
  BY <1>1, <1>2, Prefix DEF IsCurrent, StepTask
<1> QED
  BY <1>3 DEF OfCurrent

\* A queued or abandoned step task can only be that of the last begun step.
LEMMA OnlyKept ==
  ASSUME IInv, IInv', OInv, Known, OnlyCurrent, [Next]_vars
  PROVE  OnlyCurrent'
<1> SUFFICES ASSUME crashes' = 0
             PROVE  OnlyCurrent'
  BY DEF OnlyCurrent
<1>0. row \in Rows /\ row' \in Rows
  BY DEF IInv, TypeOK
<1> DEFINE Waits(e) == e.key[1] = "step" /\ e.phase # "ok"
           Placed(e) == /\ Stayed(row) /\ OfCurrent(e.key, row)
                        /\ e.phase = "work" => OfCurrent(e.key, e.seen)
           Done(k) == \/ tasks[k].status \in {"succeeded", "failed"}
                      \/ \E e \in execs : e.key = k /\ e.phase = "ok"
           Here(k) == Stayed(row) /\ OfCurrent(k, row)
<1>1. CASE Crash
  BY <1>1 DEF Crash, IInv, TypeOK
<1>2. SUFFICES ASSUME ~Crash,
                      \A e \in execs : Waits(e) => Placed(e),
                      \A k \in DOMAIN tasks : k[1] = "step" => Done(k) \/ Here(k)
               PROVE  OnlyCurrent'
  <2>1. ~Crash => crashes' = crashes
    <3>1. CASE Quiet
      BY <3>1 DEF Quiet
    <3>2. CASE \E e \in execs : Load(e) \/ Settle(e)
      BY <3>2 DEF Load, Settle
    <3>3. CASE \E e \in execs : Working(e)
      BY <3>3 DEF Working, RunStarts, HandlerReturns, HandlerRaises, Finishes
    <3>4. CASE \E key \in DOMAIN tasks : Claim(key)
      BY <3>4 DEF Claim
    <3>5. CASE (\E q \in reqs : Purged(q)) \/ Stop
      BY <3>5 DEF Purged, Stop
    <3> QED
      BY <3>1, <3>2, <3>3, <3>4, <3>5, StepKinds
  <2> QED
    BY <1>1, <2>1 DEF OnlyCurrent
<1>3. ASSUME \A e \in execs' : Waits(e) =>
               /\ Stayed(row') /\ OfCurrent(e.key, row')
               /\ e.phase = "work" => OfCurrent(e.key, e.seen),
             \A k \in DOMAIN tasks' : k[1] = "step" =>
               \/ tasks'[k].status \in {"succeeded", "failed"}
               \/ \E e \in execs' : e.key = k /\ e.phase = "ok"
               \/ Stayed(row') /\ OfCurrent(k, row')
      PROVE  OnlyCurrent'
  BY <1>3 DEF OnlyCurrent
\* A task that is put into the table is that of a step begun by the run that is saved.
<1>4. ASSUME TasksGrow, NEW k \in DOMAIN tasks', k[1] = "step"
      PROVE  \/ k \in DOMAIN tasks /\ tasks'[k] = tasks[k]
             \/ Stayed(row') /\ OfCurrent(k, row')
  <2>1. CASE k \in DOMAIN tasks
    BY <1>4, <2>1 DEF TasksGrow
  <2>2. CASE k \notin DOMAIN tasks
    <3>1. BegunNow(k)
      BY <1>4, <2>2 DEF TasksGrow
    <3> QED
      BY <3>1, BegunIsNew DEF BegunNow, Stayed, OfCurrent
  <2> QED
    BY <2>1, <2>2
<1>5. CASE Quiet
  <2>1. execs' = execs /\ TasksGrow
    BY <1>5 DEF Quiet
  <2>2. CASE row' = row
    BY <1>2, <1>3, <1>4, <2>1, <2>2
  <2>3. CASE ~Stayed(row)
    BY <1>2, <1>3, <1>4, <2>1, <2>3
  <2>4. CASE InPlace
    <3>1. Stayed(row') /\ \A k : OfCurrent(k, row) => OfCurrent(k, row')
      BY <2>4, OfCurrentStays DEF InPlace, Stayed
    <3> QED
      BY <1>2, <1>3, <1>4, <2>1, <3>1
  <2> QED
    BY <1>5, <2>2, <2>3, <2>4 DEF Quiet
<1>6. CASE \E k \in DOMAIN tasks : Claim(k)
  <2>1. PICK k \in DOMAIN tasks : Claim(k)
    BY <1>6
  <2> DEFINE e == [key |-> k, phase |-> "claimed", seen |-> NoSession]
  <2>2. /\ row' = row /\ execs' = execs \cup {e} /\ e.key = k /\ e.phase = "claimed"
        /\ DOMAIN tasks' = DOMAIN tasks
        /\ \A l \in DOMAIN tasks \ {k} : tasks'[l] = tasks[l]
    BY <2>1 DEF Claim
  <2> HIDE DEF e
  <2>3. k[1] = "step" => Here(k)
    <3>1. tasks[k].status \in {"queued", "running"} /\ row.status # "deleted"
      BY <2>1 DEF Claim, Claimable, Known, Gone
    <3>2. ~\E f \in execs : f.key = k
      BY <2>1, <3>1 DEF Claim, Claimable, Known, ExecutionsKnown, Executing
    <3> QED
      BY <1>2, <3>1, <3>2
  <2> QED
    BY <1>2, <1>3, <2>2, <2>3
<1>7. CASE \E e \in execs : Load(e)
  <2>1. PICK e \in execs : Load(e)
    BY <1>7
  <2>2. UNCHANGED <<row, tasks>> /\ e.phase = "claimed"
    BY <2>1, LoadTurns
  <2>3. PICK f : /\ execs' = (execs \ {e}) \cup {f} /\ f.key = e.key
                 /\ IF Runnable(e.key) THEN f.phase = "work" /\ f.seen = row
                                       ELSE f.phase = "ok"
    BY <2>1, LoadTurns
  <2>4. Waits(f) => Stayed(row') /\ OfCurrent(f.key, row')
                    /\ (f.phase = "work" => OfCurrent(f.key, f.seen))
    BY <1>2, <2>2, <2>3
  <2>5. \A k : (\E g \in execs : g.key = k /\ g.phase = "ok") =>
               \E g \in execs' : g.key = k /\ g.phase = "ok"
    BY <2>2, <2>3
  <2> QED
    BY <1>2, <1>3, <2>2, <2>3, <2>4, <2>5
<1>8. CASE \E e \in execs : Working(e)
  <2>1. PICK e \in execs : Working(e)
    BY <1>8
  <2>2. /\ Finishes(e, row') /\ (~Fresh(e.seen) => row' = row)
        /\ Fresh(e.seen) => e.seen = row /\ Grown(row', row)
        /\ e.phase = "work"
    BY <2>1, WorkGrows DEF Working, RunStarts, HandlerReturns, HandlerRaises
  <2>3. tasks' = IF Fresh(e.seen) THEN WithStepTask(tasks, row') ELSE tasks
    BY <2>2, FinishTurns
  <2>4. PICK f : /\ execs' = (execs \ {e}) \cup {f} /\ f.key = e.key
                 /\ f.phase = IF Fresh(e.seen) THEN "ok" ELSE "err"
    BY <2>2, FinishTurns
  <2>5. \A k : (\E g \in execs : g.key = k /\ g.phase = "ok") =>
               \E g \in execs' : g.key = k /\ g.phase = "ok"
    BY <2>2, <2>4
  <2>6. CASE ~Fresh(e.seen)
    <3>1. row' = row /\ tasks' = tasks /\ f.phase = "err"
      BY <2>2, <2>3, <2>4, <2>6
    <3>2. Waits(f) => Here(f.key)
      BY <1>2, <2>2, <2>4, <3>1
    <3> QED
      BY <1>2, <1>3, <2>4, <2>5, <3>1, <3>2
  <2>7. CASE Fresh(e.seen) /\ e.key[1] = "step"
    <3>1. TasksGrow /\ f.phase = "ok"
      BY <2>2, <2>3, <2>4, <2>7, StepTaskAdded DEF Fresh
    <3>2. ASSUME NEW g \in execs, g # e PROVE ~Waits(g)
      <4>1. Waits(e) /\ OfCurrent(e.key, row)
        BY <1>2, <2>2, <2>7
      <4>2. Waits(g) => g.key = e.key
        BY <1>2, <3>2, <4>1, OfCurrentIsOne
      <4> QED
        BY <3>2, <4>2 DEF Known, OnePerKey
    <3>3. ASSUME NEW k \in DOMAIN tasks, k[1] = "step", tasks'[k] = tasks[k]
          PROVE  \/ tasks'[k].status \in {"succeeded", "failed"}
                 \/ \E g \in execs' : g.key = k /\ g.phase = "ok"
      <4>1. CASE Done(k)
        BY <2>5, <3>3, <4>1
      <4>2. CASE Here(k)
        <5>1. k = e.key
          BY <1>2, <2>2, <2>7, <4>2, OfCurrentIsOne
        <5> QED
          BY <2>4, <3>1, <5>1
      <4> QED
        BY <1>2, <3>3, <4>1, <4>2
    <3> QED
      BY <1>3, <1>4, <2>4, <3>1, <3>2, <3>3
  <2>8. CASE Fresh(e.seen) /\ e.key[1] # "step"
    <3>1. TasksGrow
      BY <2>2, <2>3, <2>8, StepTaskAdded DEF Fresh
    <3>2. ~Stayed(row)
      <4>1. row.status \in {"draft", "resource_queue"}
        BY <2>2, <2>8 DEF IInv, ExecutionsRunnable
      <4> QED
        BY <4>1 DEF Stayed
    <3> QED
      BY <1>2, <1>3, <1>4, <2>4, <2>5, <2>8, <3>1, <3>2
  <2> QED
    BY <2>6, <2>7, <2>8
<1>9. CASE \E e \in execs : Settle(e)
  <2>1. PICK e \in execs : Settle(e)
    BY <1>9
  <2>2. /\ row' = row /\ execs' = execs \ {e} /\ e.phase \in {"ok", "err"}
        /\ DOMAIN tasks' = DOMAIN tasks
        /\ \A k \in DOMAIN tasks : k # e.key => tasks'[k] = tasks[k]
    BY <2>1 DEF Settle
  <2>3. e.key \in DOMAIN tasks /\ e.phase = "ok" => tasks'[e.key].status = "succeeded"
    BY <2>1 DEF Settle, Settled, IInv, TypeOK
  <2>4. ASSUME e.phase = "err", e.key[1] = "step" PROVE Here(e.key)
    BY <1>2, <2>4
  <2>5. ASSUME NEW k \in DOMAIN tasks, k[1] = "step", k # e.key
        PROVE  \/ tasks'[k].status \in {"succeeded", "failed"}
               \/ \E g \in execs' : g.key = k /\ g.phase = "ok"
               \/ Here(k)
    BY <1>2, <2>2, <2>5
  <2> QED
    BY <1>2, <1>3, <2>2, <2>3, <2>4, <2>5
<1>10. CASE \E q \in reqs : Purged(q)
  <2>1. PICK q \in reqs : Purged(q)
    BY <1>10
  <2>2. /\ row' = [row EXCEPT !.status = "deleted"] /\ execs' = execs /\ DOMAIN tasks' = {}
        /\ row'.status = "deleted"
    BY <1>0, <2>1 DEF Purged, Rows
  <2>3. Stayed(row') /\ \A k : OfCurrent(k, row) => OfCurrent(k, row')
    BY <1>0, <2>2, OfCurrentStays DEF Stayed
  <2> QED
    BY <1>2, <1>3, <2>2, <2>3
<1>11. CASE Stop
  <2>1. row' = row /\ execs' = {} /\ DOMAIN tasks' = DOMAIN tasks
    BY <1>11 DEF Stop
  <2>2. ASSUME NEW k \in DOMAIN tasks, k[1] = "step", ~Here(k)
        PROVE  tasks'[k].status \in {"succeeded", "failed"}
    <3>1. CASE \E e \in execs : e.key = k /\ e.phase = "ok"
      <4>1. ~\E e \in execs : e.key = k /\ e.phase = "err"
        BY <3>1 DEF Known, OnePerKey
      <4>2. tasks'[k] = Settled(tasks[k], "ok")
        BY <1>11, <2>2, <3>1, <4>1 DEF Stop
      <4> QED
        BY <2>2, <4>2 DEF Settled, IInv, TypeOK
    <3>2. CASE tasks[k].status \in {"succeeded", "failed"}
      <4>1. ~\E e \in execs : e.key = k
        BY <2>2, <3>2 DEF Known, ExecutionsKnown, Gone
      <4> QED
        BY <1>11, <2>2, <3>2, <4>1 DEF Stop
    <3> QED
      BY <1>2, <2>2, <3>1, <3>2
  <2> QED
    BY <1>3, <2>1, <2>2
<1> QED
  BY <1>1, <1>5, <1>6, <1>7, <1>8, <1>9, <1>10, <1>11, StepKinds

LEMMA Tasked == Spec => [](IInv /\ OInv /\ TInv)
<1>1. Init => TInv
  <2> SUFFICES ASSUME Init PROVE TInv
    OBVIOUS
  <2>1. row.status = "draft" /\ DOMAIN tasks = {} /\ execs = {}
    BY DraftType DEF Init
  <2> QED
    BY <2>1 DEF TInv, Known, Gone, ExecutionsKnown, OnePerKey, CarriedOn, OnlyCurrent
<1>2. IInv /\ OInv /\ TInv /\ [Next]_vars => TInv'
  <2> SUFFICES ASSUME IInv, OInv, TInv, [Next]_vars
               PROVE  TInv'
    OBVIOUS
  <2>1. IInv'
    BY StepKeeps
  <2> QED
    BY <2>1, KnownKept, CarriedKept, OnlyKept DEF TInv
<1> QED
  BY <1>1, <1>2, Ordered, PTL DEF Spec

-----------------------------------------------------------------------------
(* The tables of moves *)

LEMMA ReachJoin ==
  ASSUME NEW table, NEW a, NEW b, NEW c, NEW m \in Nat, NEW n \in Nat,
         Reach(table, a, b, m), Reach(table, b, c, n)
  PROVE  Reach(table, a, c, m + n)
<1>1. PICK p \in [0..m -> DOMAIN table] :
        p[0] = a /\ p[m] = b /\ \A k \in 1..m : p[k] \in table[p[k - 1]]
  BY DEF Reach
<1>2. PICK q \in [0..n -> DOMAIN table] :
        q[0] = b /\ q[n] = c /\ \A k \in 1..n : q[k] \in table[q[k - 1]]
  BY DEF Reach
<1> DEFINE path == [k \in 0..(m + n) |-> IF k <= m THEN p[k] ELSE q[k - m]]
<1>3. path \in [0..(m + n) -> DOMAIN table]
  BY <1>1, <1>2
<1>4. path[0] = a
  BY <1>1
<1>5. path[m + n] = c
  BY <1>1, <1>2
<1>6. ASSUME NEW k \in 1..(m + n) PROVE path[k] \in table[path[k - 1]]
  <2>1. CASE k <= m
    BY <1>1, <2>1
  <2>2. CASE k = m + 1
    <3>1. path[k] = q[1] /\ path[k - 1] = q[0] /\ 1 \in 1..n
      BY <1>1, <1>2, <1>6, <2>2
    <3>2. q[1] \in table[q[1 - 1]]
      BY <1>2, <3>1
    <3> QED
      BY <3>1, <3>2
  <2>3. CASE k > m + 1
    <3>1. /\ path[k] = q[k - m] /\ path[k - 1] = q[(k - m) - 1]
          /\ k - m \in 1..n
      BY <1>6, <2>3
    <3> QED
      BY <1>2, <3>1
  <2> QED
    BY <1>6, <2>1, <2>2, <2>3
<1> HIDE DEF path
<1> QED
  BY <1>3, <1>4, <1>5, <1>6 DEF Reach

LEMMA ReachShort ==
  ASSUME NEW table, NEW a \in DOMAIN table, NEW b \in DOMAIN table
  PROVE  /\ a = b => Reach(table, a, b, 0)
         /\ b \in table[a] => Reach(table, a, b, 1)
<1>1. ASSUME a = b PROVE Reach(table, a, b, 0)
  <2> DEFINE path == [k \in 0..0 |-> a]
  <2>1. /\ path \in [0..0 -> DOMAIN table] /\ path[0] = a /\ path[0] = b
        /\ \A k \in 1..0 : path[k] \in table[path[k - 1]]
    BY <1>1
  <2> HIDE DEF path
  <2> QED
    BY <2>1 DEF Reach
<1>2. ASSUME b \in table[a] PROVE Reach(table, a, b, 1)
  <2> DEFINE path == [k \in 0..1 |-> IF k = 0 THEN a ELSE b]
  <2>1. path \in [0..1 -> DOMAIN table] /\ path[0] = a /\ path[1] = b
    OBVIOUS
  <2>2. \A k \in 1..1 : path[k] \in table[path[k - 1]]
    <3>1. path[1] \in table[path[1 - 1]]
      BY <1>2, <2>1
    <3> QED
      BY <3>1
  <2> HIDE DEF path
  <2> QED
    BY <2>1, <2>2 DEF Reach
<1> QED
  BY <1>1, <1>2

\* q follows r by moves of the run table, one for each version between them.
LegalRun(q, r) ==
  /\ q.status \in RunStatuses /\ r.status \in RunStatuses
  /\ q.version \in Nat /\ r.version \in Nat /\ q.version >= r.version
  /\ Reach(RunTransitions, r.status, q.status, q.version - r.version)

\* Every step of q is where it was in r, or one move of the step table further.
LegalSteps(q, r) ==
  \A i \in StepIds : \/ q.steps[i].status = r.steps[i].status
                     \/ q.steps[i].status \in StepTransitions[r.steps[i].status]

Legal(q, r) == LegalRun(q, r) /\ LegalSteps(q, r)

LEMMA RunTable ==
  /\ DOMAIN RunTransitions = RunStatuses
  /\ "resource_queue" \in RunTransitions["draft"]
  /\ {"awaiting_step_start", "completed"} \subseteq RunTransitions["resource_queue"]
  /\ {"completed", "paused"} \subseteq RunTransitions["awaiting_review"]
  /\ {"awaiting_review", "running", "awaiting_step_completion"}
       \subseteq RunTransitions["awaiting_step_start"]
  /\ {"awaiting_step_completion", "awaiting_step_retry", "execution_failed"}
       \subseteq RunTransitions["running"]
  /\ {"awaiting_review", "awaiting_step_start", "running", "awaiting_step_retry", "completed"}
       \subseteq RunTransitions["awaiting_step_completion"]
  /\ "running" \in RunTransitions["awaiting_step_retry"]
BY DEF RunTransitions, RunStatuses, TerminalRunStatuses, PausableRunStatuses

LEMMA RunTableEnds ==
  /\ \A s \in RunStatuses \ TerminalRunStatuses :
       {"cancelled", "timed_out"} \subseteq RunTransitions[s]
  /\ \A s \in PausableRunStatuses :
       "paused" \in RunTransitions[s] /\ s \in RunTransitions["paused"]
BY DEF RunTransitions, RunStatuses, TerminalRunStatuses, PausableRunStatuses

LEMMA StepTable ==
  /\ DOMAIN StepTransitions = StepStatuses
  /\ {"running", "waiting", "cancelled"} \subseteq StepTransitions["pending"]
  /\ {"waiting", "succeeded", "failed", "cancelled"} \subseteq StepTransitions["running"]
  /\ {"running", "succeeded", "failed", "cancelled"} \subseteq StepTransitions["waiting"]
  /\ {"running", "cancelled"} \subseteq StepTransitions["failed"]
BY DEF StepTransitions, StepStatuses

LEMMA LegalRunJoin ==
  ASSUME NEW p, NEW q, NEW r, LegalRun(p, q), LegalRun(q, r)
  PROVE  LegalRun(p, r)
<1>1. /\ p.version - q.version \in Nat /\ q.version - r.version \in Nat
      /\ (q.version - r.version) + (p.version - q.version) = p.version - r.version
      /\ p.version \in Nat /\ r.version \in Nat /\ p.version >= r.version
  BY DEF LegalRun
<1>2. Reach(RunTransitions, r.status, p.status,
            (q.version - r.version) + (p.version - q.version))
  BY <1>1, ReachJoin DEF LegalRun
<1> QED
  BY <1>1, <1>2 DEF LegalRun

\* A run with the status and version of r has moved as r has.
LEMMA LegalRunOf ==
  ASSUME NEW r \in Rows, r.status \in RunStatuses, NEW p \in Rows,
         p.status = r.status, p.version = r.version
  PROVE  LegalRun(p, r)
<1>1. Reach(RunTransitions, r.status, p.status, 0)
  BY ReachShort, RunTable
<1>2. r.version \in Nat /\ p.version - r.version = 0
  BY DEF Rows
<1> QED
  BY <1>1, <1>2 DEF LegalRun

LEMMA MoveToLegal ==
  ASSUME NEW r \in Rows, r.status \in RunStatuses, NEW t \in RunStatuses,
         t = r.status \/ t \in RunTransitions[r.status]
  PROVE  LegalRun(MoveTo(r, t), r)
<1>1. CASE t = r.status
  BY <1>1, MoveToFacts, LegalRunOf
<1>2. CASE t # r.status
  <2>1. MoveTo(r, t).version = r.version + 1 /\ MoveTo(r, t).status = t
    BY <1>2, MoveToFacts
  <2>2. r.version \in Nat /\ (r.version + 1) - r.version = 1
    BY DEF Rows
  <2>3. Reach(RunTransitions, r.status, t, 1)
    BY <1>2, ReachShort, RunTable
  <2> QED
    BY <2>1, <2>2, <2>3 DEF LegalRun
<1> QED
  BY <1>1, <1>2

\* A move from a changed copy of r, with or without the release of its locks.
LEMMA MovedLegal ==
  ASSUME NEW r \in Rows, r.status \in RunStatuses, NEW p \in Rows,
         p.status = r.status, p.version = r.version, LegalSteps(p, r),
         NEW t \in RunStatuses, t = r.status \/ t \in RunTransitions[r.status]
  PROVE  Legal(MoveTo(p, t), r) /\ Legal(Release(MoveTo(p, t)), r)
<1>1. LegalRun(p, r) /\ LegalRun(MoveTo(p, t), p)
  BY LegalRunOf, MoveToLegal
<1>2. MoveTo(p, t) \in Rows /\ MoveTo(p, t).steps = p.steps /\ LegalRun(MoveTo(p, t), r)
  BY <1>1, LegalRunJoin, MoveToFacts
<1>3. LegalRun(Release(MoveTo(p, t)), MoveTo(p, t))
  BY <1>2, LegalRunOf, ReleaseFacts DEF LegalRun
<1>4. Release(MoveTo(p, t)).steps = p.steps
  BY <1>2, ReleaseFacts
<1> QED
  BY <1>2, <1>3, <1>4, LegalRunJoin DEF Legal, LegalSteps

\* All there is to know of a step that was set.
LEMMA SetStepLegal ==
  ASSUME NEW r \in Rows, NEW i \in StepIds, NEW t \in StepStatuses,
         t \in StepTransitions[r.steps[i].status]
  PROVE  LET p == SetStep(r, i, t)
         IN /\ p \in Rows /\ p.status = r.status /\ p.version = r.version
            /\ p.locked = r.locked
            /\ Changed(p, r, i, t) /\ p.steps[i].begun = r.steps[i].begun
            /\ LegalSteps(p, r)
<1> DEFINE p == SetStep(r, i, t)
<1>1. p \in Rows /\ p.status = r.status /\ p.version = r.version
  BY SetStepFacts
<1>2. Changed(p, r, i, t) /\ p.steps[i].begun = r.steps[i].begun /\ p.locked = r.locked
  BY SetStepChanges
<1> HIDE DEF p
<1>3. LegalSteps(p, r)
  BY <1>2 DEF Changed, LegalSteps
<1> QED
  BY <1>1, <1>2, <1>3 DEF p

LEMMA BeginLegal ==
  ASSUME NEW r \in Rows, r.status \in RunStatuses, "running" \in RunTransitions[r.status],
         NEW i \in StepIds, r.steps[i].status \in {"pending", "waiting", "failed"}
  PROVE  /\ Legal(Begin(r, i), r)
         /\ Begin(r, i).steps[i].status = "running"
         /\ \A j \in StepIds \ {i} : Begin(r, i).steps[j] = r.steps[j]
<1> DEFINE b == [r EXCEPT !.steps[i] = [status |-> "running", begun |-> @.begun + 1]]
<1>1. b.steps = [r.steps EXCEPT ![i] = [status |-> "running", begun |-> @.begun + 1]]
  BY DEF Rows
<1>2. /\ b.steps[i].status = "running" /\ \A j \in StepIds \ {i} : b.steps[j] = r.steps[j]
      /\ b.steps \in [StepIds -> [status : StepStatuses, begun : Nat]]
  BY <1>1 DEF Rows, StepStatuses
<1>3. b \in Rows /\ b.status = r.status /\ b.version = r.version
  BY <1>2 DEF Rows
<1>4. Begin(r, i) = MoveTo(b, "running")
  BY DEF Begin
<1> HIDE DEF b
<1>5. LegalSteps(b, r)
  BY <1>2, StepTable DEF LegalSteps
<1>6. MoveTo(b, "running").steps = b.steps
  BY <1>3, MoveToFacts, NamedStatuses
<1> QED
  BY <1>2, <1>3, <1>4, <1>5, <1>6, MovedLegal, NamedStatuses

\* The next step is only touched when it is the current one, and then it was pending.
LEMMA AdvanceLegal ==
  ASSUME NEW r \in Rows, Rested(r),
         r.status \in {"awaiting_step_start", "awaiting_step_completion"},
         r.status = "awaiting_step_start" => ~AllSucceeded(r)
  PROVE  /\ LegalRun(Advance(r), r)
         /\ \A j \in StepIds :
              \/ Advance(r).steps[j].status = r.steps[j].status
              \/ /\ r.steps[j].status = "pending"
                 /\ Advance(r).steps[j].status \in {"waiting", "running"}
<1> USE NamedStatuses
<1>0. LegalSteps(r, r)
  BY DEF LegalSteps
<1>1. CASE AllSucceeded(r)
  <2>1. PICK t \in {"awaiting_review", "completed"} : Advance(r) = Release(MoveTo(r, t))
    BY <1>1 DEF Advance
  <2>2. Legal(Release(MoveTo(r, t)), r)
    BY <1>0, <1>1, <2>1, MovedLegal, RunTable
  <2>3. MoveTo(r, t) \in Rows /\ MoveTo(r, t).steps = r.steps
    BY <2>1, MoveToFacts, ZenonT(60)
  <2> QED
    BY <2>1, <2>2, <2>3, ReleaseFacts DEF Legal
<1>2. CASE ~AllSucceeded(r)
  <2> DEFINE i == Current(r)
             q == MoveTo(r, "awaiting_step_start")
             p == SetStep(r, i, "waiting")
  <2>1. i \in StepIds /\ r.steps[i].status = "pending"
    BY <1>2, CurrentFacts DEF Rested, IsCurrent
  <2>2. /\ q \in Rows /\ q.status = "awaiting_step_start" /\ q.steps = r.steps
        /\ LegalRun(q, r)
    BY MoveToFacts, MoveToLegal, RunTable
  <2> HIDE DEF i, q
  <2>3. /\ p \in Rows /\ p.status = r.status /\ p.version = r.version
        /\ LegalSteps(p, r) /\ Changed(p, r, i, "waiting")
    BY <2>1, SetStepLegal, StepTable DEF StepStatuses
  <2> DEFINE x == SetStep(q, i, "waiting")
  <2>4. /\ x \in Rows /\ x.status = q.status /\ x.version = q.version
        /\ LegalSteps(x, q) /\ Changed(x, q, i, "waiting")
    BY <2>1, <2>2, SetStepLegal, StepTable DEF StepStatuses
  <2> HIDE DEF p, x
  <2>5. CASE Nodes[i] = "report_generation"
    <3>1. Advance(r) = Release(MoveTo(p, "awaiting_review"))
      BY <1>2, <2>1, <2>5 DEF Advance, i, p
    <3>2. MoveTo(p, "awaiting_review") \in Rows /\ MoveTo(p, "awaiting_review").steps = p.steps
      BY <2>3, MoveToFacts
    <3>3. Advance(r).steps = p.steps /\ Legal(Advance(r), r)
      BY <2>3, <3>1, <3>2, ReleaseFacts, MovedLegal, RunTable
    <3> QED
      BY <2>1, <2>3, <3>3 DEF Legal, Changed
  <2>6. CASE Nodes[i] = "wiring_confirmation"
    <3>1. Advance(r) = MoveTo(x, "awaiting_step_completion")
      BY <1>2, <2>6 DEF Advance, i, q, x
    <3>2. Advance(r).steps = x.steps
      <4>1. x \in Rows /\ "awaiting_step_completion" \in RunStatuses
        BY <2>4
      <4>2. MoveTo(x, "awaiting_step_completion").steps = x.steps
        BY <4>1, MoveToFacts
      <4> QED
        BY <3>1, <4>2
    <3>3. Legal(MoveTo(x, "awaiting_step_completion"), q)
      BY <2>2, <2>4, MovedLegal, RunTable
    <3>4. LegalRun(Advance(r), r)
      BY <2>2, <3>1, <3>3, LegalRunJoin DEF Legal
    <3> QED
      BY <2>1, <2>2, <2>4, <3>2, <3>4 DEF Changed
  <2>7. CASE Nodes[i] = "capture"
    <3>1. Advance(r) = Begin(q, i)
      BY <1>2, <2>7 DEF Advance, i, q
    <3>2. /\ LegalRun(Begin(q, i), q) /\ Begin(q, i).steps[i].status = "running"
          /\ \A j \in StepIds \ {i} : Begin(q, i).steps[j] = q.steps[j]
      BY <2>1, <2>2, BeginLegal, RunTable DEF Legal
    <3> QED
      BY <2>1, <2>2, <3>1, <3>2, LegalRunJoin
  <2>8. CASE Nodes[i] \notin {"report_generation", "wiring_confirmation", "capture"}
    <3>1. Advance(r) = q
      BY <1>2, <2>8 DEF Advance, i, q
    <3> QED
      BY <2>2, <3>1
  <2> QED
    BY <2>5, <2>6, <2>7, <2>8
<1> QED
  BY <1>1, <1>2

LEMMA CompleteLegal ==
  ASSUME NEW r \in Rows, ShapedAs(r, "awaiting_step_completion"),
         NEW i \in StepIds, CanComplete(r, i)
  PROVE  /\ LegalRun(CompleteStep(r, i), r)
         /\ CompleteStep(r, i).steps[i].status = "succeeded"
         /\ \A j \in StepIds \ {i} :
              \/ CompleteStep(r, i).steps[j].status = r.steps[j].status
              \/ /\ r.steps[j].status = "pending"
                 /\ CompleteStep(r, i).steps[j].status \in {"waiting", "running"}
<1> DEFINE p == SetStep(r, i, "succeeded")
<1>0. IsCurrent(r, i) /\ r.status = "awaiting_step_completion"
  BY DEF CanComplete, CanBegin
<1>1. /\ Changed(p, r, i, "succeeded") /\ p.steps[i].begun = r.steps[i].begun
      /\ p.locked = r.locked /\ p \in Rows /\ p.status = r.status /\ p.version = r.version
  BY SetStepChanges, SetStepFacts DEF StepStatuses
<1> HIDE DEF p
<1>2. InOrder(p)
  BY <1>0, <1>1, CurrentChanged DEF ShapedAs, StepStatuses
<1>3. \A j \in StepIds \ {i} : r.steps[j].status \in {"succeeded", "pending"}
  BY <1>0, CurrentOf, CurrentIs, ActiveStatuses
<1>4. Rested(p)
  BY <1>1, <1>2, <1>3, ActiveStatuses DEF Rested, Changed, Counted, ShapedAs
<1>5. /\ LegalRun(Advance(p), p)
      /\ \A j \in StepIds :
           \/ Advance(p).steps[j].status = p.steps[j].status
           \/ /\ p.steps[j].status = "pending"
              /\ Advance(p).steps[j].status \in {"waiting", "running"}
  BY <1>0, <1>1, <1>4, AdvanceLegal
<1>6. LegalRun(p, r)
  BY <1>0, <1>1, LegalRunOf, NamedStatuses
<1> QED
  BY <1>1, <1>5, <1>6, LegalRunJoin DEF CompleteStep, p, Changed

LEMMA CompletedLegal ==
  ASSUME NEW r \in Rows, ShapedAs(r, "awaiting_step_completion"),
         NEW i \in StepIds, CanComplete(r, i)
  PROVE  Legal(CompleteStep(r, i), r)
<1>1. r.steps[i].status = "waiting"
  BY DEF CanComplete, CanBegin
<1> QED
  BY <1>1, CompleteLegal, StepTable DEF Legal, LegalSteps

\* A run that starts its work was queued: from draft there is no move to the first step.
LEMMA StartWorkflowLegal ==
  ASSUME NEW r \in Rows, r.status = "resource_queue", Shape(r), NEW acquired \in BOOLEAN
  PROVE  Legal(StartWorkflow(r, acquired), r)
<1> USE NamedStatuses
<1>1. /\ InOrder(r) /\ Counted(r) /\ LegalSteps(r, r)
      /\ \A i \in StepIds : r.steps[i].status = "pending"
  BY DEF Shape, ShapedAs, Effective, LegalSteps
<1>2. CASE ~acquired
  <2>1. StartWorkflow(r, acquired) = MoveTo(r, "resource_queue")
    BY <1>2 DEF StartWorkflow
  <2> QED
    BY <1>1, <2>1, MovedLegal, RunTable
<1>3. CASE acquired /\ Nodes = << >>
  <2>1. StartWorkflow(r, acquired) = Release(MoveTo(r, "completed"))
    BY <1>3 DEF StartWorkflow
  <2> QED
    BY <1>1, <2>1, MovedLegal, RunTable
<1>4. CASE acquired /\ Nodes # << >>
  <2> DEFINE p == [r EXCEPT !.locked = TRUE]
             q == MoveTo(p, "awaiting_step_start")
  <2>1. p \in Rows /\ p.steps = r.steps /\ p.locked /\ p.status = r.status
        /\ p.version = r.version
    BY DEF Rows
  <2> HIDE DEF p
  <2>2. LegalSteps(p, r)
    BY <2>1 DEF LegalSteps
  <2>3a. Legal(q, r)
    BY <2>1, <2>2, MovedLegal, RunTable
  <2>3. Legal(q, r) /\ q \in Rows /\ q.steps = r.steps /\ q.locked
        /\ q.status = "awaiting_step_start"
    BY <2>1, <2>3a, MoveToFacts, MoveToShape
  <2>4. StartWorkflow(r, acquired) = Advance(q)
    BY <1>4 DEF StartWorkflow, p, q
  <2> HIDE DEF q
  <2>5. Rested(q)
    BY <1>1, <2>3 DEF Rested, InOrder, Counted
  <2>6. ~AllSucceeded(q)
    <3>1. Len(Nodes) \in Nat /\ Len(Nodes) # 0
      BY <1>4, NodesAssumption
    <3>2. 1 \in StepIds
      BY <3>1 DEF StepIds
    <3> QED
      BY <1>1, <2>3, <3>2 DEF AllSucceeded
  <2>7. /\ LegalRun(Advance(q), q)
        /\ \A j \in StepIds : Advance(q).steps[j].status \in {"pending", "waiting", "running"}
    BY <1>1, <2>3, <2>5, <2>6, AdvanceLegal
  <2> QED
    BY <1>1, <2>3, <2>4, <2>7, LegalRunJoin, StepTable DEF Legal, LegalSteps
<1> QED
  BY <1>2, <1>3, <1>4

LEMMA RunningStep ==
  ASSUME NEW r \in Rows, r.status = "running", Shape(r), NEW i \in StepIds,
         r.steps[i].begun > 0, r.steps[i].status # "succeeded"
  PROVE  /\ IsCurrent(r, i) /\ r.steps[i].status = "running"
         /\ \A j \in StepIds \ {i} : r.steps[j].status \in {"succeeded", "pending"}
<1>0. ShapedAs(r, "running") /\ InOrder(r) /\ Counted(r)
  BY DEF Shape, ShapedAs, Effective
<1>1. r.steps[i].status \in Touched \ {"succeeded"}
  BY <1>0, StepTypes, ActiveStatuses DEF ShapedAs, Counted, Touched, StepStatuses
<1>2. IsCurrent(r, i)
  BY <1>0, <1>1, TouchedIsCurrent
<1> QED
  BY <1>0, <1>2, CurrentOf, CurrentIs, ActiveStatuses

LEMMA StepDoneLegal ==
  ASSUME NEW r \in Rows, r.status = "running", Shape(r), NEW i \in StepIds,
         r.steps[i].begun > 0, r.steps[i].status # "succeeded"
  PROVE  Legal(StepDone(r, i), r)
<1> USE NamedStatuses
<1> DEFINE p == SetStep(r, i, "waiting")
           q == MoveTo(p, "awaiting_step_completion")
<1>1. /\ IsCurrent(r, i) /\ r.steps[i].status = "running"
      /\ \A j \in StepIds \ {i} : r.steps[j].status \in {"succeeded", "pending"}
  BY RunningStep
<1>2. /\ Changed(p, r, i, "waiting") /\ p.locked = r.locked /\ LegalSteps(p, r)
      /\ p.steps[i].begun = r.steps[i].begun
      /\ p \in Rows /\ p.status = r.status /\ p.version = r.version
  BY <1>1, SetStepLegal, StepTable DEF StepStatuses
<1> HIDE DEF p
<1>2a. Legal(q, r)
  BY <1>2, MovedLegal, RunTable
<1>3. /\ q \in Rows /\ q.steps = p.steps /\ q.locked = p.locked
      /\ q.status = "awaiting_step_completion" /\ Legal(q, r)
  BY <1>2, <1>2a, MoveToFacts, MoveToShape
<1> HIDE DEF q
<1>4. CASE Nodes[i] = "capture"
  <2>1. StepDone(r, i) = CompleteStep(q, i)
    BY <1>4 DEF StepDone, p, q
  <2>2. InOrder(p) /\ IsCurrent(p, i)
    BY <1>1, <1>2, CurrentChanged DEF Shape, ShapedAs, StepStatuses
  <2>3. InOrder(q) /\ CanComplete(q, i)
    BY <1>2, <1>3, <2>2 DEF CanComplete, CanBegin, InOrder, IsCurrent, Changed
  <2>4. ShapedAs(q, "awaiting_step_completion")
    <3>1. Counted(r) /\ r.locked
      BY ActiveStatuses DEF Shape, ShapedAs, Effective
    <3> QED
      BY <1>1, <1>2, <1>3, <2>3, <3>1, ActiveStatuses
         DEF ShapedAs, Counted, Changed, CanComplete, CanBegin
  <2>5. /\ LegalRun(CompleteStep(q, i), q) /\ CompleteStep(q, i).steps[i].status = "succeeded"
        /\ \A j \in StepIds \ {i} :
             \/ CompleteStep(q, i).steps[j].status = q.steps[j].status
             \/ /\ q.steps[j].status = "pending"
                /\ CompleteStep(q, i).steps[j].status \in {"waiting", "running"}
    BY <1>3, <2>3, <2>4, CompleteLegal
  <2>6. LegalSteps(CompleteStep(q, i), r)
    <3> SUFFICES ASSUME NEW j \in StepIds
                 PROVE  \/ CompleteStep(q, i).steps[j].status = r.steps[j].status
                        \/ CompleteStep(q, i).steps[j].status \in StepTransitions[r.steps[j].status]
      BY DEF LegalSteps
    <3>1. CASE j = i
      BY <1>1, <2>5, <3>1, StepTable
    <3>2. CASE j # i
      <4>1. q.steps[j] = r.steps[j]
        BY <1>2, <1>3, <3>2 DEF Changed
      <4> QED
        BY <2>5, <3>2, <4>1, StepTable
    <3> QED
      BY <3>1, <3>2
  <2> QED
    BY <1>3, <2>1, <2>5, <2>6, LegalRunJoin DEF Legal
<1>5. CASE Nodes[i] # "capture"
  BY <1>3, <1>5 DEF StepDone, p, q
<1> QED
  BY <1>4, <1>5

LEMMA StepFailedLegal ==
  ASSUME NEW r \in Rows, r.status = "running"
  PROVE  Legal(StepFailed(r), r)
<1> USE NamedStatuses
<1>1. CASE \E i \in StepIds : r.steps[i].status = "running"
  <2> DEFINE First(i) == /\ r.steps[i].status = "running"
                         /\ \A j \in 1..(i - 1) : r.steps[j].status # "running"
  <2>1. \E i \in StepIds : First(i)
    <3> DEFINE S == {i \in StepIds : r.steps[i].status = "running"}
    <3>1. S \subseteq Nat /\ S # {}
      BY <1>1, Prefix
    <3>2. PICK i \in S : \A j \in S : ~(<<j, i>> \in OpToRel(<, Nat))
      BY <3>1, WFMin, NatLessThanWellFounded
    <3>3. \A j \in S : ~(j < i)
      BY <3>1, <3>2 DEF OpToRel
    <3>4. i \in StepIds /\ First(i)
      BY <3>3, Prefix
    <3> QED
      BY <3>4
  <2> DEFINE i == CHOOSE i \in StepIds : First(i)
  <2>2. i \in StepIds /\ r.steps[i].status = "running"
    BY <2>1
  <2>3. StepFailed(r) = MoveTo(SetStep(r, i, "failed"), "awaiting_step_retry")
    BY <1>1 DEF StepFailed
  <2> HIDE DEF i
  <2>4. /\ SetStep(r, i, "failed") \in Rows /\ LegalSteps(SetStep(r, i, "failed"), r)
        /\ SetStep(r, i, "failed").status = r.status
        /\ SetStep(r, i, "failed").version = r.version
    BY <2>2, SetStepLegal, StepTable DEF StepStatuses
  <2> QED
    BY <2>3, <2>4, MovedLegal, RunTable
<1>2. CASE ~\E i \in StepIds : r.steps[i].status = "running"
  <2>1. StepFailed(r) = Release(MoveTo(r, "execution_failed"))
    BY <1>2 DEF StepFailed
  <2> QED
    BY <2>1, MovedLegal, RunTable DEF LegalSteps
<1> QED
  BY <1>1, <1>2

LEMMA CancelStepsLegal ==
  ASSUME NEW r \in Rows, NEW from \in SUBSET {"pending", "running", "waiting", "failed"}
  PROVE  LET p == CancelSteps(r, from)
         IN /\ p \in Rows /\ p.status = r.status /\ p.version = r.version
            /\ LegalSteps(p, r)
<1> DEFINE p == CancelSteps(r, from)
<1>1. p \in Rows /\ p.status = r.status /\ p.version = r.version
  BY CancelStepsFacts
<1>2. p.steps = [j \in StepIds |->
        IF r.steps[j].status \in from THEN [r.steps[j] EXCEPT !.status = "cancelled"]
                                      ELSE r.steps[j]]
  BY DEF CancelSteps, Rows
<1> HIDE DEF p
<1>3. LegalSteps(p, r)
  <2> SUFFICES ASSUME NEW i \in StepIds
               PROVE  \/ p.steps[i].status = r.steps[i].status
                      \/ p.steps[i].status \in StepTransitions[r.steps[i].status]
    BY DEF LegalSteps
  <2>1. r.steps[i] \in [status : StepStatuses, begun : Nat]
    BY DEF Rows
  <2>2. CASE r.steps[i].status \in from
    <3>1. p.steps[i].status = "cancelled"
      BY <1>2, <2>1, <2>2
    <3> QED
      BY <2>2, <3>1, StepTable
  <2>3. CASE r.steps[i].status \notin from
    BY <1>2, <2>3
  <2> QED
    BY <2>2, <2>3
<1> QED
  BY <1>1, <1>3 DEF p

LEMMA StopLegal ==
  ASSUME NEW r \in Rows, r.status \in RunStatuses \ TerminalRunStatuses
  PROVE  Legal(Cancel(r), r) /\ Legal(Expire(r), r)
<1>1. Legal(Cancel(r), r)
  <2> DEFINE p == CancelSteps(r, {"running", "waiting"})
  <2>1. p \in Rows /\ p.status = r.status /\ p.version = r.version /\ LegalSteps(p, r)
    BY CancelStepsLegal
  <2> HIDE DEF p
  <2>2. Legal(Release(MoveTo(p, "cancelled")), r)
    BY <2>1, MovedLegal, NamedStatuses, RunTableEnds
  <2> QED
    BY <2>2 DEF Cancel, p
<1>2. Legal(Expire(r), r)
  <2> DEFINE p == CancelSteps(r, {"pending", "running", "waiting", "failed"})
  <2>1. p \in Rows /\ p.status = r.status /\ p.version = r.version /\ LegalSteps(p, r)
    BY CancelStepsLegal
  <2> HIDE DEF p
  <2>2. Legal(Release(MoveTo(p, "timed_out")), r)
    BY <2>1, MovedLegal, NamedStatuses, RunTableEnds
  <2> QED
    BY <2>2 DEF Expire, p
<1> QED
  BY <1>1, <1>2

LEMMA PauseLegal ==
  ASSUME NEW r \in Rows, r.status \in PausableRunStatuses
  PROVE  Legal(Pause(r), r)
<1> DEFINE p == [r EXCEPT !.pausedFrom = r.status]
<1>1. p \in Rows /\ p.status = r.status /\ p.version = r.version /\ p.steps = r.steps
  BY DEF Rows
<1> HIDE DEF p
<1>2. LegalSteps(p, r) /\ r.status \in RunStatuses
  BY <1>1 DEF LegalSteps, RunStatuses
<1>3. Legal(MoveTo(p, "paused"), r)
  BY <1>1, <1>2, MovedLegal, NamedStatuses, RunTableEnds
<1> QED
  BY <1>3 DEF Pause, p

LEMMA ResumeLegal ==
  ASSUME NEW r \in Rows, r.status = "paused", WellPaused(r)
  PROVE  Legal(Resume(r), r)
<1> DEFINE p == [r EXCEPT !.pausedFrom = "none"]
<1>1. p \in Rows /\ p.status = r.status /\ p.version = r.version /\ p.steps = r.steps
  BY DEF Rows
<1> HIDE DEF p
<1>2. LegalSteps(p, r) /\ r.status \in RunStatuses
  BY <1>1, NamedStatuses DEF LegalSteps
<1>3. r.pausedFrom \in RunStatuses /\ r.pausedFrom \in RunTransitions["paused"]
  BY RunTableEnds DEF WellPaused, RunStatuses
<1>4. Legal(MoveTo(p, r.pausedFrom), r)
  BY <1>1, <1>2, <1>3, MovedLegal
<1> QED
  BY <1>4 DEF Resume, p

LEMMA VerdictLegal ==
  ASSUME NEW r \in Rows, r.status = "awaiting_review"
  PROVE  Legal(SubmitVerdict(r), r)
<1> DEFINE p == [r EXCEPT !.steps = [i \in StepIds |->
     IF Nodes[i] = "report_generation" /\ r.steps[i].status = "waiting"
     THEN [r.steps[i] EXCEPT !.status = "succeeded"] ELSE r.steps[i]]]
<1>1. p \in Rows /\ p.status = r.status /\ p.version = r.version
  BY DEF Rows, StepStatuses
<1>2. p.steps = [i \in StepIds |->
        IF Nodes[i] = "report_generation" /\ r.steps[i].status = "waiting"
        THEN [r.steps[i] EXCEPT !.status = "succeeded"] ELSE r.steps[i]]
  BY DEF Rows
<1>3. SubmitVerdict(r) = Release(MoveTo(p, "completed"))
  BY DEF SubmitVerdict
<1> HIDE DEF p
<1>4. LegalSteps(p, r)
  <2> SUFFICES ASSUME NEW i \in StepIds
               PROVE  \/ p.steps[i].status = r.steps[i].status
                      \/ p.steps[i].status \in StepTransitions[r.steps[i].status]
    BY DEF LegalSteps
  <2>1. r.steps[i] \in [status : StepStatuses, begun : Nat]
    BY DEF Rows
  <2>2. CASE Nodes[i] = "report_generation" /\ r.steps[i].status = "waiting"
    <3>1. p.steps[i].status = "succeeded"
      BY <1>2, <2>1, <2>2
    <3> QED
      BY <2>2, <3>1, StepTable
  <2>3. CASE ~(Nodes[i] = "report_generation" /\ r.steps[i].status = "waiting")
    BY <1>2, <2>3
  <2> QED
    BY <2>2, <2>3
<1>5. Legal(Release(MoveTo(p, "completed")), r)
  BY <1>1, <1>4, MovedLegal, NamedStatuses, RunTable
<1> QED
  BY <1>3, <1>5

\* A retry of a waiting step passes through failed; the table has the direct move too.
LEMMA RetryLegal ==
  ASSUME NEW r \in Rows, NEW i \in StepIds,
         \/ CanBegin(r, i, "awaiting_step_retry", "failed")
         \/ CanComplete(r, i)
  PROVE  Legal(RetryStep(r, i), r)
<1> USE NamedStatuses
<1>1. CASE CanBegin(r, i, "awaiting_step_retry", "failed")
  <2>1. /\ RetryStep(r, i) = Begin(r, i)
        /\ r.status = "awaiting_step_retry" /\ r.steps[i].status = "failed"
    BY <1>1 DEF RetryStep, CanBegin
  <2> QED
    BY <2>1, BeginLegal, RunTable
<1>2. CASE CanComplete(r, i)
  <2> DEFINE p == SetStep(r, i, "failed")
             q == MoveTo(p, "awaiting_step_retry")
  <2>0. r.status = "awaiting_step_completion" /\ r.steps[i].status = "waiting"
    BY <1>2 DEF CanComplete, CanBegin
  <2>1. RetryStep(r, i) = Begin(q, i)
    BY <2>0 DEF RetryStep
  <2>2. /\ p \in Rows /\ p.status = r.status /\ p.version = r.version
        /\ LegalSteps(p, r) /\ Changed(p, r, i, "failed")
    BY <2>0, SetStepLegal, StepTable DEF StepStatuses
  <2> HIDE DEF p
  <2>3. Legal(q, r)
    BY <2>0, <2>2, MovedLegal, RunTable
  <2>4. q \in Rows /\ q.status = "awaiting_step_retry" /\ q.steps = p.steps
    BY <2>2, MoveToFacts
  <2> HIDE DEF q
  <2>5. q.steps[i].status = "failed" /\ \A j \in StepIds \ {i} : q.steps[j] = r.steps[j]
    BY <2>2, <2>4 DEF Changed
  <2>6. /\ LegalRun(Begin(q, i), q) /\ Begin(q, i).steps[i].status = "running"
        /\ \A j \in StepIds \ {i} : Begin(q, i).steps[j] = q.steps[j]
    BY <2>4, <2>5, BeginLegal, RunTable DEF Legal
  <2>7. LegalRun(Begin(q, i), r)
    BY <2>3, <2>6, LegalRunJoin DEF Legal
  <2>8. LegalSteps(Begin(q, i), r)
    BY <2>0, <2>5, <2>6, StepTable DEF LegalSteps
  <2> QED
    BY <2>1, <2>7, <2>8 DEF Legal
<1> QED
  BY <1>1, <1>2

\* What a request saves on a fresh snapshot: its guard named the status it moves from.
LEMMA SavesLegal ==
  ASSUME IInv, OInv, NEW q \in reqs,
         \/ StepStarted(q) \/ StepRetried(q) \/ Reanalyzed(q) \/ StepCompleted(q)
         \/ RunCancelled(q) \/ RunExpired(q) \/ RunPaused(q) \/ VerdictSubmitted(q)
  PROVE  Legal(row', row)
<1>1. /\ q.seen = row /\ row \in Rows /\ Save(q, row') /\ Shape(row)
      /\ q.op # "purge" /\ Accepted(q.op, row, q.step)
      /\ q.step # 0 => q.step \in StepIds
  <2>1. Fresh(q.seen) /\ Save(q, row') /\ q.op # "purge"
    BY DEF StepStarted, StepRetried, Reanalyzed, StepCompleted, RunCancelled, RunExpired,
           RunPaused, VerdictSubmitted, Save
  <2> QED
    BY <2>1, FreshIsRow, PassedFacts DEF OInv
<1>2. CASE StepStarted(q) \/ Reanalyzed(q)
  <2>1. /\ q.step \in StepIds /\ row' = Begin(row, q.step)
        /\ \/ CanBegin(row, q.step, "awaiting_step_start", "pending")
           \/ CanBegin(row, q.step, "awaiting_step_completion", "waiting")
    BY <1>1, <1>2 DEF StepStarted, Reanalyzed, Accepted, CanComplete, Save
  <2>2. /\ row.status \in RunStatuses /\ "running" \in RunTransitions[row.status]
        /\ row.steps[q.step].status \in {"pending", "waiting", "failed"}
    BY <2>1, RunTable, NamedStatuses DEF CanBegin
  <2> QED
    BY <1>1, <2>1, <2>2, BeginLegal
<1>3. CASE StepRetried(q)
  <2>1. /\ q.step \in StepIds /\ row' = RetryStep(row, q.step)
        /\ \/ CanBegin(row, q.step, "awaiting_step_retry", "failed")
           \/ CanComplete(row, q.step)
    BY <1>1, <1>3 DEF StepRetried, Accepted, Save
  <2> QED
    BY <1>1, <2>1, RetryLegal
<1>4. CASE StepCompleted(q)
  <2>1. q.step \in StepIds /\ row' = CompleteStep(row, q.step) /\ CanComplete(row, q.step)
    BY <1>1, <1>4 DEF StepCompleted, Accepted, Save
  <2>2. ShapedAs(row, "awaiting_step_completion")
    BY <1>1, <2>1 DEF CanComplete, CanBegin, Shape, Effective
  <2> QED
    BY <1>1, <2>1, <2>2, CompletedLegal
<1>5. CASE RunCancelled(q) \/ RunExpired(q)
  <2>1. row.status \in RunStatuses \ TerminalRunStatuses
    BY <1>1, <1>5 DEF RunCancelled, RunExpired, Accepted
  <2> QED
    BY <1>1, <1>5, <2>1, StopLegal DEF RunCancelled, RunExpired, Save
<1>6. CASE RunPaused(q)
  <2>1. row.status \in PausableRunStatuses
    BY <1>1, <1>6 DEF RunPaused, Accepted
  <2> QED
    BY <1>1, <1>6, <2>1, PauseLegal DEF RunPaused, Save
<1>7. CASE VerdictSubmitted(q)
  <2>1. row.status = "awaiting_review"
    BY <1>1, <1>7 DEF VerdictSubmitted, Accepted
  <2> QED
    BY <1>1, <1>7, <2>1, VerdictLegal DEF VerdictSubmitted, Save
<1> QED
  BY <1>2, <1>3, <1>4, <1>5, <1>6, <1>7

\* What an execution writes: it never met a draft, which has no task.
LEMMA WorkLegal ==
  ASSUME IInv, OInv, NEW e \in execs,
         RunStarts(e) \/ HandlerReturns(e) \/ HandlerRaises(e), row' # row
  PROVE  Legal(row', row)
<1>1. Fresh(e.seen) /\ e.seen = row /\ row \in Rows /\ Shape(row) /\ e.phase = "work"
  <2>1. Fresh(e.seen)
    BY WorkGrows
  <2> QED
    BY <2>1, FreshIsRow DEF OInv, RunStarts, HandlerReturns, HandlerRaises
<1>2. CASE RunStarts(e)
  <2>1. PICK acquired \in BOOLEAN : Finishes(e, StartWorkflow(e.seen, acquired))
    BY <1>2 DEF RunStarts
  <2>2. row' = StartWorkflow(row, acquired)
    BY <1>1, <2>1 DEF Finishes
  <2>3. row.status \in {"draft", "resource_queue"}
    BY <1>1, <1>2 DEF RunStarts, IInv, ExecutionsRunnable, RunKinds
  <2>4. row.status = "resource_queue"
    BY <2>3 DEF OInv, DraftIdle
  <2> QED
    BY <1>1, <2>2, <2>4, StartWorkflowLegal
<1>3. CASE HandlerReturns(e) \/ HandlerRaises(e)
  <2> DEFINE i == e.key[2]
  <2>1. e.key[1] = "step" /\ row.status = "running"
    BY <1>1, <1>3 DEF HandlerReturns, HandlerRaises, IInv, ExecutionsRunnable, RunKinds
  <2>2. i \in StepIds /\ row.steps[i].begun > 0
    <3>1. e.key \in Keys
      BY DEF Keys
    <3>2. i \in StepIds /\ e.key[3] \in 1..row.steps[i].begun
      BY <2>1, <3>1 DEF OInv, KeysBegun
    <3> QED
      BY <1>1, <3>2, StepTypes
  <2>3. \/ row' = StepFailed(row)
        \/ row' = StepDone(row, i) /\ Allowed(StepTransitions, row.steps[i].status, "waiting")
    BY <1>1, <1>3 DEF HandlerReturns, HandlerRaises, Finishes
  <2>4. Allowed(StepTransitions, row.steps[i].status, "waiting")
          => row.steps[i].status # "succeeded"
    BY DEF Allowed, StepTransitions, StepStatuses
  <2> QED
    BY <1>1, <2>1, <2>2, <2>3, <2>4, StepDoneLegal, StepFailedLegal
<1> QED
  BY <1>2, <1>3

\* Every step that changes the run and does not remove it moves it by the tables.
LEMMA RowMovesLegally ==
  ASSUME IInv, OInv, Next, row' # row, row'.status # "deleted"
  PROVE  Legal(row', row)
<1>1. CASE Answer
  <2> PICK q \in reqs :
        \/ Conflict(q) \/ StartRequested(q) \/ StepStarted(q) \/ StepRetried(q)
        \/ Reanalyzed(q) \/ StepCompleted(q) \/ RunCancelled(q) \/ RunExpired(q)
        \/ RunPaused(q) \/ RunResumed(q) \/ VerdictSubmitted(q)
        \/ DeleteCancels(q) \/ Purged(q)
    BY <1>1 DEF Answer
  <2>1. ~Conflict(q)
    BY DEF Conflict
  <2>2. CASE StartRequested(q)
    <3>1. WritesRun(q) /\ Fresh(q.seen) /\ row' = MoveTo(q.seen, "resource_queue")
      BY <2>2 DEF StartRequested
    <3>2. q.seen = row /\ row \in Rows /\ row.status = "draft"
      BY <2>2, <3>1, FreshIsRow DEF StartRequested, WritesRun
    <3>3. LegalSteps(row, row)
      BY DEF LegalSteps
    <3>4. Legal(MoveTo(row, "resource_queue"), row)
      BY <3>2, <3>3, MovedLegal, RunTable, NamedStatuses
    <3> QED
      BY <3>1, <3>2, <3>4
  <2>3. CASE \/ StepStarted(q) \/ StepRetried(q) \/ Reanalyzed(q) \/ StepCompleted(q)
             \/ RunCancelled(q) \/ RunExpired(q) \/ RunPaused(q) \/ VerdictSubmitted(q)
    BY <2>3, SavesLegal
  <2>4. CASE RunResumed(q)
    <3>1. /\ row \in Rows /\ row.status = "paused" /\ WellPaused(row)
          /\ row' = Resume(row)
      BY <2>4, FreshIsRow, PassedFacts DEF RunResumed, Accepted
    <3> QED
      BY <3>1, ResumeLegal
  <2>5. CASE DeleteCancels(q)
    <3>1. /\ row \in Rows /\ row' = Cancel(row)
          /\ row.status \in RunStatuses \ TerminalRunStatuses
      BY <2>5, FreshIsRow DEF DeleteCancels, Rows
    <3> QED
      BY <3>1, StopLegal
  <2>6. ~Purged(q)
    BY DEF Purged, IInv, TypeOK, Rows
  <2> QED
    BY <2>1, <2>2, <2>3, <2>4, <2>5, <2>6
<1>2. CASE Execution
  <2>1. PICK e \in execs : RunStarts(e) \/ HandlerReturns(e) \/ HandlerRaises(e)
    BY <1>2 DEF Execution, Claim, Load, Settle
  <2> QED
    BY <2>1, WorkLegal
<1>3. ~(Arrival \/ Crash \/ Stop \/ Restart)
  BY DEF Arrival, Receive, Crash, Stop, Restart
<1> QED
  BY <1>1, <1>2, <1>3 DEF Next

LEMMA LegalIsReach ==
  ASSUME NEW q \in Rows, NEW r \in Rows, Legal(q, r)
  PROVE  /\ Reach(RunTransitions, r.status, q.status, q.version - r.version)
         /\ \A i \in StepIds : \E n \in 0..2 :
              Reach(StepTransitions, r.steps[i].status, q.steps[i].status, n)
<1>1. ASSUME NEW i \in StepIds
      PROVE  \E n \in 0..2 : Reach(StepTransitions, r.steps[i].status, q.steps[i].status, n)
  <2>1. /\ r.steps[i].status \in DOMAIN StepTransitions
        /\ q.steps[i].status \in DOMAIN StepTransitions
    BY StepTable, StepTypes
  <2>2. \/ q.steps[i].status = r.steps[i].status
        \/ q.steps[i].status \in StepTransitions[r.steps[i].status]
    BY DEF Legal, LegalSteps
  <2>3. \/ Reach(StepTransitions, r.steps[i].status, q.steps[i].status, 0)
        \/ Reach(StepTransitions, r.steps[i].status, q.steps[i].status, 1)
    BY <2>1, <2>2, ReachShort
  <2>4. 0 \in 0..2 /\ 1 \in 0..2
    OBVIOUS
  <2> QED
    BY <2>3, <2>4
<1> QED
  BY <1>1 DEF Legal, LegalRun

-----------------------------------------------------------------------------
(* Theorems *)

\* No interleaving of completions, retries, stale executions and stops skips a step or
\* has two steps touched at once: what precedes a touched step has succeeded.
THEOREM StepsKeepOrder == Spec => []StepsInOrder
<1>1. OInv => StepsInOrder
  BY DEF OInv, Shape, ShapedAs, InOrder, Touched, StepsInOrder
<1> QED
  BY <1>1, Ordered, PTL

\* The status of the run, or the one it was paused from, fits that of its current step.
THEOREM StatusFitsStep == Spec => []StatusMatchesStep
<1>1. OInv => StatusMatchesStep
  BY DEF OInv, Shape, ShapedAs, Active, StatusMatchesStep
<1> QED
  BY <1>1, Ordered, PTL

\* The resources of a run are held exactly while it has a step to work on: no path
\* ends, reviews or deletes a run with its locks, and none works without them.
THEOREM LocksFitStatus == Spec => []LocksFollowStatus
<1>1. OInv => LocksFollowStatus
  BY DEF OInv, Shape, ShapedAs, Active, LocksFollowStatus
<1> QED
  BY <1>1, Ordered, PTL

\* While no orderly stop and fewer crashes than a task has attempts hit the process, a
\* running run has a task that is being executed or can be claimed.
THEOREM CrashesStrandNoRun == Spec => []RunningIsCarriedThroughCrashes
<1>1. ASSUME IInv, TInv, stops = 0, crashes < MaxAttempts, row.status = "running"
      PROVE  /\ StepTaskOf(row) \in DOMAIN tasks
             /\ Executing(StepTaskOf(row)) \/ Claimable(StepTaskOf(row))
  <2> DEFINE key == StepTaskOf(row)
  <2>1. /\ key \in DOMAIN tasks /\ tasks[key].status \in {"queued", "running"}
        /\ ~Executing(key) => tasks[key].attempts <= crashes
    BY <1>1 DEF TInv, CarriedOn, StepTaskOf
  <2> HIDE DEF key
  <2>2. tasks[key].attempts \in Nat /\ crashes \in Nat
    BY <1>1, <2>1, BoundsAssumption DEF IInv, TypeOK
  <2>3. ~Executing(key) => tasks[key].attempts < MaxAttempts
    BY <1>1, <2>1, <2>2, BoundsAssumption
  <2>4. Executing(key) \/ Claimable(key)
    BY <2>1, <2>3 DEF Claimable
  <2> QED
    BY <2>1, <2>4 DEF key
<1>2. IInv /\ TInv => RunningIsCarriedThroughCrashes
  BY <1>1 DEF RunningIsCarriedThroughCrashes, RunningIsCarried
<1> QED
  BY <1>2, Tasked, PTL

\* Without a crash, at most one handler is at work, on the step and the begin of the step
\* that the run it saw has come to: no step is executed twice, and none out of turn.
THEOREM HandlersTakeTurns == Spec => []OneHandlerAtATime
<1>1. ASSUME TInv, crashes = 0, NEW e \in Handlers
      PROVE  /\ OfCurrent(e.key, row)
             /\ IsCurrent(e.seen, e.key[2]) /\ e.key = StepTask(e.seen, e.key[2])
  <2>1. OfCurrent(e.key, row) /\ OfCurrent(e.key, e.seen)
    BY <1>1 DEF Handlers, TInv, OnlyCurrent
  <2>2. PICK i \in StepIds : IsCurrent(e.seen, i) /\ e.key = StepTask(e.seen, i)
    BY <2>1 DEF OfCurrent
  <2>3. e.key[2] = i
    BY <2>2 DEF StepTask
  <2> QED
    BY <2>1, <2>2, <2>3
<1>2. ASSUME TInv, crashes = 0
      PROVE  Cardinality(Handlers) <= 1
  <2>1. ASSUME NEW e \in Handlers, NEW f \in Handlers PROVE e = f
    <3>1. e.key = f.key
      BY <1>1, <1>2, OfCurrentIsOne
    <3> QED
      BY <1>2, <3>1 DEF Handlers, TInv, Known, OnePerKey
  <2>2. CASE Handlers = {}
    BY <2>2, FS_EmptySet
  <2>3. CASE Handlers # {}
    <3>1. PICK e : e \in Handlers
      BY <2>3
    <3>2. Handlers = {e}
      BY <2>1, <3>1
    <3>3. Cardinality({e}) = 1
      BY FS_Singleton
    <3> QED
      BY <3>2, <3>3
  <2> QED
    BY <2>2, <2>3
<1>3. TInv => OneHandlerAtATime
  BY <1>1, <1>2 DEF OneHandlerAtATime
<1> QED
  BY <1>3, Tasked, PTL

\* Every transaction that is accepted goes through: the status the run had when a guard
\* was passed, or a task was claimed, allows every move its writer makes, and the version
\* counts them.  _transition_status and _transition_step never refuse half way.
THEOREM MovesAreLegal == Spec => OnlyLegalMoves
<1>1. IInv /\ OInv /\ [Next]_vars =>
        [row'.status # "deleted" =>
           /\ Reach(RunTransitions, row.status, row'.status, row'.version - row.version)
           /\ \A i \in StepIds : \E n \in 0..2 :
                Reach(StepTransitions, row.steps[i].status, row'.steps[i].status, n)]_row
  <2> SUFFICES ASSUME IInv, OInv, [Next]_vars, row' # row, row'.status # "deleted"
               PROVE  /\ Reach(RunTransitions, row.status, row'.status,
                               row'.version - row.version)
                      /\ \A i \in StepIds : \E n \in 0..2 :
                           Reach(StepTransitions, row.steps[i].status, row'.steps[i].status, n)
    OBVIOUS
  <2>1. IInv' /\ Next
    BY StepKeeps DEF vars
  <2>2. row \in Rows /\ row' \in Rows
    BY <2>1 DEF IInv, TypeOK
  <2>3. Legal(row', row)
    BY <2>1, RowMovesLegally
  <2> QED
    BY <2>2, <2>3, LegalIsReach
<1>2. Spec => [][Next]_vars
  BY DEF Spec
<1> QED
  BY <1>1, <1>2, Ordered, PTL DEF OnlyLegalMoves
=============================================================================
