---------------------------- MODULE ResourceLocks ----------------------------
(***************************************************************************)
(* Several runs that compete for resources: t_resource_locks, its leases,  *)
(* and who renews, reclaims and releases them (orchestration.py).  A run   *)
(* is reduced to what the locks see of it: it is not started, queued,      *)
(* parked (paused while queued), waiting for an operator (paused           *)
(* included), executing a step, or ended.                                  *)
(* Time is counted in ticks.  A lease lasts Lease ticks (180 minutes).     *)
(***************************************************************************)
EXTENDS Naturals

CONSTANTS
  Runs, Resources,
  Need,         \* the resources of each run (run_resource_ids)
  Lease,        \* lease_minutes
  MaxTime,      \* bound: the last tick
  MaxCrashes    \* bound: how often the process ends

ASSUME NeedAssumption == Need \in [Runs -> SUBSET Resources]
ASSUME LeaseAssumption ==
  Lease \in Nat \ {0} /\ MaxTime \in Nat \ {0} /\ MaxCrashes \in Nat

VARIABLES
  status,       \* of each run
  lease,        \* lease_expires_at of its unreleased lock row, 0 when there is none
  startTask,    \* runs with an active start_run task
  recovered,    \* runs whose recovery:start-run key, one per version, has been used
  up, crashes, now,
  lapsed        \* history: active runs one of whose leases has run out

vars == <<status, lease, startTask, recovered, up, crashes, now, lapsed>>

Statuses == {"draft", "resource_queue", "parked", "waiting", "running", "ended"}
Active(r) == status[r] \in {"waiting", "running"}

Init ==
  /\ status = [r \in Runs |-> "draft"]
  /\ lease = [r \in Runs |-> [x \in Resources |-> 0]]
  /\ startTask = {}
  /\ recovered = {}
  /\ up = TRUE
  /\ crashes = 0
  /\ now = 1
  /\ lapsed = {}

-----------------------------------------------------------------------------
\* Mutant: a lease counts as run out one tick too early.
Conflict_EarlyExpiry(r) ==
  \E other \in Runs \ {r} : \E x \in Need[r] : lease[other][x] > now + 1

\* acquire_locks: unreleased rows of others whose lease has not run out.
Conflict(r) == \E other \in Runs \ {r} : \E x \in Need[r] : lease[other][x] > now

\* A row of its own is kept as it is, its lease included.
Acquired(r) ==
  [x \in Resources |-> IF x \in Need[r] /\ lease[r][x] = 0 THEN now + Lease
                       ELSE lease[r][x]]

PressStart(r) ==
  /\ up
  /\ status[r] \in {"draft", "resource_queue"}
  /\ status' = [status EXCEPT ![r] = "resource_queue"]
  /\ startTask' = startTask \cup {r}
  /\ UNCHANGED <<lease, recovered, up, crashes, now, lapsed>>

\* The start task settles whether or not it got the locks; nobody enqueues another.
TryStart(r) ==
  /\ up
  /\ r \in startTask
  /\ startTask' = startTask \ {r}
  /\ IF status[r] = "resource_queue" /\ ~Conflict(r)
     THEN /\ lease' = [lease EXCEPT ![r] = Acquired(r)]
          /\ status' = [status EXCEPT ![r] = "waiting"]
     ELSE UNCHANGED <<lease, status>>
  /\ UNCHANGED <<recovered, up, crashes, now, lapsed>>

\* A queued run is paused; resuming it enqueues a start task under a new version.
Park(r) ==
  /\ up
  /\ status[r] = "resource_queue"
  /\ status' = [status EXCEPT ![r] = "parked"]
  /\ UNCHANGED <<lease, startTask, recovered, up, crashes, now, lapsed>>

Unpark(r) ==
  /\ up
  /\ status[r] = "parked"
  /\ status' = [status EXCEPT ![r] = "resource_queue"]
  /\ startTask' = startTask \cup {r}
  /\ recovered' = recovered \ {r}
  /\ UNCHANGED <<lease, up, crashes, now, lapsed>>

\* begin_workflow_step does not look at the locks.
BeginStep(r) ==
  /\ up
  /\ status[r] = "waiting"
  /\ status' = [status EXCEPT ![r] = "running"]
  /\ UNCHANGED <<lease, startTask, recovered, up, crashes, now, lapsed>>

EndStep(r) ==
  /\ up
  /\ status[r] = "running"
  /\ status' = [status EXCEPT ![r] = "waiting"]
  /\ UNCHANGED <<lease, startTask, recovered, up, crashes, now, lapsed>>

\* Mutant: the end of a run releases the locks of one resource only.
End_ReleasesOne(r) ==
  /\ up
  /\ status[r] # "ended"
  /\ status' = [status EXCEPT ![r] = "ended"]
  /\ lease' = [lease EXCEPT ![r][CHOOSE x \in Resources : TRUE] = 0]
  /\ lapsed' = lapsed \ {r}
  /\ UNCHANGED <<startTask, recovered, up, crashes, now>>

\* Cancelled, timed out, failed, handed to review: release_locks releases every row.
End(r) ==
  /\ up
  /\ status[r] # "ended"
  /\ status' = [status EXCEPT ![r] = "ended"]
  /\ lease' = [lease EXCEPT ![r] = [x \in Resources |-> 0]]
  /\ lapsed' = lapsed \ {r}
  /\ UNCHANGED <<startTask, recovered, up, crashes, now>>

\* Mutant: a heartbeat adds to the lease instead of counting from now.
Heartbeat_Accumulates(r) ==
  /\ up
  /\ status[r] \in {"running", "ended"}
  /\ lease' = [lease EXCEPT ![r] = [x \in Resources |->
       IF @[x] # 0 THEN @[x] + Lease ELSE 0]]
  /\ UNCHANGED <<status, startTask, recovered, up, crashes, now, lapsed>>

\* The heartbeat of the step's task, which may outlive the run: renew_run_locks also
\* revives a lease that ran out.
Heartbeat(r) ==
  /\ up
  /\ status[r] \in {"running", "ended"}
  /\ lease' = [lease EXCEPT ![r] = [x \in Resources |->
       IF @[x] # 0 THEN now + Lease ELSE 0]]
  /\ UNCHANGED <<status, startTask, recovered, up, crashes, now, lapsed>>

\* Mutant: every lock of a run that is not executing counts as expired.
Reclaim_Idle ==
  /\ up
  /\ lease' = [r \in Runs |-> [x \in Resources |->
       IF status[r] = "running" THEN lease[r][x] ELSE 0]]
  /\ UNCHANGED <<status, startTask, recovered, up, crashes, now, lapsed>>

\* reclaim_expired_locks, by the scheduler every minute.
Reclaim ==
  /\ up
  /\ lease' = [r \in Runs |-> [x \in Resources |->
       IF lease[r][x] <= now THEN 0 ELSE lease[r][x]]]
  /\ UNCHANGED <<status, startTask, recovered, up, crashes, now, lapsed>>

Crash ==
  /\ up
  /\ crashes < MaxCrashes
  /\ up' = FALSE
  /\ crashes' = crashes + 1
  /\ UNCHANGED <<status, lease, startTask, recovered, now, lapsed>>

\* recover_abandoned_tasks: its key is one per run and status_version, used once.
Restart ==
  /\ ~up
  /\ up' = TRUE
  /\ LET lost == {r \in Runs : status[r] = "resource_queue" /\ r \notin startTask}
     IN /\ startTask' = startTask \cup (lost \ recovered)
        /\ recovered' = recovered \cup lost
  /\ UNCHANGED <<status, lease, crashes, now, lapsed>>

Tick ==
  /\ now < MaxTime
  /\ now' = now + 1
  /\ lapsed' = lapsed \cup
       {r \in Runs : Active(r) /\ \E x \in Need[r] : lease[r][x] <= now'}
  /\ UNCHANGED <<status, lease, startTask, recovered, up, crashes>>

-----------------------------------------------------------------------------
Next ==
  \/ \E r \in Runs :
       \/ PressStart(r)
       \/ TryStart(r)
       \/ Park(r)
       \/ Unpark(r)
       \/ BeginStep(r)
       \/ EndStep(r)
       \/ End(r)
       \/ Heartbeat(r)
  \/ Reclaim
  \/ Crash
  \/ Restart
  \/ Tick

Spec == Init /\ [][Next]_vars

\* Claimed tasks are executed, the scheduler reclaims every minute and the supervisor
\* restarts the process; what operators do, they need not do.
Fairness ==
  /\ \A r \in Runs : WF_vars(TryStart(r))
  /\ WF_vars(Reclaim)
  /\ WF_vars(Restart)

FairSpec == Spec /\ Fairness

-----------------------------------------------------------------------------
(* Properties *)

\* The type of every variable; no lease reaches further than Lease from now.
TypeOK ==
  /\ status \in [Runs -> Statuses]
  /\ lease \in [Runs -> [Resources -> Nat]]
  /\ \A r \in Runs, x \in Resources : lease[r][x] <= now + Lease
  /\ startTask \subseteq Runs
  /\ recovered \subseteq Runs
  /\ up \in BOOLEAN
  /\ crashes \in 0..MaxCrashes
  /\ now \in 1..MaxTime
  /\ lapsed \subseteq Runs

\* A run that is not active holds no lock, and an active run whose leases never ran
\* out holds all it needs: acquire and release are all or nothing, and neither the
\* heartbeat nor the reclaim takes or adds a lock behind the run's back.
AllOrNothing ==
  \A r \in Runs :
    /\ ~Active(r) => \A x \in Resources : lease[r][x] = 0
    /\ Active(r) /\ r \notin lapsed => \A x \in Need[r] : lease[r][x] > now

\* Two active runs share a resource only when the lease of one of them has run out.
SharedOnlyAfterLapse ==
  \A r1, r2 \in Runs :
    r1 # r2 /\ Active(r1) /\ Active(r2) /\ Need[r1] \cap Need[r2] # {} =>
      r1 \in lapsed \/ r2 \in lapsed

\* The runs that kept their leases use their resources as ExclusiveUse promises.
Kept == INSTANCE ExclusiveUse WITH
          using <- [r \in Runs |-> IF Active(r) /\ r \notin lapsed THEN Need[r] ELSE {}]

ImplementsExclusiveUse == Kept!Spec

\* No resource is occupied by several active runs at the same time.
NoDoubleUse ==
  \A r1, r2 \in Runs :
    r1 # r2 /\ Active(r1) /\ Active(r2) => Need[r1] \cap Need[r2] = {}

\* A queued run whose resources nobody holds does not stay queued for ever.
QueueMoves ==
  \A r \in Runs :
    status[r] = "resource_queue" /\ ~Conflict(r) ~>
      status[r] # "resource_queue" \/ Conflict(r)
=============================================================================
