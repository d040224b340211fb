------------------------ MODULE ResourceLocks_proofs ------------------------
(***************************************************************************)
(* ResourceLocks for every set of runs and resources, every lease and      *)
(* every bound.  AllOrNothing is what makes the rest true: a run that kept *)
(* its leases holds an unexpired lock on everything it needs, so another   *)
(* run that asks for one of these resources meets a conflict.              *)
(***************************************************************************)
EXTENDS ResourceLocks, TLAPS

\* The variables keep their types, and no lease ever reaches further than Lease from now.
THEOREM Typing == Spec => []TypeOK
<1> USE NeedAssumption, LeaseAssumption
<1>1. Init => TypeOK
  BY DEF Init, TypeOK, Statuses
<1>2. TypeOK /\ [Next]_vars => TypeOK'
  <2> SUFFICES ASSUME TypeOK, [Next]_vars
               PROVE  TypeOK'
    OBVIOUS
  <2> USE DEF TypeOK, Statuses
  <2>1. ASSUME NEW r \in Runs, PressStart(r) PROVE TypeOK'
    BY <2>1 DEF PressStart
  <2>2. ASSUME NEW r \in Runs, TryStart(r) PROVE TypeOK'
    <3>1. Acquired(r) \in [Resources -> Nat] /\ \A x \in Resources : Acquired(r)[x] <= now + Lease
      BY DEF Acquired
    <3>2. CASE UNCHANGED <<lease, status>>
      BY <2>2, <3>2 DEF TryStart
    <3>3. CASE /\ lease' = [lease EXCEPT ![r] = Acquired(r)]
               /\ status' = [status EXCEPT ![r] = "waiting"]
      BY <2>2, <3>1, <3>3 DEF TryStart
    <3> QED
      BY <2>2, <3>2, <3>3 DEF TryStart
  <2>3. ASSUME NEW r \in Runs, Park(r) \/ Unpark(r) PROVE TypeOK'
    BY <2>3 DEF Park, Unpark
  <2>4. ASSUME NEW r \in Runs, BeginStep(r) \/ EndStep(r) PROVE TypeOK'
    BY <2>4 DEF BeginStep, EndStep
  <2>5. ASSUME NEW r \in Runs, End(r) PROVE TypeOK'
    BY <2>5 DEF End
  <2>6. ASSUME NEW r \in Runs, Heartbeat(r) PROVE TypeOK'
    BY <2>6 DEF Heartbeat
  <2>7. CASE Reclaim
    BY <2>7 DEF Reclaim
  <2>8. CASE Crash
    <3>1. crashes' \in 0..MaxCrashes
      BY <2>8 DEF Crash
    <3> QED
      BY <2>8, <3>1 DEF Crash
  <2>9. CASE Restart
    <3>1. startTask' \subseteq Runs /\ recovered' \subseteq Runs
      BY <2>9 DEF Restart
    <3> QED
      BY <2>9, <3>1 DEF Restart
  <2>10. CASE Tick
    BY <2>10 DEF Tick, Active
  <2>11. CASE UNCHANGED vars
    BY <2>11 DEF vars
  <2> QED
    BY <2>1, <2>2, <2>3, <2>4, <2>5, <2>6, <2>7, <2>8, <2>9, <2>10, <2>11 DEF Next
<1> QED
  BY <1>1, <1>2, PTL DEF Spec

\* A run holds its locks from start to end, all of them or none, unless a lease ran out.
THEOREM HoldsAllOrNothing == Spec => []AllOrNothing
<1> USE NeedAssumption, LeaseAssumption
<1>1. Init => AllOrNothing
  BY ZenonT(60) DEF Init, AllOrNothing, Active
<1>2. TypeOK /\ AllOrNothing /\ [Next]_vars => AllOrNothing'
  <2> SUFFICES ASSUME TypeOK, AllOrNothing, [Next]_vars
               PROVE  AllOrNothing'
    OBVIOUS
  <2> USE DEF TypeOK, AllOrNothing, Active
  <2>1. ASSUME NEW r \in Runs, PressStart(r) PROVE AllOrNothing'
    BY <2>1 DEF PressStart
  <2>2. ASSUME NEW r \in Runs, TryStart(r) PROVE AllOrNothing'
    <3>1. CASE UNCHANGED <<lease, status>>
      BY <2>2, <3>1 DEF TryStart
    <3>2. CASE /\ status[r] = "resource_queue"
               /\ lease' = [lease EXCEPT ![r] = Acquired(r)]
               /\ status' = [status EXCEPT ![r] = "waiting"]
      <4>1. \A x \in Need[r] : x \in Resources /\ Acquired(r)[x] > now
        BY <3>2 DEF Acquired
      <4> QED
        BY <2>2, <3>2, <4>1 DEF TryStart
    <3> QED
      BY <2>2, <3>1, <3>2 DEF TryStart
  <2>3. ASSUME NEW r \in Runs, Park(r) \/ Unpark(r) PROVE AllOrNothing'
    BY <2>3 DEF Park, Unpark
  <2>4. ASSUME NEW r \in Runs, BeginStep(r) \/ EndStep(r) PROVE AllOrNothing'
    BY <2>4 DEF BeginStep, EndStep
  <2>5. ASSUME NEW r \in Runs, End(r) PROVE AllOrNothing'
    BY <2>5 DEF End
  <2>6. ASSUME NEW r \in Runs, Heartbeat(r) PROVE AllOrNothing'
    BY <2>6 DEF Heartbeat
  <2>7. CASE Reclaim
    BY <2>7 DEF Reclaim
  <2>8. CASE Crash \/ Restart
    BY <2>8 DEF Crash, Restart
  <2>9. CASE Tick
    BY <2>9 DEF Tick
  <2>10. CASE UNCHANGED vars
    BY <2>10 DEF vars
  <2> QED
    BY <2>1, <2>2, <2>3, <2>4, <2>5, <2>6, <2>7, <2>8, <2>9, <2>10 DEF Next
<1> QED
  BY <1>1, <1>2, Typing, PTL DEF Spec

\* A run that gets its locks meets no active run that kept its leases on one of them.
LEMMA NoConflictNoSharing ==
  ASSUME TypeOK, AllOrNothing, NEW r \in Runs, ~Conflict(r),
         NEW other \in Runs \ {r}, Active(other), other \notin lapsed
  PROVE  Need[other] \cap Need[r] = {}
BY NeedAssumption DEF TypeOK, AllOrNothing, Conflict

\* Two active runs share a resource only when the lease of one of them has run out.
THEOREM SharingNeedsLapse == Spec => []SharedOnlyAfterLapse
<1>1. Init => SharedOnlyAfterLapse
  BY DEF Init, SharedOnlyAfterLapse, Active
<1>2. TypeOK /\ AllOrNothing /\ SharedOnlyAfterLapse /\ [Next]_vars => SharedOnlyAfterLapse'
  <2> SUFFICES ASSUME TypeOK, AllOrNothing, SharedOnlyAfterLapse, [Next]_vars
               PROVE  SharedOnlyAfterLapse'
    OBVIOUS
  <2> USE DEF TypeOK, SharedOnlyAfterLapse, Active
  <2>1. ASSUME NEW r \in Runs, TryStart(r) PROVE SharedOnlyAfterLapse'
    <3>1. CASE UNCHANGED <<lease, status>>
      BY <2>1, <3>1 DEF TryStart
    <3>2. CASE ~Conflict(r) /\ status' = [status EXCEPT ![r] = "waiting"]
      <4>1. \A other \in Runs \ {r} :
              Active(other) /\ other \notin lapsed => Need[other] \cap Need[r] = {}
        BY <3>2, NoConflictNoSharing
      <4>2. lapsed' = lapsed /\ \A other \in Runs \ {r} : status'[other] = status[other]
        BY <2>1, <3>2 DEF TryStart
      <4> QED
        BY <4>1, <4>2
    <3> QED
      BY <2>1, <3>1, <3>2 DEF TryStart
  <2>2. ASSUME NEW r \in Runs, PressStart(r) \/ Park(r) \/ Unpark(r)
        PROVE  SharedOnlyAfterLapse'
    BY <2>2 DEF PressStart, Park, Unpark
  <2>3. ASSUME NEW r \in Runs, BeginStep(r) \/ EndStep(r) PROVE SharedOnlyAfterLapse'
    BY <2>3 DEF BeginStep, EndStep
  <2>4. ASSUME NEW r \in Runs, End(r) PROVE SharedOnlyAfterLapse'
    BY <2>4 DEF End
  <2>5. ASSUME NEW r \in Runs, Heartbeat(r) PROVE SharedOnlyAfterLapse'
    BY <2>5 DEF Heartbeat
  <2>6. CASE Reclaim \/ Crash \/ Restart \/ Tick
    BY <2>6 DEF Reclaim, Crash, Restart, Tick
  <2>7. CASE UNCHANGED vars
    BY <2>7 DEF vars
  <2> QED
    BY <2>1, <2>2, <2>3, <2>4, <2>5, <2>6, <2>7 DEF Next
<1> QED
  BY <1>1, <1>2, Typing, HoldsAllOrNothing, PTL DEF Spec

-----------------------------------------------------------------------------
(* The refinement: what the runs that kept their leases use. *)

Using == [r \in Runs |-> IF Active(r) /\ r \notin lapsed THEN Need[r] ELSE {}]

LEMMA KeptActions ==
  /\ Kept!Init <=> Using = [r \in Runs |-> {}]
  /\ \A r \in Runs :
       Kept!Take(r) <=>
         /\ Using[r] = {}
         /\ \A other \in Runs \ {r} : Using[other] \cap Need[r] = {}
         /\ Using' = [Using EXCEPT ![r] = Need[r]]
  /\ \A gone \in SUBSET Runs :
       Kept!Drop(gone) <=> Using' = [r \in Runs |-> IF r \in gone THEN {} ELSE Using[r]]
BY DEF Using, Kept!Init, Kept!Take, Kept!Drop

\* Every step takes resources as ExclusiveUse allows, drops some, or changes nothing.
LEMMA StepRefines ==
  ASSUME TypeOK, AllOrNothing, [Next]_vars
  PROVE  Kept!Next \/ Using' = Using
<1> USE DEF TypeOK, Active, Using
<1>1. ASSUME NEW r \in Runs, TryStart(r) PROVE Kept!Next \/ Using' = Using
  <2>1. CASE UNCHANGED <<lease, status>>
    BY <1>1, <2>1 DEF TryStart
  <2>2. CASE r \in lapsed /\ status[r] = "resource_queue"
             /\ status' = [status EXCEPT ![r] = "waiting"]
    BY <1>1, <2>2 DEF TryStart
  <2>3. CASE r \notin lapsed /\ status[r] = "resource_queue" /\ ~Conflict(r)
             /\ status' = [status EXCEPT ![r] = "waiting"]
    <3>1. \A other \in Runs \ {r} : Using[other] \cap Need[r] = {}
      <4> SUFFICES ASSUME NEW other \in Runs \ {r}
                   PROVE  Using[other] \cap Need[r] = {}
        OBVIOUS
      <4>1. CASE Active(other) /\ other \notin lapsed
        BY <2>3, <4>1, NoConflictNoSharing
      <4>2. CASE ~(Active(other) /\ other \notin lapsed)
        BY <4>2
      <4> QED
        BY <4>1, <4>2
    <3>2. Using[r] = {}
      BY <2>3
    <3>3. Using' = [Using EXCEPT ![r] = Need[r]]
      BY <1>1, <2>3 DEF TryStart
    <3>4. Kept!Take(r)
      BY <3>1, <3>2, <3>3, KeptActions
    <3> QED
      BY <3>4 DEF Kept!Next
  <2> QED
    BY <1>1, <2>1, <2>2, <2>3 DEF TryStart
<1>2. ASSUME NEW r \in Runs, PressStart(r) \/ Park(r) \/ Unpark(r) PROVE Using' = Using
  BY <1>2 DEF PressStart, Park, Unpark
<1>3. ASSUME NEW r \in Runs, BeginStep(r) \/ EndStep(r) PROVE Using' = Using
  BY <1>3 DEF BeginStep, EndStep
<1>4. ASSUME NEW r \in Runs, End(r) PROVE Kept!Next
  <2>1. Using' = [q \in Runs |-> IF q \in {r} THEN {} ELSE Using[q]]
    BY <1>4 DEF End
  <2>2. Kept!Drop({r})
    BY <2>1, KeptActions
  <2> QED
    BY <2>2 DEF Kept!Next
<1>5. ASSUME NEW r \in Runs, Heartbeat(r) PROVE Using' = Using
  BY <1>5 DEF Heartbeat
<1>6. CASE Reclaim \/ Crash \/ Restart
  BY <1>6 DEF Reclaim, Crash, Restart
<1>7. CASE Tick
  <2>1. PICK gone \in SUBSET Runs : gone = {r \in Runs : r \in lapsed'}
    OBVIOUS
  <2>2. Using' = [r \in Runs |-> IF r \in gone THEN {} ELSE Using[r]]
    BY <1>7, <2>1 DEF Tick
  <2>3. Kept!Drop(gone)
    BY <2>2, KeptActions
  <2> QED
    BY <2>3 DEF Kept!Next
<1>8. CASE UNCHANGED vars
  BY <1>8 DEF vars
<1> QED
  BY <1>1, <1>2, <1>3, <1>4, <1>5, <1>6, <1>7, <1>8 DEF Next

\* ResourceLocks implements ExclusiveUse for the runs that kept their leases.
THEOREM Implements == Spec => ImplementsExclusiveUse
<1>1. Init => Kept!Init
  BY DEF Init, Active, Kept!Init
<1>2. TypeOK /\ AllOrNothing /\ [Next]_vars => [Kept!Next]_Using
  BY StepRefines
<1> QED
  BY <1>1, <1>2, Typing, HoldsAllOrNothing, PTL
     DEF Spec, ImplementsExclusiveUse, Kept!Spec, Using
=============================================================================
