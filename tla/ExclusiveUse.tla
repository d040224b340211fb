---------------------------- MODULE ExclusiveUse ----------------------------
(***************************************************************************)
(* What resource locking promises: a run takes all the resources it needs  *)
(* at once, only when no other run uses one of them, and gives them back.  *)
(***************************************************************************)
CONSTANTS
  Runs, Resources,
  Need           \* the set of resources each run needs

VARIABLE using

Init == using = [r \in Runs |-> {}]

Take(r) ==
  /\ using[r] = {}
  /\ \A other \in Runs \ {r} : using[other] \cap Need[r] = {}
  /\ using' = [using EXCEPT ![r] = Need[r]]

Drop(gone) == using' = [r \in Runs |-> IF r \in gone THEN {} ELSE using[r]]

Next == (\E r \in Runs : Take(r)) \/ (\E gone \in SUBSET Runs : Drop(gone))

Spec == Init /\ [][Next]_using

\* No resource is used by two runs.
Exclusive ==
  \A r1, r2 \in Runs : r1 # r2 => using[r1] \cap using[r2] = {}
=============================================================================
