------------------------ MODULE ExclusiveUse_proofs ------------------------
(* What ExclusiveUse promises follows from taking everything at once. *)
EXTENDS ExclusiveUse, TLAPS

\* using is a function on Runs, so that an update of one run leaves the others alone.
IInv == DOMAIN using = Runs /\ Exclusive

\* No two runs ever use the same resource.
THEOREM Mutex == Spec => []Exclusive
<1>1. Init => IInv
  BY DEF Init, IInv, Exclusive
<1>2. IInv /\ [Next]_using => IInv'
  <2> SUFFICES ASSUME IInv, [Next]_using
               PROVE  IInv'
    OBVIOUS
  <2>1. CASE \E r \in Runs : Take(r)
    BY <2>1 DEF Take, IInv, Exclusive
  <2>2. CASE \E gone \in SUBSET Runs : Drop(gone)
    BY <2>2 DEF Drop, IInv, Exclusive
  <2>3. CASE UNCHANGED using
    BY <2>3 DEF IInv, Exclusive
  <2> QED
    BY <2>1, <2>2, <2>3 DEF Next
<1>3. IInv => Exclusive
  BY DEF IInv
<1> QED
  BY <1>1, <1>2, <1>3, PTL DEF Spec
=============================================================================
