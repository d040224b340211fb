-------------------------- MODULE MCResourceLocks --------------------------
(* Three runs, two resources: one run needs both, two need one each. *)
EXTENDS ResourceLocks, TLC

CONSTANTS run1, run2, run3, rem, market

MCRuns == {run1, run2, run3}
MCResources == {rem, market}
MCNeed == run1 :> {rem, market} @@ run2 :> {rem} @@ run3 :> {market}
=============================================================================
