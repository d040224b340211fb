--------------------------- MODULE MCRunLifecycle ---------------------------
(* Instances of RunLifecycle for TLC. *)
EXTENDS RunLifecycle, TLC

CONSTANTS c1, c2

MCClients == {c1, c2}
MCOneClient == {c1}
MCSymmetry == Permutations(MCClients)

MCLongNodes == <<"order_preparation", "data_statistics", "report_generation">>
MCShortNodes == <<"wiring_confirmation", "capture">>

MCStopNodes == <<"data_statistics">>
MCStopOperations == {"start", "start_step", "reanalyze"}

\* The way through a workflow, and every way to interrupt a run.
MCStepOperations ==
  {"start", "start_step", "retry_step", "reanalyze", "complete", "cancel", "verdict"}
MCRunOperations ==
  {"start", "complete", "pause", "resume", "expire", "delete"}
=============================================================================
