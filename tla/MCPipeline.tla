----------------------------- MODULE MCPipeline -----------------------------
(* Pipeline for TLC: a small set of orders, interchangeable in safety runs. *)
EXTENDS PipelineProperties, TLC

CONSTANTS m1, m2, none

TwoOrders == {m1, m2}
OrderSymmetry == Permutations(TwoOrders)

\* Of the faults that change what the pipeline does, notification-failure is left
\* out: it only makes certain the failure that intermittent-errors makes possible.
PipelineFaults == {PoisonPill, CascadingFailure, IntermittentErrors}
\* While one process shuts down, faults only matter through the errors they cause.
ShutdownFaults == {IntermittentErrors}
=============================================================================
