--------------------------- MODULE MCFaultEngine ---------------------------
(* FaultEngine for TLC: two concurrent requests and the four faults that    *)
(* write the payment service's context, in pairs that compete for a field.  *)
EXTENDS FaultEngine

CONSTANTS c1, c2

FourFaults == {PoisonPill, IntermittentErrors, CascadingFailure, DownstreamTimeout}
ClientSymmetry == Permutations({c1, c2})
=============================================================================
