------------------------------- MODULE Faults -------------------------------
(***************************************************************************)
(* The named fault scenarios of the simulator and what each one does to a  *)
(* service (internal/simulator/fault_engine.go, the constants and apply).  *)
(* Probabilities are percentages.                                          *)
(***************************************************************************)
EXTENDS Naturals

PoisonPill          == "poison-pill"
DownstreamTimeout   == "downstream-timeout"
TrafficSpike        == "traffic-spike"
CascadingFailure    == "cascading-failure"
IntermittentErrors  == "intermittent-errors"
NotificationFailure == "notification-failure"

AllFaults == {PoisonPill, DownstreamTimeout, TrafficSpike, CascadingFailure,
              IntermittentErrors, NotificationFailure}

Services == {"api-gateway", "order", "payment", "fulfillment", "notification"}

\* faultOrigins of api.go: the service a fault is recorded against.
faultOrigins ==
  [f \in AllFaults |-> CASE f = PoisonPill          -> "order"
                         [] f = TrafficSpike        -> "api-gateway"
                         [] f = NotificationFailure -> "notification"
                         [] OTHER                   -> "payment"]

\* The percentages a fault may write into ErrorProbability of a service; the
\* empty set when it leaves the field alone.
ErrorWritten(fault, service) ==
  IF \/ fault = PoisonPill /\ service = "payment"
     \/ fault = NotificationFailure /\ service = "notification"
  THEN {100}
  ELSE IF fault = IntermittentErrors THEN {15} ELSE {}

\* GetFaultContext ranges over a Go map: the fault visited last is the one
\* whose ErrorProbability remains, and any writer may be last.
ErrorProbabilities(active, service) ==
  LET written == UNION {ErrorWritten(f, service) : f \in active}
  IN  IF written = {} THEN {0} ELSE written

ShouldCrash(active, service) ==
  CascadingFailure \in active /\ service = "payment"

\* "fctx.ErrorProbability > 0 && rand < fctx.ErrorProbability" for one of the
\* contexts the map order allows: the draw can fail, and it can pass.
MayFail(active, service) == \E p \in ErrorProbabilities(active, service) : p > 0
MayPass(active, service) == \E p \in ErrorProbabilities(active, service) : p < 100
=============================================================================
