---------------------------- MODULE MCIncidents ----------------------------
(* Incidents for TLC: signals of two services, one upstream of the other,   *)
(* a signal of a dead-letter queue, and a fault of the downstream service,  *)
(* so that the rules for the root disagree.                                 *)
EXTENDS Incidents

Key(service, queue, metric) == [service |-> service, queue |-> queue, metric |-> metric]

PaymentKeys == {Key("payment", "", "error_rate"), Key("", "payment-dlq", "dlq_depth")}
ThreeKeys == PaymentKeys \cup {Key("notification", "", "error_rate")}
OneFault == {NotificationFailure}
=============================================================================
