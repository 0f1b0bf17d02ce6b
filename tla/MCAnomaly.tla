------------------------------ MODULE MCAnomaly ------------------------------
(* Anomaly for TLC: one metric of each rule, short windows. *)
EXTENDS Anomaly

\* p99_latency follows the rule of error_rate with another floor.
RuleMetrics == {"error_rate", "throughput", "queue_depth", "dlq_depth"}
\* A good value, one at the floor and a bad one.
RuleLevels == [error_rate |-> {0, 1, 4}, throughput |-> {0, 4},
               queue_depth |-> {0, 2}, dlq_depth |-> {0, 1}]
=============================================================================
