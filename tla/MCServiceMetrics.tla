-------------------------- MODULE MCServiceMetrics --------------------------
(* ServiceMetrics for TLC: the order service, which counts in two sections, *)
(* and the payment service for the three that count in one. Both writers of *)
(* the order service are there, the background one and the forced one.      *)
EXTENDS ServiceMetrics, TLC

CONSTANTS w1, w2, w3

OrderAndPayment == {"order", "payment"}
TheFlusherOf == w1 :> "order" @@ w2 :> "order" @@ w3 :> "payment"
FlusherSymmetry == Permutations({w1, w2})
=============================================================================
