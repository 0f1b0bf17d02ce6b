------------------------------ MODULE MCQueue ------------------------------
(* Queue for TLC: two producers, one subscription, two metrics writers.    *)
EXTENDS Queue, TLC

CONSTANTS main, sub, p1, p2, c1, f1, f2

TheConsumers == {c1}
TheConsumerOf == c1 :> main
TheFlusherOf == f1 :> main @@ f2 :> main
QueueSymmetry == Permutations({p1, p2}) \cup Permutations({f1, f2})
=============================================================================
