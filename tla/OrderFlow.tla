------------------------------ MODULE OrderFlow ------------------------------
(***************************************************************************)
(* What the simulator promises about an order, without queues, goroutines, *)
(* attempts or faults: it is accepted once, then paid or dead-lettered; a  *)
(* paid order is owed a shipment and a notification, which are settled     *)
(* independently and once. An order, a shipment or a notification may be   *)
(* lost only once the process has been told to stop, and never after it    *)
(* has been settled.                                                       *)
(***************************************************************************)
CONSTANTS
  Messages,   \* the orders
  None        \* "nothing is owed yet"

VARIABLES
  stopping,   \* the process has been told to stop
  tainted,    \* the orders payment must refuse
  order,      \* the stage of each order
  shipment,   \* what became of the shipment of each order
  notice      \* what became of its notification

flow == <<stopping, tainted, order, shipment, notice>>

Settle(leg, m, outcomes) ==
  /\ leg[m] = "owed"
  /\ \E outcome \in outcomes \cup (IF stopping THEN {"lost"} ELSE {}) :
       leg' = [leg EXCEPT ![m] = outcome]

Init ==
  /\ stopping = FALSE /\ tainted = {}
  /\ order = [m \in Messages |-> "absent"]
  /\ shipment = [m \in Messages |-> None]
  /\ notice = [m \in Messages |-> None]

Accept(m) ==
  /\ order[m] = "absent"
  /\ order' = [order EXCEPT ![m] = "accepted"]
  /\ tainted' \in {tainted, tainted \cup {m}}
  /\ UNCHANGED <<stopping, shipment, notice>>

Pay(m) ==
  /\ order[m] = "accepted"
  /\ m \notin tainted
  /\ order' = [order EXCEPT ![m] = "paid"]
  /\ shipment' = [shipment EXCEPT ![m] = "owed"]
  /\ notice' = [notice EXCEPT ![m] = "owed"]
  /\ UNCHANGED <<stopping, tainted>>

DeadLetter(m) ==
  /\ order[m] = "accepted"
  /\ order' = [order EXCEPT ![m] = "dead"]
  /\ UNCHANGED <<stopping, tainted, shipment, notice>>

Lose(m) ==
  /\ stopping
  /\ order[m] = "accepted"
  /\ order' = [order EXCEPT ![m] = "lost"]
  /\ UNCHANGED <<stopping, tainted, shipment, notice>>

Ship(m) ==
  /\ Settle(shipment, m, {"processed", "discarded"})
  /\ UNCHANGED <<stopping, tainted, order, notice>>

Notify(m) ==
  /\ Settle(notice, m, {"processed", "dead"})
  /\ UNCHANGED <<stopping, tainted, order, shipment>>

Stop ==
  /\ ~stopping
  /\ stopping' = TRUE
  /\ UNCHANGED <<tainted, order, shipment, notice>>

Next ==
  \/ Stop
  \/ \E m \in Messages : \/ Accept(m) \/ Pay(m) \/ DeadLetter(m) \/ Lose(m)
                         \/ Ship(m) \/ Notify(m)

Spec == Init /\ [][Next]_flow
=============================================================================
