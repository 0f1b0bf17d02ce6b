------------------------- MODULE PipelineProperties -------------------------
(***************************************************************************)
(* What the pipeline owes its messages, and the inductive invariant those  *)
(* promises rest on.                                                       *)
(***************************************************************************)
EXTENDS Pipeline

PaymentPcs == {"none", "validate", "attempt", "backoff", "sending", "fanout",
               "rejecting", "exhausted", "paid", "dead", "dropped"}
FulfillmentPcs == {"none", "attempt", "backoff", "processed", "discarded", "dropped"}
NotificationPcs == {"none", "attempt", "backoff", "exhausted", "processed",
                    "dead", "dropped"}
Letters == [msg : Messages, reason : {"schema_invalid", "processing_error"},
            attempts : Nat]

TypeOK ==
  /\ faults \subseteq InjectableFaults
  /\ cancelled \in BOOLEAN
  /\ stopped \subseteq Tickers
  /\ born \subseteq Messages
  /\ poisoned \subseteq Messages
  /\ orderSending \in Messages \cup {NoMessage}
  /\ orderQueue \in Seq(Messages)
  /\ paymentQueue \in Seq(Messages)
  /\ notifSub \in Seq(Messages)
  /\ paymentDLQ \in Seq(Letters)
  /\ notifDLQ \in Seq(Letters)
  /\ crashed \in BOOLEAN
  /\ polls \in 0..PaymentBatch
  /\ payPc \in [Messages -> PaymentPcs]
  /\ payAttempt \in [Messages -> 0..PaymentMaxAttempts]
  /\ fulPc \in [Messages -> FulfillmentPcs]
  /\ fulAttempt \in [Messages -> 0..FulfillmentMaxAttempts]
  /\ notifPc \in [Messages -> NotificationPcs]
  /\ notifAttempt \in [Messages -> 0..NotificationMaxAttempts]

-----------------------------------------------------------------------------
NoDuplicates(s) == \A i, j \in 1..Len(s) : s[i] = s[j] => i = j
OneLetterEach(q) == \A i, j \in 1..Len(q) : q[i].msg = q[j].msg => i = j
LettersOf(q) == {q[i].msg : i \in 1..Len(q)}

InOrderStage(m) == orderSending = m \/ m \in Elems(orderQueue)

\* A message has one owner on each leg of its way: it is never twice in a
\* queue, nor in a queue while a goroutine works on it or has finished with it.
\* So no order is charged, shipped or notified twice, shutdown included
\* (Send, TryReceive and the three processTick loops).
OneOwner ==
  /\ NoDuplicates(orderQueue)
  /\ NoDuplicates(paymentQueue)
  /\ NoDuplicates(notifSub)
  /\ \A m \in Messages :
       /\ orderSending = m => m \notin Elems(orderQueue)
       /\ InOrderStage(m) => payPc[m] = "none"
       /\ m \in Elems(paymentQueue) => fulPc[m] = "none"
       /\ m \in Elems(notifSub) => notifPc[m] = "none"

\* Until the context is cancelled no accepted order disappears: it waits for
\* payment, is worked on, is dead-lettered, or has been paid; and a paid one is
\* on its way through fulfillment and, once Send has returned, notification too
\* (the fan-out of Queue.Send, the error paths of the three processMessage).
NothingLostWhileRunning ==
  ~cancelled =>
    \A m \in born :
      /\ payPc[m] = "none" => InOrderStage(m)
      /\ payPc[m] # "dropped" /\ fulPc[m] # "dropped" /\ notifPc[m] # "dropped"
      /\ payPc[m] = "dead" => m \in LettersOf(paymentDLQ)
      /\ payPc[m] \in {"fanout", "paid"} =>
           m \in Elems(paymentQueue) \/ fulPc[m] # "none"
      /\ payPc[m] = "paid" => m \in Elems(notifSub) \/ notifPc[m] # "none"
      /\ notifPc[m] = "dead" => m \in LettersOf(notifDLQ)

\* "Any message that fails 3 processing attempts appears exactly once in
\* payment-dlq; never reprocessed" (docs/build-payment-service.md): a dead letter
\* is alone for its message, tells the true reason and attempt count (one for a
\* poisoned message, all of them otherwise), and its message is never in
\* payment again. The same for notification-dlq (the two sendToDLQ).
DeadLettersAccounted ==
  /\ OneLetterEach(paymentDLQ)
  /\ \A i \in 1..Len(paymentDLQ) :
       LET letter == paymentDLQ[i] IN
       /\ payPc[letter.msg] = "dead"
       /\ letter = IF letter.msg \in poisoned
                     THEN Letter(letter.msg, "schema_invalid", 1)
                     ELSE Letter(letter.msg, "processing_error", PaymentMaxAttempts)
  /\ OneLetterEach(notifDLQ)
  /\ \A i \in 1..Len(notifDLQ) :
       LET letter == notifDLQ[i] IN
       /\ notifPc[letter.msg] = "dead"
       /\ letter = Letter(letter.msg, "processing_error", NotificationMaxAttempts)

\* Fulfillment and notification only ever hold orders that passed payment: none
\* is poisoned, dead-lettered or lost in payment (PaymentService.processMessage
\* returns after each route it takes).
OnlyPaidOrdersShip ==
  \A m \in Messages :
    /\ m \in Elems(paymentQueue) \/ fulPc[m] # "none" =>
         m \in born \ poisoned /\ payPc[m] \in {"fanout", "paid"}
    /\ m \in Elems(notifSub) \/ notifPc[m] # "none" =>
         m \in born \ poisoned /\ payPc[m] = "paid"

\* A crashed payment service takes no message from order-queue, though its
\* ticker keeps firing and Restart and the fault may come at any moment
\* (PaymentService.processTick).
CrashStopsIntake == [][Len(orderQueue') < Len(orderQueue) => ~crashed]_vars

-----------------------------------------------------------------------------
Delivered(m) ==
  /\ payPc[m] = "paid"
  /\ fulPc[m] \in {"processed", "discarded"}
  /\ notifPc[m] \in {"processed", "dead"}

Settled(m) == payPc[m] = "dead" \/ Delivered(m)

\* The one place where an order may wait for ever: the dead-letter queues have
\* no consumer, so a full one keeps its sender in Send.
StuckOnFullDLQ(m) ==
  \/ /\ payPc[m] \in {"rejecting", "exhausted"}
     /\ Len(paymentDLQ) = QueueBufferSize
  \/ /\ notifPc[m] = "exhausted"
     /\ Len(notifDLQ) = QueueBufferSize

\* While the process runs, and unless the cascading failure stands for ever, every
\* order the service has built is settled or stuck on a full dead-letter queue:
\* no retry loop, full queue, crash or recovery holds an order for good.
EveryOrderSettles ==
  <>[](CascadingFailure \notin faults) =>
    \A m \in Messages : m \in born ~> Settled(m) \/ StuckOnFullDLQ(m)

WorkersDone ==
  \A m \in Messages :
    /\ payPc[m] \in {"none", "paid", "dead", "dropped"}
    /\ fulPc[m] \in {"none", "processed", "discarded", "dropped"}
    /\ notifPc[m] \in {"none", "processed", "dead", "dropped"}

\* After cancellation every goroutine of the four services returns, the ones
\* blocked on full queues, asleep or backing off included: none leaks
\* (every select of the services and Queue.Send has a ctx.Done case).
ShutdownQuiesces == cancelled ~> (stopped = Tickers /\ WorkersDone)

-----------------------------------------------------------------------------
\* The pipeline as an order flow: where in it each order, its shipment and its
\* notification stand. The order ticker drops an order, and a cancelled goroutine
\* its copy for notification, without leaving a pc behind.
DroppedByTicker(m) == m \in born /\ payPc[m] = "none" /\ ~InOrderStage(m)
CopyDropped(m) ==
  notifPc[m] = "dropped" \/ (payPc[m] = "paid" /\ notifPc[m] = "none" /\ m \notin Elems(notifSub))

OrderStage ==
  [m \in Messages |->
     IF m \notin born THEN "absent"
     ELSE IF payPc[m] \in {"fanout", "paid"} THEN "paid"
     ELSE IF payPc[m] = "dead" THEN "dead"
     ELSE IF payPc[m] = "dropped" \/ DroppedByTicker(m) THEN "lost" ELSE "accepted"]

ShipmentStage ==
  [m \in Messages |->
     IF OrderStage[m] # "paid" THEN NoMessage
     ELSE IF fulPc[m] \in {"processed", "discarded"} THEN fulPc[m]
     ELSE IF fulPc[m] = "dropped" THEN "lost" ELSE "owed"]

NoticeStage ==
  [m \in Messages |->
     IF OrderStage[m] # "paid" THEN NoMessage
     ELSE IF notifPc[m] \in {"processed", "dead"} THEN notifPc[m]
     ELSE IF CopyDropped(m) THEN "lost" ELSE "owed"]

Flow == INSTANCE OrderFlow WITH
          None <- NoMessage, stopping <- cancelled, tainted <- poisoned,
          order <- OrderStage, shipment <- ShipmentStage, notice <- NoticeStage

\* Queues, retries, crashes, faults and cancellation together amount to the order
\* flow: no step of any goroutine takes an order, a shipment or a notification
\* back, settles it twice, lets one overtake payment or, before the process is told
\* to stop, loses one (the four services and Queue.Send).
ImplementsOrderFlow == Flow!Spec

-----------------------------------------------------------------------------
\* The strengthening that makes the safety properties inductive: which stage of
\* payment each other fact belongs to, and how attempts are counted.
Stages ==
  /\ polls > 0 => ~crashed
  /\ poisoned \subseteq born
  /\ \A m \in Messages :
       /\ InOrderStage(m) \/ payPc[m] # "none" => m \in born
       /\ payPc[m] \in {"attempt", "backoff", "sending", "fanout", "exhausted", "paid"}
            => m \notin poisoned
       /\ payPc[m] = "rejecting" => m \in poisoned
       /\ payPc[m] = "backoff" => payAttempt[m] < PaymentMaxAttempts
       /\ payPc[m] = "exhausted" => payAttempt[m] = PaymentMaxAttempts
       /\ fulPc[m] = "backoff" => fulAttempt[m] < FulfillmentMaxAttempts
       /\ notifPc[m] = "backoff" => notifAttempt[m] < NotificationMaxAttempts
       /\ notifPc[m] = "exhausted" => notifAttempt[m] = NotificationMaxAttempts

IInv ==
  /\ TypeOK
  /\ Stages
  /\ OneOwner
  /\ OnlyPaidOrdersShip
  /\ DeadLettersAccounted
  /\ NothingLostWhileRunning
=============================================================================
