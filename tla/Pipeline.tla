------------------------------ MODULE Pipeline ------------------------------
(***************************************************************************)
(* The message pipeline of the simulator (internal/simulator, wired by     *)
(* cmd/simulator/main.go):                                                 *)
(*                                                                         *)
(*   order -> order-queue -> payment -> payment-queue -> fulfillment       *)
(*                              |             \ (fan-out)                  *)
(*                              v              notification-sub ->         *)
(*                         payment-dlq           notification ->           *)
(*                                                 notification-dlq        *)
(*                                                                         *)
(* Each service is a ticker goroutine that polls its queue and starts one  *)
(* goroutine per message; that goroutine sleeps, retries, backs off and    *)
(* sends on bounded queues whose Send blocks while the buffer is full.     *)
(* Every blocking point also waits for the context to be cancelled.        *)
(*                                                                         *)
(* Abstracted: payloads (a message is its id and its poisoned flag), how   *)
(* long a sleep lasts, and the counters, which ServiceMetrics models.      *)
(***************************************************************************)
EXTENDS Faults, Sequences

CONSTANTS
  Messages,             \* the orders the run may generate
  NoMessage,            \* "the order ticker is not in Send"
  InjectableFaults,     \* the faults an operator may switch
  QueueBufferSize,      \* queueBufferSize, 1000 in the code
  PaymentMaxAttempts,   \* 3 in the code
  FulfillmentMaxAttempts,  \* 3 in the code
  NotificationMaxAttempts, \* 2 in the code
  PaymentBatch          \* messages polled per payment tick, 5 in the code

ASSUME PipelineAssumption ==
  /\ NoMessage \notin Messages
  /\ InjectableFaults \subseteq AllFaults
  /\ QueueBufferSize \in Nat \ {0}
  /\ PaymentMaxAttempts \in Nat \ {0}
  /\ FulfillmentMaxAttempts \in Nat \ {0}
  /\ NotificationMaxAttempts \in Nat \ {0}
  /\ PaymentBatch \in Nat \ {0}

VARIABLES
  faults,        \* the fault engine's active set
  cancelled,     \* ctx has been cancelled (SIGINT/SIGTERM)
  stopped,       \* the tickers that have returned on ctx.Done
  born,          \* messages the order service has built
  poisoned,      \* those built with _meta.poisoned = true
  orderSending,  \* the message the order ticker is blocked on, or NoMessage
  orderQueue, paymentQueue, notifSub, paymentDLQ, notifDLQ,  \* channels
  crashed,       \* PaymentService.crashed
  polls,         \* TryReceive calls left in the current payment tick
  payPc, payAttempt,      \* the payment goroutine of each message
  fulPc, fulAttempt,      \* its fulfillment goroutine
  notifPc, notifAttempt   \* its notification goroutine

env       == <<faults, cancelled>>
orderVars == <<born, poisoned, orderSending>>
payTicker == <<crashed, polls>>
payVars   == <<payPc, payAttempt>>
fulVars   == <<fulPc, fulAttempt>>
notifVars == <<notifPc, notifAttempt>>
queues    == <<orderQueue, paymentQueue, notifSub, paymentDLQ, notifDLQ>>
vars == <<env, stopped, orderVars, queues, payTicker, payVars, fulVars, notifVars>>

Tickers == {"order", "payment", "fulfillment", "notification"}

Elems(s) == {s[i] : i \in 1..Len(s)}

Letter(m, reason, attempts) ==
  [msg |-> m, reason |-> reason, attempts |-> attempts]

-----------------------------------------------------------------------------
Init ==
  /\ faults = {} /\ cancelled = FALSE /\ stopped = {}
  /\ born = {} /\ poisoned = {} /\ orderSending = NoMessage
  /\ orderQueue = <<>> /\ paymentQueue = <<>> /\ notifSub = <<>>
  /\ paymentDLQ = <<>> /\ notifDLQ = <<>>
  /\ crashed = FALSE /\ polls = 0
  /\ payPc = [m \in Messages |-> "none"] /\ payAttempt = [m \in Messages |-> 0]
  /\ fulPc = [m \in Messages |-> "none"] /\ fulAttempt = [m \in Messages |-> 0]
  /\ notifPc = [m \in Messages |-> "none"]
  /\ notifAttempt = [m \in Messages |-> 0]

-----------------------------------------------------------------------------
\* The environment: an operator switches faults, the process is told to stop.

Inject(f) ==
  /\ f \notin faults
  /\ faults' = faults \cup {f}
  /\ UNCHANGED <<cancelled, stopped, orderVars, queues, payTicker, payVars,
                 fulVars, notifVars>>

Clear(f) ==
  /\ f \in faults
  /\ faults' = faults \ {f}
  /\ UNCHANGED <<cancelled, stopped, orderVars, queues, payTicker, payVars,
                 fulVars, notifVars>>

Cancel ==
  /\ ~cancelled
  /\ cancelled' = TRUE
  /\ UNCHANGED <<faults, stopped, orderVars, queues, payTicker, payVars,
                 fulVars, notifVars>>

\* PaymentService.Restart, which any caller may invoke at any time.
Restart ==
  /\ crashed
  /\ crashed' = FALSE
  /\ UNCHANGED <<env, stopped, orderVars, queues, polls, payVars, fulVars, notifVars>>

\* runTicker of each service returns on ctx.Done, which it looks at only
\* between two ticks.
BetweenTicks(t) ==
  CASE t = "order"   -> orderSending = NoMessage
    [] t = "payment" -> polls = 0
    [] OTHER         -> TRUE

StopTicker(t) ==
  /\ cancelled
  /\ t \notin stopped
  /\ BetweenTicks(t)
  /\ stopped' = stopped \cup {t}
  /\ UNCHANGED <<env, orderVars, queues, payTicker, payVars, fulVars, notifVars>>

-----------------------------------------------------------------------------
\* OrderService.processTick. A tick whose error draw fails returns before it
\* builds a message and changes nothing here; otherwise the message is stamped
\* with the poison-pill fault of that moment and the ticker enters Send.
OrderTick(m) ==
  /\ "order" \notin stopped
  /\ orderSending = NoMessage
  /\ m \notin born
  /\ MayPass(faults, "order")
  /\ born' = born \cup {m}
  /\ poisoned' = IF PoisonPill \in faults THEN poisoned \cup {m} ELSE poisoned
  /\ orderSending' = m
  /\ UNCHANGED <<env, stopped, queues, payTicker, payVars, fulVars, notifVars>>

OrderSend ==
  /\ orderSending # NoMessage
  /\ Len(orderQueue) < QueueBufferSize
  /\ orderQueue' = Append(orderQueue, orderSending)
  /\ orderSending' = NoMessage
  /\ UNCHANGED <<env, stopped, born, poisoned, paymentQueue, notifSub,
                 paymentDLQ, notifDLQ, payTicker, payVars, fulVars, notifVars>>

\* Send gives up on ctx.Done: the message is dropped.
OrderSendCancelled ==
  /\ orderSending # NoMessage
  /\ cancelled
  /\ orderSending' = NoMessage
  /\ UNCHANGED <<env, stopped, born, poisoned, queues, payTicker, payVars,
                 fulVars, notifVars>>

-----------------------------------------------------------------------------
\* Mutant: the return after crashed.Store(true) is missing.
PaymentTickPollsOnCrash ==
  /\ "payment" \notin stopped
  /\ polls = 0
  /\ crashed' = ShouldCrash(faults, "payment")
  /\ polls' = IF crashed THEN 0 ELSE PaymentBatch
  /\ UNCHANGED <<env, stopped, orderVars, queues, payVars, fulVars, notifVars>>

\* Mutant: a crashed service does not look whether the fault is gone.
PaymentTickNeverRecovers ==
  /\ "payment" \notin stopped
  /\ polls = 0
  /\ crashed' = (crashed \/ ShouldCrash(faults, "payment"))
  /\ polls' = IF crashed' THEN 0 ELSE PaymentBatch
  /\ UNCHANGED <<env, stopped, orderVars, queues, payVars, fulVars, notifVars>>

\* PaymentService.processTick, up to its polling loop: a crashed service only
\* looks whether the fault is gone, a running one crashes or starts to poll.
PaymentTick ==
  /\ "payment" \notin stopped
  /\ polls = 0
  /\ crashed' = ShouldCrash(faults, "payment")
  /\ polls' = IF crashed \/ ShouldCrash(faults, "payment") THEN 0 ELSE PaymentBatch
  /\ UNCHANGED <<env, stopped, orderVars, queues, payVars, fulVars, notifVars>>

\* One TryReceive of the loop; the message gets a goroutine of its own. The
\* loop also ends when the queue is found empty.
PaymentPoll ==
  /\ polls > 0
  /\ orderQueue # <<>>
  /\ polls' = polls - 1
  /\ orderQueue' = Tail(orderQueue)
  /\ payPc' = [payPc EXCEPT ![Head(orderQueue)] = "validate"]
  /\ UNCHANGED <<env, stopped, orderVars, paymentQueue, notifSub, paymentDLQ,
                 notifDLQ, crashed, payAttempt, fulVars, notifVars>>

PaymentPollEmpty ==
  /\ polls > 0
  /\ orderQueue = <<>>
  /\ polls' = 0
  /\ UNCHANGED <<env, stopped, orderVars, queues, crashed, payVars, fulVars, notifVars>>

\* PaymentService.processMessage, one action per stretch between two waits.
PaymentGoto(m, pc, attempt) ==
  /\ payPc' = [payPc EXCEPT ![m] = pc]
  /\ payAttempt' = [payAttempt EXCEPT ![m] = attempt]

\* Mutant: the return after the schema check is missing.
PaymentValidateFallsThrough(m) ==
  /\ payPc[m] = "validate"
  /\ PaymentGoto(m, "attempt", 1)
  /\ UNCHANGED <<env, stopped, orderVars, queues, payTicker, fulVars, notifVars>>

PaymentValidate(m) ==
  /\ payPc[m] = "validate"
  /\ PaymentGoto(m, IF m \in poisoned THEN "rejecting" ELSE "attempt", 1)
  /\ UNCHANGED <<env, stopped, orderVars, queues, payTicker, fulVars, notifVars>>

\* The processing sleep ends and the fault context is read again.
PaymentAttemptPasses(m) ==
  /\ payPc[m] = "attempt"
  /\ MayPass(faults, "payment")
  /\ PaymentGoto(m, "sending", 0)
  /\ UNCHANGED <<env, stopped, orderVars, queues, payTicker, fulVars, notifVars>>

\* Mutant: the comparison with maxAttempts is off by one, either way.
PaymentAttemptFailsLate(m) ==
  /\ payPc[m] = "attempt"
  /\ MayFail(faults, "payment")
  /\ PaymentGoto(m, IF payAttempt[m] <= PaymentMaxAttempts THEN "backoff" ELSE "exhausted",
                 payAttempt[m])
  /\ UNCHANGED <<env, stopped, orderVars, queues, payTicker, fulVars, notifVars>>

PaymentAttemptFailsEarly(m) ==
  /\ payPc[m] = "attempt"
  /\ MayFail(faults, "payment")
  /\ PaymentGoto(m, IF payAttempt[m] + 1 < PaymentMaxAttempts THEN "backoff" ELSE "exhausted",
                 payAttempt[m])
  /\ UNCHANGED <<env, stopped, orderVars, queues, payTicker, fulVars, notifVars>>

PaymentAttemptFails(m) ==
  /\ payPc[m] = "attempt"
  /\ MayFail(faults, "payment")
  /\ PaymentGoto(m, IF payAttempt[m] < PaymentMaxAttempts THEN "backoff" ELSE "exhausted",
                 payAttempt[m])
  /\ UNCHANGED <<env, stopped, orderVars, queues, payTicker, fulVars, notifVars>>

PaymentBackoffEnds(m) ==
  /\ payPc[m] = "backoff"
  /\ PaymentGoto(m, "attempt", payAttempt[m] + 1)
  /\ UNCHANGED <<env, stopped, orderVars, queues, payTicker, fulVars, notifVars>>

\* sendToPaymentQueue: the channel send on payment-queue, then the copy for the
\* notification subscription, each of which may block.
PaymentSend(m) ==
  /\ payPc[m] = "sending"
  /\ Len(paymentQueue) < QueueBufferSize
  /\ paymentQueue' = Append(paymentQueue, m)
  /\ PaymentGoto(m, "fanout", 0)
  /\ UNCHANGED <<env, stopped, orderVars, orderQueue, notifSub, paymentDLQ,
                 notifDLQ, payTicker, fulVars, notifVars>>

\* Mutant: the copy for a full subscription is dropped instead of waiting.
PaymentFanOutDropsWhenFull(m) ==
  /\ payPc[m] = "fanout"
  /\ notifSub' = IF Len(notifSub) < QueueBufferSize THEN Append(notifSub, m) ELSE notifSub
  /\ PaymentGoto(m, "paid", 0)
  /\ UNCHANGED <<env, stopped, orderVars, orderQueue, paymentQueue, paymentDLQ,
                 notifDLQ, payTicker, fulVars, notifVars>>

PaymentFanOut(m) ==
  /\ payPc[m] = "fanout"
  /\ Len(notifSub) < QueueBufferSize
  /\ notifSub' = Append(notifSub, m)
  /\ PaymentGoto(m, "paid", 0)
  /\ UNCHANGED <<env, stopped, orderVars, orderQueue, paymentQueue, paymentDLQ,
                 notifDLQ, payTicker, fulVars, notifVars>>

\* sendToDLQ, for a poisoned message or after the last attempt.
PaymentDeadLetter(m) ==
  /\ payPc[m] \in {"rejecting", "exhausted"}
  /\ Len(paymentDLQ) < QueueBufferSize
  /\ paymentDLQ' = Append(paymentDLQ,
       IF payPc[m] = "rejecting"
         THEN Letter(m, "schema_invalid", 1)
         ELSE Letter(m, "processing_error", payAttempt[m]))
  /\ PaymentGoto(m, "dead", 0)
  /\ UNCHANGED <<env, stopped, orderVars, orderQueue, paymentQueue, notifSub,
                 notifDLQ, payTicker, fulVars, notifVars>>

\* Mutant: Queue.Send does not listen to ctx.Done.
PaymentCancelledOnlyAsleep(m) ==
  /\ cancelled
  /\ payPc[m] \in {"attempt", "backoff"}
  /\ PaymentGoto(m, "dropped", 0)
  /\ UNCHANGED <<env, stopped, orderVars, queues, payTicker, fulVars, notifVars>>

\* Mutant: a send that fails on the notification copy counts as a failed send.
PaymentCancelledForgetsSend(m) ==
  /\ cancelled
  /\ payPc[m] \in {"attempt", "backoff", "sending", "fanout", "rejecting", "exhausted"}
  /\ PaymentGoto(m, "dropped", 0)
  /\ UNCHANGED <<env, stopped, orderVars, queues, payTicker, fulVars, notifVars>>

\* Every wait of the goroutine also listens to ctx.Done. What it held is lost;
\* after the send on payment-queue only the notification copy is.
PaymentCancelled(m) ==
  /\ cancelled
  /\ payPc[m] \in {"attempt", "backoff", "sending", "fanout", "rejecting", "exhausted"}
  /\ PaymentGoto(m, IF payPc[m] = "fanout" THEN "paid" ELSE "dropped", 0)
  /\ UNCHANGED <<env, stopped, orderVars, queues, payTicker, fulVars, notifVars>>

-----------------------------------------------------------------------------
\* Mutant: a polled message stays visible on the queue.
FulfillmentPollKeeps ==
  /\ "fulfillment" \notin stopped
  /\ paymentQueue # <<>>
  /\ fulPc' = [fulPc EXCEPT ![Head(paymentQueue)] = "attempt"]
  /\ fulAttempt' = [fulAttempt EXCEPT ![Head(paymentQueue)] = 1]
  /\ UNCHANGED <<env, stopped, orderVars, queues, payTicker, payVars, notifVars>>

\* FulfillmentService: processTick reads no state but the queue, so the (up to
\* three) TryReceive calls of a tick are steps like those of separate ticks.
FulfillmentPoll ==
  /\ "fulfillment" \notin stopped
  /\ paymentQueue # <<>>
  /\ paymentQueue' = Tail(paymentQueue)
  /\ fulPc' = [fulPc EXCEPT ![Head(paymentQueue)] = "attempt"]
  /\ fulAttempt' = [fulAttempt EXCEPT ![Head(paymentQueue)] = 1]
  /\ UNCHANGED <<env, stopped, orderVars, orderQueue, notifSub, paymentDLQ,
                 notifDLQ, payTicker, payVars, notifVars>>

FulfillmentGoto(m, pc, attempt) ==
  /\ fulPc' = [fulPc EXCEPT ![m] = pc]
  /\ fulAttempt' = [fulAttempt EXCEPT ![m] = attempt]
  /\ UNCHANGED <<env, stopped, orderVars, queues, payTicker, payVars, notifVars>>

FulfillmentAttemptPasses(m) ==
  /\ fulPc[m] = "attempt"
  /\ MayPass(faults, "fulfillment")
  /\ FulfillmentGoto(m, "processed", 0)

\* There is no DLQ: the last failure discards the message.
FulfillmentAttemptFails(m) ==
  /\ fulPc[m] = "attempt"
  /\ MayFail(faults, "fulfillment")
  /\ FulfillmentGoto(m, IF fulAttempt[m] < FulfillmentMaxAttempts
                          THEN "backoff" ELSE "discarded", fulAttempt[m])

FulfillmentBackoffEnds(m) ==
  /\ fulPc[m] = "backoff"
  /\ FulfillmentGoto(m, "attempt", fulAttempt[m] + 1)

FulfillmentCancelled(m) ==
  /\ cancelled
  /\ fulPc[m] \in {"attempt", "backoff"}
  /\ FulfillmentGoto(m, "dropped", 0)

-----------------------------------------------------------------------------
\* NotificationService, polling its own subscription of payment-queue.
NotificationPoll ==
  /\ "notification" \notin stopped
  /\ notifSub # <<>>
  /\ notifSub' = Tail(notifSub)
  /\ notifPc' = [notifPc EXCEPT ![Head(notifSub)] = "attempt"]
  /\ notifAttempt' = [notifAttempt EXCEPT ![Head(notifSub)] = 1]
  /\ UNCHANGED <<env, stopped, orderVars, orderQueue, paymentQueue, paymentDLQ,
                 notifDLQ, payTicker, payVars, fulVars>>

NotificationGoto(m, pc, attempt) ==
  /\ notifPc' = [notifPc EXCEPT ![m] = pc]
  /\ notifAttempt' = [notifAttempt EXCEPT ![m] = attempt]
  /\ UNCHANGED <<env, stopped, orderVars, orderQueue, paymentQueue, notifSub,
                 paymentDLQ, payTicker, payVars, fulVars>>

NotificationAttemptPasses(m) ==
  /\ notifPc[m] = "attempt"
  /\ MayPass(faults, "notification")
  /\ NotificationGoto(m, "processed", 0)
  /\ UNCHANGED notifDLQ

NotificationAttemptFails(m) ==
  /\ notifPc[m] = "attempt"
  /\ MayFail(faults, "notification")
  /\ NotificationGoto(m, IF notifAttempt[m] < NotificationMaxAttempts
                           THEN "backoff" ELSE "exhausted", notifAttempt[m])
  /\ UNCHANGED notifDLQ

NotificationBackoffEnds(m) ==
  /\ notifPc[m] = "backoff"
  /\ NotificationGoto(m, "attempt", notifAttempt[m] + 1)
  /\ UNCHANGED notifDLQ

NotificationDeadLetter(m) ==
  /\ notifPc[m] = "exhausted"
  /\ Len(notifDLQ) < QueueBufferSize
  /\ notifDLQ' = Append(notifDLQ, Letter(m, "processing_error", notifAttempt[m]))
  /\ NotificationGoto(m, "dead", 0)

NotificationCancelled(m) ==
  /\ cancelled
  /\ notifPc[m] \in {"attempt", "backoff", "exhausted"}
  /\ NotificationGoto(m, "dropped", 0)
  /\ UNCHANGED notifDLQ

-----------------------------------------------------------------------------
PaymentWorker(m) ==
  \/ PaymentValidate(m) \/ PaymentAttemptPasses(m) \/ PaymentAttemptFails(m)
  \/ PaymentBackoffEnds(m) \/ PaymentSend(m) \/ PaymentFanOut(m)
  \/ PaymentDeadLetter(m) \/ PaymentCancelled(m)

FulfillmentWorker(m) ==
  \/ FulfillmentAttemptPasses(m) \/ FulfillmentAttemptFails(m)
  \/ FulfillmentBackoffEnds(m) \/ FulfillmentCancelled(m)

NotificationWorker(m) ==
  \/ NotificationAttemptPasses(m) \/ NotificationAttemptFails(m)
  \/ NotificationBackoffEnds(m) \/ NotificationDeadLetter(m)
  \/ NotificationCancelled(m)

OrderTicker == OrderSend \/ OrderSendCancelled \/ \E m \in Messages : OrderTick(m)

PaymentTicker == PaymentTick \/ PaymentPoll \/ PaymentPollEmpty

Next ==
  \/ \E f \in InjectableFaults : Inject(f) \/ Clear(f)
  \/ Cancel \/ Restart
  \/ \E t \in Tickers : StopTicker(t)
  \/ OrderTicker \/ PaymentTicker \/ FulfillmentPoll \/ NotificationPoll
  \/ \E m \in Messages :
       PaymentWorker(m) \/ FulfillmentWorker(m) \/ NotificationWorker(m)

Spec == Init /\ [][Next]_vars

\* Tickers keep firing, timers expire and a runnable goroutine is scheduled:
\* weak fairness per goroutine. A ticker's select chooses at random between a
\* tick and ctx.Done, so a cancelled ticker that is between ticks again and
\* again does return: strong fairness. Operators owe nothing.
Fairness ==
  /\ WF_vars(OrderTicker) /\ WF_vars(PaymentTicker)
  /\ WF_vars(FulfillmentPoll) /\ WF_vars(NotificationPoll)
  /\ \A t \in Tickers : SF_vars(StopTicker(t))
  /\ \A m \in Messages : /\ WF_vars(PaymentWorker(m))
                         /\ WF_vars(FulfillmentWorker(m))
                         /\ WF_vars(NotificationWorker(m))

FairSpec == Spec /\ Fairness

\* The process until it is told to stop.
RunningSpec == Init /\ [][Next /\ ~cancelled']_vars /\ Fairness
=============================================================================
