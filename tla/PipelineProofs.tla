--------------------------- MODULE PipelineProofs ---------------------------
(***************************************************************************)
(* The pipeline's type invariant, its delivery guarantees and that it      *)
(* implements OrderFlow, for any set of orders, any buffer size and any    *)
(* number of attempts.                                                     *)
(***************************************************************************)
EXTENDS PipelineProperties, TLAPS

-----------------------------------------------------------------------------
\* A channel send adds its message to those of the queue, and repeats none that was
\* not already there (Queue.Send).
LEMMA AppendFacts ==
  ASSUME NEW S, NEW s \in Seq(S), NEW x \in S
  PROVE  /\ Append(s, x) \in Seq(S)
         /\ Elems(Append(s, x)) = Elems(s) \cup {x}
         /\ NoDuplicates(s) /\ x \notin Elems(s) => NoDuplicates(Append(s, x))
<1>1. Append(s, x) \in Seq(S)
  OBVIOUS
<1>2. /\ Len(Append(s, x)) = Len(s) + 1
      /\ \A i \in 1..Len(s) : Append(s, x)[i] = s[i]
      /\ Append(s, x)[Len(s) + 1] = x
      /\ Len(s) \in Nat
  OBVIOUS
<1>3. Elems(Append(s, x)) = Elems(s) \cup {x}
  BY <1>2 DEF Elems
<1>4. NoDuplicates(s) /\ x \notin Elems(s) => NoDuplicates(Append(s, x))
  BY <1>2 DEF Elems, NoDuplicates
<1>5. QED
  BY <1>1, <1>3, <1>4

\* A channel receive leaves the queue without its first message, which in a queue
\* without duplicates is then nowhere in it (Queue.TryReceive).
LEMMA TailFacts ==
  ASSUME NEW S, NEW s \in Seq(S), s # <<>>
  PROVE  /\ Head(s) \in S
         /\ Head(s) \in Elems(s)
         /\ Tail(s) \in Seq(S)
         /\ Elems(s) = Elems(Tail(s)) \cup {Head(s)}
         /\ NoDuplicates(s) => NoDuplicates(Tail(s)) /\ Head(s) \notin Elems(Tail(s))
<1>1. /\ Len(s) \in Nat \ {0}
      /\ Head(s) = s[1]
      /\ Tail(s) \in Seq(S)
      /\ Len(Tail(s)) = Len(s) - 1
      /\ \A i \in 1..(Len(s) - 1) : Tail(s)[i] = s[i + 1]
  OBVIOUS
<1>2. Head(s) \in S /\ Head(s) \in Elems(s)
  BY <1>1 DEF Elems
<1>3. Elems(s) = Elems(Tail(s)) \cup {Head(s)}
  <2>1. ASSUME NEW i \in 1..Len(s) PROVE s[i] \in Elems(Tail(s)) \cup {Head(s)}
    <3>1. CASE i = 1
      BY <3>1, <1>1
    <3>2. CASE i # 1
      <4>1. i - 1 \in 1..(Len(s) - 1) /\ Tail(s)[i - 1] = s[i]
        BY <3>2, <1>1
      <4>2. QED
        BY <4>1, <1>1 DEF Elems
    <3>3. QED
      BY <3>1, <3>2
  <2>2. ASSUME NEW i \in 1..Len(Tail(s)) PROVE Tail(s)[i] \in Elems(s)
    <3>1. i + 1 \in 1..Len(s) /\ Tail(s)[i] = s[i + 1]
      BY <1>1
    <3>2. QED
      BY <3>1 DEF Elems
  <2>3. QED
    BY <2>1, <2>2, <1>2 DEF Elems
<1>4. ASSUME NoDuplicates(s)
      PROVE  NoDuplicates(Tail(s)) /\ Head(s) \notin Elems(Tail(s))
  <2>1. \A i \in 1..Len(Tail(s)) : i + 1 \in 1..Len(s) /\ Tail(s)[i] = s[i + 1] /\ i + 1 # 1
    BY <1>1
  <2>2. 1 \in 1..Len(s)
    BY <1>1
  <2>3. Head(s) \notin Elems(Tail(s))
    BY <1>1, <1>4, <2>1, <2>2 DEF Elems, NoDuplicates
  <2>4. NoDuplicates(Tail(s))
    BY <1>1, <1>4, <2>1 DEF NoDuplicates
  <2>5. QED
    BY <2>3, <2>4
<1>5. QED
  BY <1>1, <1>2, <1>3, <1>4

\* A dead letter joins those of its queue and stays the only one of its message if
\* there was none (the two sendToDLQ).
LEMMA LetterFacts ==
  ASSUME NEW q \in Seq(Letters), NEW letter \in Letters
  PROVE  /\ Append(q, letter) \in Seq(Letters)
         /\ LettersOf(Append(q, letter)) = LettersOf(q) \cup {letter.msg}
         /\ OneLetterEach(q) /\ letter.msg \notin LettersOf(q)
              => OneLetterEach(Append(q, letter))
         /\ \A i \in 1..Len(Append(q, letter)) :
              \/ Append(q, letter)[i] = letter
              \/ i \in 1..Len(q) /\ Append(q, letter)[i] = q[i]
<1>1. /\ Append(q, letter) \in Seq(Letters)
      /\ Len(Append(q, letter)) = Len(q) + 1
      /\ \A i \in 1..Len(q) : Append(q, letter)[i] = q[i]
      /\ Append(q, letter)[Len(q) + 1] = letter
      /\ Len(q) \in Nat
  OBVIOUS
<1>2. LettersOf(Append(q, letter)) = LettersOf(q) \cup {letter.msg}
  BY <1>1 DEF LettersOf
<1>3. OneLetterEach(q) /\ letter.msg \notin LettersOf(q) => OneLetterEach(Append(q, letter))
  BY <1>1 DEF LettersOf, OneLetterEach
<1>4. \A i \in 1..Len(Append(q, letter)) :
        \/ Append(q, letter)[i] = letter
        \/ i \in 1..Len(q) /\ Append(q, letter)[i] = q[i]
  BY <1>1
<1>5. QED
  BY <1>1, <1>2, <1>3, <1>4
-----------------------------------------------------------------------------
\* Type correctness. An attempt counter stays in range because of the guard that
\* its "backoff" stands for, so Stages is assumed with TypeOK.
LEMMA TypeStep ==
  ASSUME TypeOK, Stages, [Next]_vars
  PROVE  TypeOK'
<1> USE PipelineAssumption
<1>1. ASSUME NEW f \in InjectableFaults, Inject(f) PROVE TypeOK'
  BY <1>1 DEF Inject, TypeOK,
       env, orderVars, queues, payTicker, payVars, fulVars, notifVars
<1>2. ASSUME NEW f \in InjectableFaults, Clear(f) PROVE TypeOK'
  BY <1>2 DEF Clear, TypeOK,
       env, orderVars, queues, payTicker, payVars, fulVars, notifVars
<1>3. ASSUME Cancel PROVE TypeOK'
  BY <1>3 DEF Cancel, TypeOK,
       env, orderVars, queues, payTicker, payVars, fulVars, notifVars
<1>4. ASSUME Restart PROVE TypeOK'
  BY <1>4 DEF Restart, TypeOK,
       env, orderVars, queues, payTicker, payVars, fulVars, notifVars
<1>5. ASSUME NEW t \in Tickers, StopTicker(t) PROVE TypeOK'
  BY <1>5 DEF StopTicker, TypeOK,
       env, orderVars, queues, payTicker, payVars, fulVars, notifVars
<1>6. ASSUME NEW m \in Messages, OrderTick(m) PROVE TypeOK'
  BY <1>6 DEF OrderTick, TypeOK,
       env, orderVars, queues, payTicker, payVars, fulVars, notifVars
<1>7. ASSUME OrderSend PROVE TypeOK'
  BY <1>7, AppendFacts DEF OrderSend, TypeOK,
       env, orderVars, queues, payTicker, payVars, fulVars, notifVars
<1>8. ASSUME OrderSendCancelled PROVE TypeOK'
  BY <1>8 DEF OrderSendCancelled, TypeOK,
       env, orderVars, queues, payTicker, payVars, fulVars, notifVars
<1>9. ASSUME PaymentTick PROVE TypeOK'
  <2>1. /\ crashed' \in BOOLEAN
        /\ polls' \in 0..PaymentBatch
    BY <1>9 DEF PaymentTick, TypeOK, ShouldCrash
  <2>2. UNCHANGED <<env, stopped, orderVars, queues, payVars, fulVars,
                  notifVars>>
    BY <1>9 DEF PaymentTick
  <2>3. QED
    BY <2>1, <2>2 DEF TypeOK, env, orderVars, queues, payTicker, payVars, fulVars, notifVars
<1>10. ASSUME PaymentPoll PROVE TypeOK'
  <2>1. orderQueue' \in Seq(Messages) /\ Head(orderQueue) \in Messages
    BY <1>10, TailFacts DEF PaymentPoll, TypeOK
  <2>2. polls' \in 0..PaymentBatch /\ payPc' \in [Messages -> PaymentPcs]
    BY <1>10, <2>1 DEF PaymentPoll, TypeOK, PaymentPcs
  <2>3. UNCHANGED <<env, stopped, orderVars, paymentQueue, notifSub,
                  paymentDLQ, notifDLQ, crashed, payAttempt,
                  fulVars, notifVars>>
    BY <1>10 DEF PaymentPoll
  <2>4. QED
    BY <2>1, <2>2, <2>3 DEF TypeOK, env, orderVars, queues, payTicker, payVars, fulVars, notifVars
<1>11. ASSUME PaymentPollEmpty PROVE TypeOK'
  BY <1>11 DEF PaymentPollEmpty, TypeOK,
       env, orderVars, queues, payTicker, payVars, fulVars, notifVars
<1>12. ASSUME NEW m \in Messages, PaymentValidate(m) PROVE TypeOK'
  BY <1>12, SMTT(30) DEF PaymentValidate, PaymentGoto, PaymentPcs, TypeOK,
       env, orderVars, queues, payTicker, payVars, fulVars, notifVars
<1>13. ASSUME NEW m \in Messages, PaymentAttemptPasses(m) PROVE TypeOK'
  BY <1>13, SMTT(30) DEF PaymentAttemptPasses, PaymentGoto, PaymentPcs, TypeOK,
       env, orderVars, queues, payTicker, payVars, fulVars, notifVars
<1>14. ASSUME NEW m \in Messages, PaymentAttemptFails(m) PROVE TypeOK'
  BY <1>14 DEF PaymentAttemptFails, PaymentGoto, PaymentPcs, TypeOK,
       env, orderVars, queues, payTicker, payVars, fulVars, notifVars
<1>15. ASSUME NEW m \in Messages, PaymentBackoffEnds(m) PROVE TypeOK'
  <2>1. payAttempt[m] < PaymentMaxAttempts
    BY <1>15 DEF PaymentBackoffEnds, TypeOK, Stages
  <2>2. /\ payPc' \in [Messages -> PaymentPcs]
        /\ payAttempt' \in [Messages -> 0..PaymentMaxAttempts]
    BY <1>15, <2>1, SMTT(30) DEF PaymentBackoffEnds, TypeOK, PaymentGoto, PaymentPcs
  <2>3. UNCHANGED <<env, stopped, orderVars, queues, payTicker, fulVars,
                  notifVars>>
    BY <1>15 DEF PaymentBackoffEnds
  <2>4. QED
    BY <2>1, <2>2, <2>3 DEF TypeOK, env, orderVars, queues, payTicker, payVars, fulVars, notifVars
<1>16. ASSUME NEW m \in Messages, PaymentSend(m) PROVE TypeOK'
  <2>1. paymentQueue' \in Seq(Messages)
    BY <1>16, AppendFacts DEF PaymentSend, TypeOK
  <2>2. /\ payPc' \in [Messages -> PaymentPcs]
        /\ payAttempt' \in [Messages -> 0..PaymentMaxAttempts]
    BY <1>16 DEF PaymentSend, TypeOK, PaymentGoto, PaymentPcs
  <2>3. UNCHANGED <<env, stopped, orderVars, orderQueue, notifSub, paymentDLQ,
                  notifDLQ, payTicker, fulVars, notifVars>>
    BY <1>16 DEF PaymentSend
  <2>4. QED
    BY <2>1, <2>2, <2>3 DEF TypeOK, env, orderVars, queues, payTicker, payVars, fulVars, notifVars
<1>17. ASSUME NEW m \in Messages, PaymentFanOut(m) PROVE TypeOK'
  <2>1. notifSub' \in Seq(Messages)
    BY <1>17, AppendFacts DEF PaymentFanOut, TypeOK
  <2>2. /\ payPc' \in [Messages -> PaymentPcs]
        /\ payAttempt' \in [Messages -> 0..PaymentMaxAttempts]
    BY <1>17 DEF PaymentFanOut, TypeOK, PaymentGoto, PaymentPcs
  <2>3. UNCHANGED <<env, stopped, orderVars, orderQueue, paymentQueue,
                  paymentDLQ, notifDLQ, payTicker, fulVars,
                  notifVars>>
    BY <1>17 DEF PaymentFanOut
  <2>4. QED
    BY <2>1, <2>2, <2>3 DEF TypeOK, env, orderVars, queues, payTicker, payVars, fulVars, notifVars
<1>18. ASSUME NEW m \in Messages, PaymentDeadLetter(m) PROVE TypeOK'
  BY <1>18, LetterFacts, SMTT(30) DEF PaymentDeadLetter, PaymentGoto, PaymentPcs, Letters, Letter, TypeOK,
       env, orderVars, queues, payTicker, payVars, fulVars, notifVars
<1>19. ASSUME NEW m \in Messages, PaymentCancelled(m) PROVE TypeOK'
  BY <1>19, SMTT(30) DEF PaymentCancelled, PaymentGoto, PaymentPcs, TypeOK,
       env, orderVars, queues, payTicker, payVars, fulVars, notifVars
<1>20. ASSUME FulfillmentPoll PROVE TypeOK'
  <2>1. paymentQueue' \in Seq(Messages) /\ Head(paymentQueue) \in Messages
    BY <1>20, TailFacts DEF FulfillmentPoll, TypeOK
  <2>2. /\ fulPc' \in [Messages -> FulfillmentPcs]
        /\ fulAttempt' \in [Messages -> 0..FulfillmentMaxAttempts]
    BY <1>20, <2>1 DEF FulfillmentPoll, TypeOK, FulfillmentPcs
  <2>3. UNCHANGED <<env, stopped, orderVars, orderQueue, notifSub, paymentDLQ,
                  notifDLQ, payTicker, payVars, notifVars>>
    BY <1>20 DEF FulfillmentPoll
  <2>4. QED
    BY <2>1, <2>2, <2>3 DEF TypeOK, env, orderVars, queues, payTicker, payVars, fulVars, notifVars
<1>21. ASSUME NEW m \in Messages, FulfillmentAttemptPasses(m) PROVE TypeOK'
  BY <1>21, SMTT(30) DEF FulfillmentAttemptPasses, FulfillmentGoto, FulfillmentPcs, TypeOK,
       env, orderVars, queues, payTicker, payVars, fulVars, notifVars
<1>22. ASSUME NEW m \in Messages, FulfillmentAttemptFails(m) PROVE TypeOK'
  BY <1>22 DEF FulfillmentAttemptFails, FulfillmentGoto, FulfillmentPcs, TypeOK,
       env, orderVars, queues, payTicker, payVars, fulVars, notifVars
<1>23. ASSUME NEW m \in Messages, FulfillmentBackoffEnds(m) PROVE TypeOK'
  BY <1>23, SMTT(30) DEF FulfillmentBackoffEnds, FulfillmentGoto, FulfillmentPcs, Stages, TypeOK,
       env, orderVars, queues, payTicker, payVars, fulVars, notifVars
<1>24. ASSUME NEW m \in Messages, FulfillmentCancelled(m) PROVE TypeOK'
  BY <1>24, SMTT(30) DEF FulfillmentCancelled, FulfillmentGoto, FulfillmentPcs, TypeOK,
       env, orderVars, queues, payTicker, payVars, fulVars, notifVars
<1>25. ASSUME NotificationPoll PROVE TypeOK'
  <2>1. notifSub' \in Seq(Messages) /\ Head(notifSub) \in Messages
    BY <1>25, TailFacts DEF NotificationPoll, TypeOK
  <2>2. /\ notifPc' \in [Messages -> NotificationPcs]
        /\ notifAttempt' \in [Messages -> 0..NotificationMaxAttempts]
    BY <1>25, <2>1 DEF NotificationPoll, TypeOK, NotificationPcs
  <2>3. UNCHANGED <<env, stopped, orderVars, orderQueue, paymentQueue,
                  paymentDLQ, notifDLQ, payTicker, payVars,
                  fulVars>>
    BY <1>25 DEF NotificationPoll
  <2>4. QED
    BY <2>1, <2>2, <2>3 DEF TypeOK, env, orderVars, queues, payTicker, payVars, fulVars, notifVars
<1>26. ASSUME NEW m \in Messages, NotificationAttemptPasses(m) PROVE TypeOK'
  BY <1>26, SMTT(30) DEF NotificationAttemptPasses, NotificationGoto, NotificationPcs, TypeOK,
       env, orderVars, queues, payTicker, payVars, fulVars, notifVars
<1>27. ASSUME NEW m \in Messages, NotificationAttemptFails(m) PROVE TypeOK'
  BY <1>27 DEF NotificationAttemptFails, NotificationGoto, NotificationPcs, TypeOK,
       env, orderVars, queues, payTicker, payVars, fulVars, notifVars
<1>28. ASSUME NEW m \in Messages, NotificationBackoffEnds(m) PROVE TypeOK'
  BY <1>28, SMTT(30) DEF NotificationBackoffEnds, NotificationGoto, NotificationPcs, Stages, TypeOK,
       env, orderVars, queues, payTicker, payVars, fulVars, notifVars
<1>29. ASSUME NEW m \in Messages, NotificationDeadLetter(m) PROVE TypeOK'
  <2>1. notifDLQ' \in Seq(Letters)
    BY <1>29, LetterFacts DEF NotificationDeadLetter, TypeOK, Letter, Letters
  <2>2. /\ notifPc' \in [Messages -> NotificationPcs]
        /\ notifAttempt' \in [Messages -> 0..NotificationMaxAttempts]
    BY <1>29 DEF NotificationDeadLetter, TypeOK, NotificationGoto, NotificationPcs
  <2>3. UNCHANGED <<env, stopped, orderVars, orderQueue, paymentQueue,
                  notifSub, paymentDLQ, payTicker, payVars,
                  fulVars>>
    BY <1>29 DEF NotificationDeadLetter, NotificationGoto
  <2>4. QED
    BY <2>1, <2>2, <2>3 DEF TypeOK, env, orderVars, queues, payTicker, payVars, fulVars, notifVars
<1>30. ASSUME NEW m \in Messages, NotificationCancelled(m) PROVE TypeOK'
  BY <1>30, SMTT(30) DEF NotificationCancelled, NotificationGoto, NotificationPcs, TypeOK,
       env, orderVars, queues, payTicker, payVars, fulVars, notifVars
<1>31. CASE UNCHANGED vars
  BY <1>31 DEF vars, TypeOK, env, orderVars, queues, payTicker, payVars, fulVars, notifVars
<1>32. QED
  BY <1>1, <1>2, <1>3, <1>4, <1>5, <1>6, <1>7, <1>8, <1>9, <1>10, <1>11,
     <1>12, <1>13, <1>14, <1>15, <1>16, <1>17, <1>18, <1>19, <1>20, <1>21,
     <1>22, <1>23, <1>24, <1>25, <1>26, <1>27, <1>28, <1>29, <1>30, <1>31
     DEF Next, OrderTicker, PaymentTicker, PaymentWorker, FulfillmentWorker,
         NotificationWorker
-----------------------------------------------------------------------------
\* Every step keeps the facts that belong to a stage: only built messages are in
\* payment, only unpoisoned ones get past validation, and a goroutine backs off or
\* gives up after the number of attempts that says so (the processMessage loops).
LEMMA StagesStep ==
  ASSUME TypeOK, Stages, OneOwner, OnlyPaidOrdersShip, [Next]_vars
  PROVE  Stages'
<1> USE PipelineAssumption
<1>a. /\ payPc \in [Messages -> PaymentPcs] /\ fulPc \in [Messages -> FulfillmentPcs]
      /\ notifPc \in [Messages -> NotificationPcs]
      /\ payAttempt \in [Messages -> 0..PaymentMaxAttempts]
      /\ fulAttempt \in [Messages -> 0..FulfillmentMaxAttempts]
      /\ notifAttempt \in [Messages -> 0..NotificationMaxAttempts]
  BY DEF TypeOK
<1>b. /\ orderQueue \in Seq(Messages) /\ paymentQueue \in Seq(Messages)
      /\ notifSub \in Seq(Messages)
      /\ paymentDLQ \in Seq(Letters) /\ notifDLQ \in Seq(Letters)
  BY DEF TypeOK
<1>1. ASSUME NEW f \in InjectableFaults, Inject(f) PROVE Stages'
  BY <1>a, <1>1 DEF Inject, Stages, InOrderStage, env, orderVars, queues, payTicker,
       payVars, fulVars, notifVars
<1>2. ASSUME NEW f \in InjectableFaults, Clear(f) PROVE Stages'
  BY <1>a, <1>2 DEF Clear, Stages, InOrderStage, env, orderVars, queues, payTicker,
       payVars, fulVars, notifVars
<1>3. ASSUME Cancel PROVE Stages'
  BY <1>a, <1>3 DEF Cancel, Stages, InOrderStage, env, orderVars, queues, payTicker,
       payVars, fulVars, notifVars
<1>4. ASSUME Restart PROVE Stages'
  BY <1>a, <1>4 DEF Restart, Stages, InOrderStage, env, orderVars, queues,
       payTicker, payVars, fulVars, notifVars
<1>5. ASSUME NEW t \in Tickers, StopTicker(t) PROVE Stages'
  BY <1>a, <1>5 DEF StopTicker, Stages, InOrderStage, env, orderVars, queues,
       payTicker, payVars, fulVars, notifVars
<1>6. ASSUME NEW m \in Messages, OrderTick(m) PROVE Stages'
  BY <1>a, <1>6, PipelineAssumption DEF OrderTick, Stages, InOrderStage, env,
       orderVars, queues, payTicker, payVars, fulVars, notifVars
<1>7. ASSUME OrderSend PROVE Stages'
  <2>1. /\ Elems(orderQueue') = Elems(orderQueue) \cup {orderSending}
        /\ NoDuplicates(orderQueue) /\ orderSending \notin Elems(orderQueue) => NoDuplicates(orderQueue')
    BY <1>b, <1>7, AppendFacts DEF OrderSend, TypeOK
  <2>2. QED
    BY <1>a, <1>7, <2>1 DEF OrderSend, Stages, InOrderStage, env, orderVars, queues,
       payTicker, payVars, fulVars, notifVars
<1>8. ASSUME OrderSendCancelled PROVE Stages'
  BY <1>a, <1>8 DEF OrderSendCancelled, Stages, InOrderStage, env, orderVars,
       queues, payTicker, payVars, fulVars, notifVars
<1>9. ASSUME PaymentTick PROVE Stages'
  BY <1>a, <1>9 DEF PaymentTick, Stages, InOrderStage, env, orderVars, queues,
       payTicker, payVars, fulVars, notifVars
<1>10. ASSUME PaymentPoll PROVE Stages'
  <2>1. /\ Head(orderQueue) \in Messages
        /\ Elems(orderQueue) = Elems(orderQueue') \cup {Head(orderQueue)}
        /\ NoDuplicates(orderQueue) => NoDuplicates(orderQueue') /\ Head(orderQueue) \notin Elems(orderQueue')
    BY <1>b, <1>10, TailFacts DEF PaymentPoll
  <2>2. QED
    BY <1>a, <1>10, <2>1 DEF PaymentPoll, Stages, InOrderStage, env, orderVars,
       queues, payTicker, payVars, fulVars, notifVars
<1>11. ASSUME PaymentPollEmpty PROVE Stages'
  BY <1>a, <1>11 DEF PaymentPollEmpty, Stages, InOrderStage, env, orderVars, queues,
       payTicker, payVars, fulVars, notifVars
<1>12. ASSUME NEW m \in Messages, PaymentValidate(m) PROVE Stages'
  BY <1>a, <1>12 DEF PaymentValidate, PaymentGoto, Stages, InOrderStage, env,
       orderVars, queues, payTicker, payVars, fulVars, notifVars
<1>13. ASSUME NEW m \in Messages, PaymentAttemptPasses(m) PROVE Stages'
  BY <1>a, <1>13 DEF PaymentAttemptPasses, PaymentGoto, Stages, InOrderStage, env,
       orderVars, queues, payTicker, payVars, fulVars, notifVars
<1>14. ASSUME NEW m \in Messages, PaymentAttemptFails(m) PROVE Stages'
  BY <1>a, <1>14 DEF PaymentAttemptFails, PaymentGoto, Stages, InOrderStage, env,
       orderVars, queues, payTicker, payVars, fulVars, notifVars
<1>15. ASSUME NEW m \in Messages, PaymentBackoffEnds(m) PROVE Stages'
  BY <1>a, <1>15 DEF PaymentBackoffEnds, PaymentGoto, Stages, InOrderStage, env,
       orderVars, queues, payTicker, payVars, fulVars, notifVars
<1>16. ASSUME NEW m \in Messages, PaymentSend(m) PROVE Stages'
  <2>1. /\ Elems(paymentQueue') = Elems(paymentQueue) \cup {m}
        /\ NoDuplicates(paymentQueue) /\ m \notin Elems(paymentQueue) => NoDuplicates(paymentQueue')
    BY <1>b, <1>16, AppendFacts DEF PaymentSend
  <2>2. QED
    BY <1>a, <1>16, <2>1 DEF PaymentSend, PaymentGoto, Stages, InOrderStage, env,
       orderVars, queues, payTicker, payVars, fulVars, notifVars
<1>17. ASSUME NEW m \in Messages, PaymentFanOut(m) PROVE Stages'
  <2>1. /\ Elems(notifSub') = Elems(notifSub) \cup {m}
        /\ NoDuplicates(notifSub) /\ m \notin Elems(notifSub) => NoDuplicates(notifSub')
    BY <1>b, <1>17, AppendFacts DEF PaymentFanOut
  <2>2. QED
    BY <1>a, <1>17, <2>1 DEF PaymentFanOut, PaymentGoto, Stages, InOrderStage, env,
       orderVars, queues, payTicker, payVars, fulVars, notifVars
<1>18. ASSUME NEW m \in Messages, PaymentDeadLetter(m) PROVE Stages'
  BY <1>a, <1>18 DEF PaymentDeadLetter, PaymentGoto, Stages, InOrderStage, env,
       orderVars, queues, payTicker, payVars, fulVars, notifVars
<1>19. ASSUME NEW m \in Messages, PaymentCancelled(m) PROVE Stages'
  BY <1>a, <1>19 DEF PaymentCancelled, PaymentGoto, Stages, InOrderStage, env,
       orderVars, queues, payTicker, payVars, fulVars, notifVars
<1>20. ASSUME FulfillmentPoll PROVE Stages'
  <2>1. /\ Head(paymentQueue) \in Messages
        /\ Elems(paymentQueue) = Elems(paymentQueue') \cup {Head(paymentQueue)}
        /\ NoDuplicates(paymentQueue) => NoDuplicates(paymentQueue') /\ Head(paymentQueue) \notin Elems(paymentQueue')
    BY <1>b, <1>20, TailFacts DEF FulfillmentPoll
  <2>2. QED
    BY <1>a, <1>20, <2>1 DEF FulfillmentPoll, Stages, InOrderStage, env, orderVars,
       queues, payTicker, payVars, fulVars, notifVars
<1>21. ASSUME NEW m \in Messages, FulfillmentAttemptPasses(m) PROVE Stages'
  BY <1>a, <1>21 DEF FulfillmentAttemptPasses, FulfillmentGoto, Stages,
       InOrderStage, env, orderVars, queues, payTicker, payVars, fulVars, notifVars
<1>22. ASSUME NEW m \in Messages, FulfillmentAttemptFails(m) PROVE Stages'
  BY <1>a, <1>22 DEF FulfillmentAttemptFails, FulfillmentGoto, Stages, InOrderStage,
       env, orderVars, queues, payTicker, payVars, fulVars, notifVars
<1>23. ASSUME NEW m \in Messages, FulfillmentBackoffEnds(m) PROVE Stages'
  BY <1>a, <1>23 DEF FulfillmentBackoffEnds, FulfillmentGoto, Stages, InOrderStage,
       env, orderVars, queues, payTicker, payVars, fulVars, notifVars
<1>24. ASSUME NEW m \in Messages, FulfillmentCancelled(m) PROVE Stages'
  BY <1>a, <1>24 DEF FulfillmentCancelled, FulfillmentGoto, Stages, InOrderStage,
       env, orderVars, queues, payTicker, payVars, fulVars, notifVars
<1>25. ASSUME NotificationPoll PROVE Stages'
  <2>1. /\ Head(notifSub) \in Messages
        /\ Elems(notifSub) = Elems(notifSub') \cup {Head(notifSub)}
        /\ NoDuplicates(notifSub) => NoDuplicates(notifSub') /\ Head(notifSub) \notin Elems(notifSub')
    BY <1>b, <1>25, TailFacts DEF NotificationPoll
  <2>2. QED
    BY <1>a, <1>25, <2>1 DEF NotificationPoll, Stages, InOrderStage, env, orderVars,
       queues, payTicker, payVars, fulVars, notifVars
<1>26. ASSUME NEW m \in Messages, NotificationAttemptPasses(m) PROVE Stages'
  BY <1>a, <1>26 DEF NotificationAttemptPasses, NotificationGoto, Stages,
       InOrderStage, env, orderVars, queues, payTicker, payVars, fulVars, notifVars
<1>27. ASSUME NEW m \in Messages, NotificationAttemptFails(m) PROVE Stages'
  BY <1>a, <1>27 DEF NotificationAttemptFails, NotificationGoto, Stages,
       InOrderStage, env, orderVars, queues, payTicker, payVars, fulVars, notifVars
<1>28. ASSUME NEW m \in Messages, NotificationBackoffEnds(m) PROVE Stages'
  BY <1>a, <1>28 DEF NotificationBackoffEnds, NotificationGoto, Stages,
       InOrderStage, env, orderVars, queues, payTicker, payVars, fulVars, notifVars
<1>29. ASSUME NEW m \in Messages, NotificationDeadLetter(m) PROVE Stages'
  BY <1>a, <1>29 DEF NotificationDeadLetter, NotificationGoto, Stages, InOrderStage,
       env, orderVars, queues, payTicker, payVars, fulVars, notifVars
<1>30. ASSUME NEW m \in Messages, NotificationCancelled(m) PROVE Stages'
  BY <1>a, <1>30 DEF NotificationCancelled, NotificationGoto, Stages, InOrderStage,
       env, orderVars, queues, payTicker, payVars, fulVars, notifVars
<1>31. CASE UNCHANGED vars
  BY <1>31 DEF vars, Stages, InOrderStage, env, orderVars, queues, payTicker,
       payVars, fulVars, notifVars
<1>32. QED
  BY <1>1, <1>2, <1>3, <1>4, <1>5, <1>6, <1>7, <1>8, <1>9, <1>10, <1>11,
     <1>12, <1>13, <1>14, <1>15, <1>16, <1>17, <1>18, <1>19, <1>20, <1>21,
     <1>22, <1>23, <1>24, <1>25, <1>26, <1>27, <1>28, <1>29, <1>30, <1>31
     DEF Next, OrderTicker, PaymentTicker, PaymentWorker, FulfillmentWorker,
         NotificationWorker

\* Every step hands a message from one owner to the next and leaves no copy behind:
\* a send adds one that no goroutine has had, a receive removes what it starts.
LEMMA OneOwnerStep ==
  ASSUME TypeOK, Stages, OneOwner, OnlyPaidOrdersShip, [Next]_vars
  PROVE  OneOwner'
<1> USE PipelineAssumption
<1>a. /\ payPc \in [Messages -> PaymentPcs] /\ fulPc \in [Messages -> FulfillmentPcs]
      /\ notifPc \in [Messages -> NotificationPcs]
      /\ payAttempt \in [Messages -> 0..PaymentMaxAttempts]
      /\ fulAttempt \in [Messages -> 0..FulfillmentMaxAttempts]
      /\ notifAttempt \in [Messages -> 0..NotificationMaxAttempts]
  BY DEF TypeOK
<1>b. /\ orderQueue \in Seq(Messages) /\ paymentQueue \in Seq(Messages)
      /\ notifSub \in Seq(Messages)
      /\ paymentDLQ \in Seq(Letters) /\ notifDLQ \in Seq(Letters)
  BY DEF TypeOK
<1>1. ASSUME NEW f \in InjectableFaults, Inject(f) PROVE OneOwner'
  BY <1>a, <1>1 DEF Inject, OneOwner, InOrderStage, env, orderVars, queues,
       payTicker, payVars, fulVars, notifVars
<1>2. ASSUME NEW f \in InjectableFaults, Clear(f) PROVE OneOwner'
  BY <1>a, <1>2 DEF Clear, OneOwner, InOrderStage, env, orderVars, queues,
       payTicker, payVars, fulVars, notifVars
<1>3. ASSUME Cancel PROVE OneOwner'
  BY <1>a, <1>3 DEF Cancel, OneOwner, InOrderStage, env, orderVars, queues,
       payTicker, payVars, fulVars, notifVars
<1>4. ASSUME Restart PROVE OneOwner'
  BY <1>a, <1>4 DEF Restart, OneOwner, InOrderStage, env, orderVars, queues,
       payTicker, payVars, fulVars, notifVars
<1>5. ASSUME NEW t \in Tickers, StopTicker(t) PROVE OneOwner'
  BY <1>a, <1>5 DEF StopTicker, OneOwner, InOrderStage, env, orderVars, queues,
       payTicker, payVars, fulVars, notifVars
<1>6. ASSUME NEW m \in Messages, OrderTick(m) PROVE OneOwner'
  <2>1. ~InOrderStage(m) /\ payPc[m] = "none"
    BY <1>6 DEF OrderTick, Stages
  <2>2. QED
    BY <1>a, <1>6, <2>1 DEF OrderTick, OneOwner, InOrderStage, env, orderVars, queues,
       payTicker, payVars, fulVars, notifVars
<1>7. ASSUME OrderSend PROVE OneOwner'
  <2>1. orderSending \in Messages
    BY <1>7 DEF OrderSend, TypeOK
  <2>2. orderSending \notin Elems(orderQueue) /\ payPc[orderSending] = "none"
    BY <2>1 DEF OneOwner, InOrderStage
  <2>3. /\ Elems(orderQueue') = Elems(orderQueue) \cup {orderSending}
        /\ NoDuplicates(orderQueue')
    BY <1>b, <1>7, <2>1, <2>2, AppendFacts DEF OrderSend, OneOwner
  <2>4. orderSending' \notin Messages
    BY <1>7, PipelineAssumption DEF OrderSend
  <2>5. UNCHANGED <<paymentQueue, notifSub, payPc, fulPc, notifPc>>
    BY <1>7 DEF OrderSend, payVars, fulVars, notifVars
  <2>6. QED
    BY <2>2, <2>3, <2>4, <2>5 DEF OneOwner, InOrderStage
<1>8. ASSUME OrderSendCancelled PROVE OneOwner'
  BY <1>a, <1>8 DEF OrderSendCancelled, OneOwner, InOrderStage, env, orderVars,
       queues, payTicker, payVars, fulVars, notifVars
<1>9. ASSUME PaymentTick PROVE OneOwner'
  BY <1>a, <1>9 DEF PaymentTick, OneOwner, InOrderStage, env, orderVars, queues,
       payTicker, payVars, fulVars, notifVars
<1>10. ASSUME PaymentPoll PROVE OneOwner'
  <2>1. /\ Head(orderQueue) \in Messages
        /\ Elems(orderQueue) = Elems(orderQueue') \cup {Head(orderQueue)}
        /\ NoDuplicates(orderQueue) => NoDuplicates(orderQueue') /\ Head(orderQueue) \notin Elems(orderQueue')
    BY <1>b, <1>10, TailFacts DEF PaymentPoll
  <2>2. QED
    BY <1>a, <1>10, <2>1 DEF PaymentPoll, OneOwner, InOrderStage, env, orderVars,
       queues, payTicker, payVars, fulVars, notifVars
<1>11. ASSUME PaymentPollEmpty PROVE OneOwner'
  BY <1>a, <1>11 DEF PaymentPollEmpty, OneOwner, InOrderStage, env, orderVars,
       queues, payTicker, payVars, fulVars, notifVars
<1>12. ASSUME NEW m \in Messages, PaymentValidate(m) PROVE OneOwner'
  BY <1>a, <1>12 DEF PaymentValidate, PaymentGoto, OneOwner, InOrderStage, env,
       orderVars, queues, payTicker, payVars, fulVars, notifVars
<1>13. ASSUME NEW m \in Messages, PaymentAttemptPasses(m) PROVE OneOwner'
  BY <1>a, <1>13 DEF PaymentAttemptPasses, PaymentGoto, OneOwner, InOrderStage, env,
       orderVars, queues, payTicker, payVars, fulVars, notifVars
<1>14. ASSUME NEW m \in Messages, PaymentAttemptFails(m) PROVE OneOwner'
  BY <1>a, <1>14 DEF PaymentAttemptFails, PaymentGoto, OneOwner, InOrderStage, env,
       orderVars, queues, payTicker, payVars, fulVars, notifVars
<1>15. ASSUME NEW m \in Messages, PaymentBackoffEnds(m) PROVE OneOwner'
  BY <1>a, <1>15 DEF PaymentBackoffEnds, PaymentGoto, OneOwner, InOrderStage, env,
       orderVars, queues, payTicker, payVars, fulVars, notifVars
<1>16. ASSUME NEW m \in Messages, PaymentSend(m) PROVE OneOwner'
  <2>1. m \notin Elems(paymentQueue) /\ fulPc[m] = "none"
    BY <1>16 DEF PaymentSend, OnlyPaidOrdersShip
  <2>2. /\ Elems(paymentQueue') = Elems(paymentQueue) \cup {m}
        /\ NoDuplicates(paymentQueue')
    BY <1>b, <1>16, <2>1, AppendFacts DEF PaymentSend, OneOwner
  <2>3. payPc' = [payPc EXCEPT ![m] = "fanout"] /\ payPc[m] = "sending"
    BY <1>16 DEF PaymentSend, PaymentGoto
  <2>4. UNCHANGED <<orderSending, orderQueue, notifSub, fulPc, notifPc>>
    BY <1>16 DEF PaymentSend, orderVars, fulVars, notifVars
  <2>5. QED
    BY <1>a, <2>1, <2>2, <2>3, <2>4 DEF OneOwner, InOrderStage
<1>17. ASSUME NEW m \in Messages, PaymentFanOut(m) PROVE OneOwner'
  <2>1. m \notin Elems(notifSub) /\ notifPc[m] = "none"
    BY <1>17 DEF PaymentFanOut, OnlyPaidOrdersShip
  <2>2. /\ Elems(notifSub') = Elems(notifSub) \cup {m}
        /\ NoDuplicates(notifSub')
    BY <1>b, <1>17, <2>1, AppendFacts DEF PaymentFanOut, OneOwner
  <2>3. payPc' = [payPc EXCEPT ![m] = "paid"] /\ payPc[m] = "fanout"
    BY <1>17 DEF PaymentFanOut, PaymentGoto
  <2>4. UNCHANGED <<orderSending, orderQueue, paymentQueue, fulPc, notifPc>>
    BY <1>17 DEF PaymentFanOut, orderVars, fulVars, notifVars
  <2>5. QED
    BY <1>a, <2>1, <2>2, <2>3, <2>4 DEF OneOwner, InOrderStage
<1>18. ASSUME NEW m \in Messages, PaymentDeadLetter(m) PROVE OneOwner'
  BY <1>a, <1>18 DEF PaymentDeadLetter, PaymentGoto, OneOwner, InOrderStage, env,
       orderVars, queues, payTicker, payVars, fulVars, notifVars
<1>19. ASSUME NEW m \in Messages, PaymentCancelled(m) PROVE OneOwner'
  BY <1>a, <1>19 DEF PaymentCancelled, PaymentGoto, OneOwner, InOrderStage, env,
       orderVars, queues, payTicker, payVars, fulVars, notifVars
<1>20. ASSUME FulfillmentPoll PROVE OneOwner'
  <2>1. /\ Head(paymentQueue) \in Messages
        /\ Elems(paymentQueue) = Elems(paymentQueue') \cup {Head(paymentQueue)}
        /\ NoDuplicates(paymentQueue) => NoDuplicates(paymentQueue') /\ Head(paymentQueue) \notin Elems(paymentQueue')
    BY <1>b, <1>20, TailFacts DEF FulfillmentPoll
  <2>2. QED
    BY <1>a, <1>20, <2>1 DEF FulfillmentPoll, OneOwner, InOrderStage, env,
       orderVars, queues, payTicker, payVars, fulVars, notifVars
<1>21. ASSUME NEW m \in Messages, FulfillmentAttemptPasses(m) PROVE OneOwner'
  BY <1>a, <1>21 DEF FulfillmentAttemptPasses, FulfillmentGoto, OneOwner,
       InOrderStage, env, orderVars, queues, payTicker, payVars, fulVars, notifVars
<1>22. ASSUME NEW m \in Messages, FulfillmentAttemptFails(m) PROVE OneOwner'
  BY <1>a, <1>22 DEF FulfillmentAttemptFails, FulfillmentGoto, OneOwner,
       InOrderStage, env, orderVars, queues, payTicker, payVars, fulVars, notifVars
<1>23. ASSUME NEW m \in Messages, FulfillmentBackoffEnds(m) PROVE OneOwner'
  BY <1>a, <1>23 DEF FulfillmentBackoffEnds, FulfillmentGoto, OneOwner,
       InOrderStage, env, orderVars, queues, payTicker, payVars, fulVars, notifVars
<1>24. ASSUME NEW m \in Messages, FulfillmentCancelled(m) PROVE OneOwner'
  BY <1>a, <1>24 DEF FulfillmentCancelled, FulfillmentGoto, OneOwner, InOrderStage,
       env, orderVars, queues, payTicker, payVars, fulVars, notifVars
<1>25. ASSUME NotificationPoll PROVE OneOwner'
  <2>1. /\ Head(notifSub) \in Messages
        /\ Elems(notifSub) = Elems(notifSub') \cup {Head(notifSub)}
        /\ NoDuplicates(notifSub) => NoDuplicates(notifSub') /\ Head(notifSub) \notin Elems(notifSub')
    BY <1>b, <1>25, TailFacts DEF NotificationPoll
  <2>2. QED
    BY <1>a, <1>25, <2>1 DEF NotificationPoll, OneOwner, InOrderStage, env,
       orderVars, queues, payTicker, payVars, fulVars, notifVars
<1>26. ASSUME NEW m \in Messages, NotificationAttemptPasses(m) PROVE OneOwner'
  BY <1>a, <1>26 DEF NotificationAttemptPasses, NotificationGoto, OneOwner,
       InOrderStage, env, orderVars, queues, payTicker, payVars, fulVars, notifVars
<1>27. ASSUME NEW m \in Messages, NotificationAttemptFails(m) PROVE OneOwner'
  BY <1>a, <1>27 DEF NotificationAttemptFails, NotificationGoto, OneOwner,
       InOrderStage, env, orderVars, queues, payTicker, payVars, fulVars, notifVars
<1>28. ASSUME NEW m \in Messages, NotificationBackoffEnds(m) PROVE OneOwner'
  BY <1>a, <1>28 DEF NotificationBackoffEnds, NotificationGoto, OneOwner,
       InOrderStage, env, orderVars, queues, payTicker, payVars, fulVars, notifVars
<1>29. ASSUME NEW m \in Messages, NotificationDeadLetter(m) PROVE OneOwner'
  BY <1>a, <1>29 DEF NotificationDeadLetter, NotificationGoto, OneOwner,
       InOrderStage, env, orderVars, queues, payTicker, payVars, fulVars, notifVars
<1>30. ASSUME NEW m \in Messages, NotificationCancelled(m) PROVE OneOwner'
  BY <1>a, <1>30 DEF NotificationCancelled, NotificationGoto, OneOwner,
       InOrderStage, env, orderVars, queues, payTicker, payVars, fulVars, notifVars
<1>31. CASE UNCHANGED vars
  BY <1>31 DEF vars, OneOwner, InOrderStage, env, orderVars, queues, payTicker,
       payVars, fulVars, notifVars
<1>32. QED
  BY <1>1, <1>2, <1>3, <1>4, <1>5, <1>6, <1>7, <1>8, <1>9, <1>10, <1>11,
     <1>12, <1>13, <1>14, <1>15, <1>16, <1>17, <1>18, <1>19, <1>20, <1>21,
     <1>22, <1>23, <1>24, <1>25, <1>26, <1>27, <1>28, <1>29, <1>30, <1>31
     DEF Next, OrderTicker, PaymentTicker, PaymentWorker, FulfillmentWorker,
         NotificationWorker

\* Every step keeps fulfillment and notification to orders that passed payment: the
\* only sends on their queues are those of a goroutine that has just passed.
LEMMA OnlyPaidStep ==
  ASSUME TypeOK, Stages, OneOwner, OnlyPaidOrdersShip, [Next]_vars
  PROVE  OnlyPaidOrdersShip'
<1> USE PipelineAssumption
<1>a. /\ payPc \in [Messages -> PaymentPcs] /\ fulPc \in [Messages -> FulfillmentPcs]
      /\ notifPc \in [Messages -> NotificationPcs]
      /\ payAttempt \in [Messages -> 0..PaymentMaxAttempts]
      /\ fulAttempt \in [Messages -> 0..FulfillmentMaxAttempts]
      /\ notifAttempt \in [Messages -> 0..NotificationMaxAttempts]
  BY DEF TypeOK
<1>b. /\ orderQueue \in Seq(Messages) /\ paymentQueue \in Seq(Messages)
      /\ notifSub \in Seq(Messages)
      /\ paymentDLQ \in Seq(Letters) /\ notifDLQ \in Seq(Letters)
  BY DEF TypeOK
<1>1. ASSUME NEW f \in InjectableFaults, Inject(f) PROVE OnlyPaidOrdersShip'
  BY <1>a, <1>1 DEF Inject, OnlyPaidOrdersShip, env, orderVars, queues, payTicker,
       payVars, fulVars, notifVars
<1>2. ASSUME NEW f \in InjectableFaults, Clear(f) PROVE OnlyPaidOrdersShip'
  BY <1>a, <1>2 DEF Clear, OnlyPaidOrdersShip, env, orderVars, queues, payTicker,
       payVars, fulVars, notifVars
<1>3. ASSUME Cancel PROVE OnlyPaidOrdersShip'
  BY <1>a, <1>3 DEF Cancel, OnlyPaidOrdersShip, env, orderVars, queues, payTicker,
       payVars, fulVars, notifVars
<1>4. ASSUME Restart PROVE OnlyPaidOrdersShip'
  BY <1>a, <1>4 DEF Restart, OnlyPaidOrdersShip, env, orderVars, queues, payTicker,
       payVars, fulVars, notifVars
<1>5. ASSUME NEW t \in Tickers, StopTicker(t) PROVE OnlyPaidOrdersShip'
  BY <1>a, <1>5 DEF StopTicker, OnlyPaidOrdersShip, env, orderVars, queues,
       payTicker, payVars, fulVars, notifVars
<1>6. ASSUME NEW m \in Messages, OrderTick(m) PROVE OnlyPaidOrdersShip'
  BY <1>a, <1>6 DEF OrderTick, OnlyPaidOrdersShip, env, orderVars, queues,
       payTicker, payVars, fulVars, notifVars
<1>7. ASSUME OrderSend PROVE OnlyPaidOrdersShip'
  <2>1. /\ Elems(orderQueue') = Elems(orderQueue) \cup {orderSending}
        /\ NoDuplicates(orderQueue) /\ orderSending \notin Elems(orderQueue) => NoDuplicates(orderQueue')
    BY <1>b, <1>7, AppendFacts DEF OrderSend, TypeOK
  <2>2. QED
    BY <1>a, <1>7, <2>1 DEF OrderSend, OnlyPaidOrdersShip, env, orderVars, queues,
       payTicker, payVars, fulVars, notifVars
<1>8. ASSUME OrderSendCancelled PROVE OnlyPaidOrdersShip'
  BY <1>a, <1>8 DEF OrderSendCancelled, OnlyPaidOrdersShip, env, orderVars, queues,
       payTicker, payVars, fulVars, notifVars
<1>9. ASSUME PaymentTick PROVE OnlyPaidOrdersShip'
  BY <1>a, <1>9 DEF PaymentTick, OnlyPaidOrdersShip, env, orderVars, queues,
       payTicker, payVars, fulVars, notifVars
<1>10. ASSUME PaymentPoll PROVE OnlyPaidOrdersShip'
  <2>1. Head(orderQueue) \in Messages /\ payPc[Head(orderQueue)] = "none"
    BY <1>b, <1>10, TailFacts DEF PaymentPoll, OneOwner, InOrderStage
  <2>2. payPc' = [payPc EXCEPT ![Head(orderQueue)] = "validate"]
    BY <1>10 DEF PaymentPoll
  <2>3. UNCHANGED <<born, poisoned, paymentQueue, notifSub, fulPc, notifPc>>
    BY <1>10 DEF PaymentPoll, orderVars, fulVars, notifVars
  <2>4. QED
    BY <1>a, <2>1, <2>2, <2>3 DEF OnlyPaidOrdersShip
<1>11. ASSUME PaymentPollEmpty PROVE OnlyPaidOrdersShip'
  BY <1>a, <1>11 DEF PaymentPollEmpty, OnlyPaidOrdersShip, env, orderVars, queues,
       payTicker, payVars, fulVars, notifVars
<1>12. ASSUME NEW m \in Messages, PaymentValidate(m) PROVE OnlyPaidOrdersShip'
  BY <1>a, <1>12 DEF PaymentValidate, PaymentGoto, OnlyPaidOrdersShip, env,
       orderVars, queues, payTicker, payVars, fulVars, notifVars
<1>13. ASSUME NEW m \in Messages, PaymentAttemptPasses(m) PROVE OnlyPaidOrdersShip'
  BY <1>a, <1>13 DEF PaymentAttemptPasses, PaymentGoto, OnlyPaidOrdersShip, env,
       orderVars, queues, payTicker, payVars, fulVars, notifVars
<1>14. ASSUME NEW m \in Messages, PaymentAttemptFails(m) PROVE OnlyPaidOrdersShip'
  BY <1>a, <1>14 DEF PaymentAttemptFails, PaymentGoto, OnlyPaidOrdersShip, env,
       orderVars, queues, payTicker, payVars, fulVars, notifVars
<1>15. ASSUME NEW m \in Messages, PaymentBackoffEnds(m) PROVE OnlyPaidOrdersShip'
  BY <1>a, <1>15 DEF PaymentBackoffEnds, PaymentGoto, OnlyPaidOrdersShip, env,
       orderVars, queues, payTicker, payVars, fulVars, notifVars
<1>16. ASSUME NEW m \in Messages, PaymentSend(m) PROVE OnlyPaidOrdersShip'
  <2>1. Elems(paymentQueue') = Elems(paymentQueue) \cup {m}
    BY <1>b, <1>16, AppendFacts DEF PaymentSend
  <2>2. m \in born \ poisoned
    BY <1>16 DEF PaymentSend, Stages
  <2>3. payPc' = [payPc EXCEPT ![m] = "fanout"] /\ payPc[m] = "sending"
    BY <1>16 DEF PaymentSend, PaymentGoto
  <2>4. UNCHANGED <<born, poisoned, notifSub, fulPc, notifPc>>
    BY <1>16 DEF PaymentSend, orderVars, fulVars, notifVars
  <2>5. QED
    BY <1>a, <2>1, <2>2, <2>3, <2>4 DEF OnlyPaidOrdersShip
<1>17. ASSUME NEW m \in Messages, PaymentFanOut(m) PROVE OnlyPaidOrdersShip'
  <2>1. Elems(notifSub') = Elems(notifSub) \cup {m}
    BY <1>b, <1>17, AppendFacts DEF PaymentFanOut
  <2>2. m \in born \ poisoned
    BY <1>17 DEF PaymentFanOut, Stages
  <2>3. payPc' = [payPc EXCEPT ![m] = "paid"] /\ payPc[m] = "fanout"
    BY <1>17 DEF PaymentFanOut, PaymentGoto
  <2>4. UNCHANGED <<born, poisoned, paymentQueue, fulPc, notifPc>>
    BY <1>17 DEF PaymentFanOut, orderVars, fulVars, notifVars
  <2>5. QED
    BY <1>a, <2>1, <2>2, <2>3, <2>4 DEF OnlyPaidOrdersShip
<1>18. ASSUME NEW m \in Messages, PaymentDeadLetter(m) PROVE OnlyPaidOrdersShip'
  BY <1>a, <1>18 DEF PaymentDeadLetter, PaymentGoto, OnlyPaidOrdersShip, env,
       orderVars, queues, payTicker, payVars, fulVars, notifVars
<1>19. ASSUME NEW m \in Messages, PaymentCancelled(m) PROVE OnlyPaidOrdersShip'
  BY <1>a, <1>19 DEF PaymentCancelled, PaymentGoto, OnlyPaidOrdersShip, env,
       orderVars, queues, payTicker, payVars, fulVars, notifVars
<1>20. ASSUME FulfillmentPoll PROVE OnlyPaidOrdersShip'
  <2>1. /\ Head(paymentQueue) \in Messages
        /\ Elems(paymentQueue) = Elems(paymentQueue') \cup {Head(paymentQueue)}
        /\ NoDuplicates(paymentQueue) => NoDuplicates(paymentQueue') /\ Head(paymentQueue) \notin Elems(paymentQueue')
    BY <1>b, <1>20, TailFacts DEF FulfillmentPoll
  <2>2. QED
    BY <1>a, <1>20, <2>1 DEF FulfillmentPoll, OnlyPaidOrdersShip, env, orderVars,
       queues, payTicker, payVars, fulVars, notifVars
<1>21. ASSUME NEW m \in Messages, FulfillmentAttemptPasses(m) PROVE OnlyPaidOrdersShip'
  BY <1>a, <1>21 DEF FulfillmentAttemptPasses, FulfillmentGoto, OnlyPaidOrdersShip,
       env, orderVars, queues, payTicker, payVars, fulVars, notifVars
<1>22. ASSUME NEW m \in Messages, FulfillmentAttemptFails(m) PROVE OnlyPaidOrdersShip'
  BY <1>a, <1>22 DEF FulfillmentAttemptFails, FulfillmentGoto, OnlyPaidOrdersShip,
       env, orderVars, queues, payTicker, payVars, fulVars, notifVars
<1>23. ASSUME NEW m \in Messages, FulfillmentBackoffEnds(m) PROVE OnlyPaidOrdersShip'
  BY <1>a, <1>23 DEF FulfillmentBackoffEnds, FulfillmentGoto, OnlyPaidOrdersShip,
       env, orderVars, queues, payTicker, payVars, fulVars, notifVars
<1>24. ASSUME NEW m \in Messages, FulfillmentCancelled(m) PROVE OnlyPaidOrdersShip'
  BY <1>a, <1>24 DEF FulfillmentCancelled, FulfillmentGoto, OnlyPaidOrdersShip, env,
       orderVars, queues, payTicker, payVars, fulVars, notifVars
<1>25. ASSUME NotificationPoll PROVE OnlyPaidOrdersShip'
  <2>1. /\ Head(notifSub) \in Messages
        /\ Elems(notifSub) = Elems(notifSub') \cup {Head(notifSub)}
        /\ NoDuplicates(notifSub) => NoDuplicates(notifSub') /\ Head(notifSub) \notin Elems(notifSub')
    BY <1>b, <1>25, TailFacts DEF NotificationPoll
  <2>2. QED
    BY <1>a, <1>25, <2>1 DEF NotificationPoll, OnlyPaidOrdersShip, env, orderVars,
       queues, payTicker, payVars, fulVars, notifVars
<1>26. ASSUME NEW m \in Messages, NotificationAttemptPasses(m) PROVE OnlyPaidOrdersShip'
  BY <1>a, <1>26 DEF NotificationAttemptPasses, NotificationGoto,
       OnlyPaidOrdersShip, env, orderVars, queues, payTicker, payVars, fulVars,
       notifVars
<1>27. ASSUME NEW m \in Messages, NotificationAttemptFails(m) PROVE OnlyPaidOrdersShip'
  BY <1>a, <1>27 DEF NotificationAttemptFails, NotificationGoto, OnlyPaidOrdersShip,
       env, orderVars, queues, payTicker, payVars, fulVars, notifVars
<1>28. ASSUME NEW m \in Messages, NotificationBackoffEnds(m) PROVE OnlyPaidOrdersShip'
  BY <1>a, <1>28 DEF NotificationBackoffEnds, NotificationGoto, OnlyPaidOrdersShip,
       env, orderVars, queues, payTicker, payVars, fulVars, notifVars
<1>29. ASSUME NEW m \in Messages, NotificationDeadLetter(m) PROVE OnlyPaidOrdersShip'
  BY <1>a, <1>29 DEF NotificationDeadLetter, NotificationGoto, OnlyPaidOrdersShip,
       env, orderVars, queues, payTicker, payVars, fulVars, notifVars
<1>30. ASSUME NEW m \in Messages, NotificationCancelled(m) PROVE OnlyPaidOrdersShip'
  BY <1>a, <1>30 DEF NotificationCancelled, NotificationGoto, OnlyPaidOrdersShip,
       env, orderVars, queues, payTicker, payVars, fulVars, notifVars
<1>31. CASE UNCHANGED vars
  BY <1>31 DEF vars, OnlyPaidOrdersShip, env, orderVars, queues, payTicker, payVars,
       fulVars, notifVars
<1>32. QED
  BY <1>1, <1>2, <1>3, <1>4, <1>5, <1>6, <1>7, <1>8, <1>9, <1>10, <1>11,
     <1>12, <1>13, <1>14, <1>15, <1>16, <1>17, <1>18, <1>19, <1>20, <1>21,
     <1>22, <1>23, <1>24, <1>25, <1>26, <1>27, <1>28, <1>29, <1>30, <1>31
     DEF Next, OrderTicker, PaymentTicker, PaymentWorker, FulfillmentWorker,
         NotificationWorker

\* Every step keeps the dead letters truthful: one is only written by the goroutine
\* that ends there, with the reason and the count of its stage.
LEMMA DeadLettersStep ==
  ASSUME TypeOK, Stages, OneOwner, DeadLettersAccounted, [Next]_vars
  PROVE  DeadLettersAccounted'
<1> USE PipelineAssumption
<1>a. /\ payPc \in [Messages -> PaymentPcs] /\ fulPc \in [Messages -> FulfillmentPcs]
      /\ notifPc \in [Messages -> NotificationPcs]
      /\ payAttempt \in [Messages -> 0..PaymentMaxAttempts]
      /\ fulAttempt \in [Messages -> 0..FulfillmentMaxAttempts]
      /\ notifAttempt \in [Messages -> 0..NotificationMaxAttempts]
  BY DEF TypeOK
<1>b. /\ orderQueue \in Seq(Messages) /\ paymentQueue \in Seq(Messages)
      /\ notifSub \in Seq(Messages)
      /\ paymentDLQ \in Seq(Letters) /\ notifDLQ \in Seq(Letters)
  BY DEF TypeOK
<1>c. \A i \in 1..Len(paymentDLQ) : paymentDLQ[i].msg \in Messages
  <2>1. ASSUME NEW i \in 1..Len(paymentDLQ) PROVE paymentDLQ[i].msg \in Messages
    <3>1. paymentDLQ[i] \in Letters
      BY <1>b
    <3>2. QED
      BY <3>1 DEF Letters
  <2>2. QED
    BY <2>1
<1>d. \A i \in 1..Len(notifDLQ) : notifDLQ[i].msg \in Messages
  <2>1. ASSUME NEW i \in 1..Len(notifDLQ) PROVE notifDLQ[i].msg \in Messages
    <3>1. notifDLQ[i] \in Letters
      BY <1>b
    <3>2. QED
      BY <3>1 DEF Letters
  <2>2. QED
    BY <2>1
<1>1. ASSUME NEW f \in InjectableFaults, Inject(f) PROVE DeadLettersAccounted'
  BY <1>a, <1>1 DEF Inject, DeadLettersAccounted, OneLetterEach, env, orderVars,
       queues, payTicker, payVars, fulVars, notifVars
<1>2. ASSUME NEW f \in InjectableFaults, Clear(f) PROVE DeadLettersAccounted'
  BY <1>a, <1>2 DEF Clear, DeadLettersAccounted, OneLetterEach, env, orderVars,
       queues, payTicker, payVars, fulVars, notifVars
<1>3. ASSUME Cancel PROVE DeadLettersAccounted'
  BY <1>a, <1>3 DEF Cancel, DeadLettersAccounted, OneLetterEach, env, orderVars,
       queues, payTicker, payVars, fulVars, notifVars
<1>4. ASSUME Restart PROVE DeadLettersAccounted'
  BY <1>a, <1>4 DEF Restart, DeadLettersAccounted, OneLetterEach, env, orderVars,
       queues, payTicker, payVars, fulVars, notifVars
<1>5. ASSUME NEW t \in Tickers, StopTicker(t) PROVE DeadLettersAccounted'
  BY <1>a, <1>5 DEF StopTicker, DeadLettersAccounted, OneLetterEach, env, orderVars,
       queues, payTicker, payVars, fulVars, notifVars
<1>6. ASSUME NEW m \in Messages, OrderTick(m) PROVE DeadLettersAccounted'
  <2>1. payPc[m] = "none"
    BY <1>6 DEF OrderTick, Stages
  <2>2. poisoned \subseteq poisoned' /\ poisoned' \subseteq poisoned \cup {m}
    BY <1>6 DEF OrderTick
  <2>3. UNCHANGED <<paymentDLQ, notifDLQ, payPc, notifPc>>
    BY <1>6 DEF OrderTick, queues, payVars, notifVars
  <2>4. QED
    BY <1>c, <1>d, <2>1, <2>2, <2>3 DEF DeadLettersAccounted, OneLetterEach
<1>7. ASSUME OrderSend PROVE DeadLettersAccounted'
  <2>1. /\ Elems(orderQueue') = Elems(orderQueue) \cup {orderSending}
        /\ NoDuplicates(orderQueue) /\ orderSending \notin Elems(orderQueue) => NoDuplicates(orderQueue')
    BY <1>b, <1>7, AppendFacts DEF OrderSend, TypeOK
  <2>2. QED
    BY <1>a, <1>7, <2>1 DEF OrderSend, DeadLettersAccounted, OneLetterEach, env,
       orderVars, queues, payTicker, payVars, fulVars, notifVars
<1>8. ASSUME OrderSendCancelled PROVE DeadLettersAccounted'
  BY <1>a, <1>8 DEF OrderSendCancelled, DeadLettersAccounted, OneLetterEach, env,
       orderVars, queues, payTicker, payVars, fulVars, notifVars
<1>9. ASSUME PaymentTick PROVE DeadLettersAccounted'
  BY <1>a, <1>9 DEF PaymentTick, DeadLettersAccounted, OneLetterEach, env,
       orderVars, queues, payTicker, payVars, fulVars, notifVars
<1>10. ASSUME PaymentPoll PROVE DeadLettersAccounted'
  <2>1. Head(orderQueue) \in Messages /\ payPc[Head(orderQueue)] = "none"
    BY <1>b, <1>10, TailFacts DEF PaymentPoll, OneOwner, InOrderStage
  <2>2. payPc' = [payPc EXCEPT ![Head(orderQueue)] = "validate"]
    BY <1>10 DEF PaymentPoll
  <2>3. UNCHANGED <<poisoned, paymentDLQ, notifDLQ, notifPc>>
    BY <1>10 DEF PaymentPoll, orderVars, notifVars
  <2>4. QED
    BY <1>a, <1>c, <1>d, <2>1, <2>2, <2>3 DEF DeadLettersAccounted, OneLetterEach
<1>11. ASSUME PaymentPollEmpty PROVE DeadLettersAccounted'
  BY <1>a, <1>11 DEF PaymentPollEmpty, DeadLettersAccounted, OneLetterEach, env,
       orderVars, queues, payTicker, payVars, fulVars, notifVars
<1>12. ASSUME NEW m \in Messages, PaymentValidate(m) PROVE DeadLettersAccounted'
  BY <1>a, <1>12, <1>c, <1>d DEF PaymentValidate, PaymentGoto, DeadLettersAccounted,
       OneLetterEach, env, orderVars, queues, payTicker, payVars, fulVars, notifVars
<1>13. ASSUME NEW m \in Messages, PaymentAttemptPasses(m) PROVE DeadLettersAccounted'
  BY <1>a, <1>13, <1>c, <1>d DEF PaymentAttemptPasses, PaymentGoto,
       DeadLettersAccounted, OneLetterEach, env, orderVars, queues, payTicker,
       payVars, fulVars, notifVars
<1>14. ASSUME NEW m \in Messages, PaymentAttemptFails(m) PROVE DeadLettersAccounted'
  BY <1>a, <1>14, <1>c, <1>d DEF PaymentAttemptFails, PaymentGoto,
       DeadLettersAccounted, OneLetterEach, env, orderVars, queues, payTicker,
       payVars, fulVars, notifVars
<1>15. ASSUME NEW m \in Messages, PaymentBackoffEnds(m) PROVE DeadLettersAccounted'
  BY <1>a, <1>15, <1>c, <1>d DEF PaymentBackoffEnds, PaymentGoto,
       DeadLettersAccounted, OneLetterEach, env, orderVars, queues, payTicker,
       payVars, fulVars, notifVars
<1>16. ASSUME NEW m \in Messages, PaymentSend(m) PROVE DeadLettersAccounted'
  <2>1. /\ Elems(paymentQueue') = Elems(paymentQueue) \cup {m}
        /\ NoDuplicates(paymentQueue) /\ m \notin Elems(paymentQueue) => NoDuplicates(paymentQueue')
    BY <1>b, <1>16, AppendFacts DEF PaymentSend
  <2>2. QED
    BY <1>a, <1>16, <2>1 DEF PaymentSend, PaymentGoto, DeadLettersAccounted,
       OneLetterEach, env, orderVars, queues, payTicker, payVars, fulVars, notifVars
<1>17. ASSUME NEW m \in Messages, PaymentFanOut(m) PROVE DeadLettersAccounted'
  <2>1. /\ Elems(notifSub') = Elems(notifSub) \cup {m}
        /\ NoDuplicates(notifSub) /\ m \notin Elems(notifSub) => NoDuplicates(notifSub')
    BY <1>b, <1>17, AppendFacts DEF PaymentFanOut
  <2>2. QED
    BY <1>a, <1>17, <2>1 DEF PaymentFanOut, PaymentGoto, DeadLettersAccounted,
       OneLetterEach, env, orderVars, queues, payTicker, payVars, fulVars, notifVars
<1>18. ASSUME NEW m \in Messages, PaymentDeadLetter(m) PROVE DeadLettersAccounted'
  <2> DEFINE letter == IF payPc[m] = "rejecting"
                         THEN Letter(m, "schema_invalid", 1)
                         ELSE Letter(m, "processing_error", payAttempt[m])
  <2>1. /\ letter \in Letters
        /\ letter.msg = m
        /\ letter = IF m \in poisoned
                      THEN Letter(m, "schema_invalid", 1)
                      ELSE Letter(m, "processing_error", PaymentMaxAttempts)
    <3>1. CASE payPc[m] = "rejecting"
      BY <1>18, <3>1 DEF PaymentDeadLetter, Stages, Letter, Letters
    <3>2. CASE payPc[m] = "exhausted"
      BY <1>a, <1>18, <3>2 DEF PaymentDeadLetter, Stages, Letter, Letters
    <3>3. QED
      BY <1>18, <3>1, <3>2 DEF PaymentDeadLetter
  <2>2. paymentDLQ' = Append(paymentDLQ, letter)
    BY <1>18 DEF PaymentDeadLetter
  <2>3. m \notin LettersOf(paymentDLQ)
    BY <1>18 DEF PaymentDeadLetter, DeadLettersAccounted, LettersOf
  <2> HIDE DEF letter
  <2>4. /\ OneLetterEach(paymentDLQ')
        /\ \A i \in 1..Len(paymentDLQ') :
             \/ paymentDLQ'[i] = letter
             \/ i \in 1..Len(paymentDLQ) /\ paymentDLQ'[i] = paymentDLQ[i]
    BY <1>b, <2>1, <2>2, <2>3, LetterFacts DEF DeadLettersAccounted
  <2>5. payPc' = [payPc EXCEPT ![m] = "dead"]
    BY <1>18 DEF PaymentDeadLetter, PaymentGoto
  <2>6. UNCHANGED <<poisoned, notifDLQ, notifPc>>
    BY <1>18 DEF PaymentDeadLetter, orderVars, notifVars
  <2>7. ASSUME NEW i \in 1..Len(paymentDLQ')
        PROVE  /\ payPc'[paymentDLQ'[i].msg] = "dead"
               /\ paymentDLQ'[i] = IF paymentDLQ'[i].msg \in poisoned
                    THEN Letter(paymentDLQ'[i].msg, "schema_invalid", 1)
                    ELSE Letter(paymentDLQ'[i].msg, "processing_error", PaymentMaxAttempts)
    <3>1. CASE paymentDLQ'[i] = letter
      BY <1>a, <2>1, <2>5, <3>1
    <3>2. CASE i \in 1..Len(paymentDLQ) /\ paymentDLQ'[i] = paymentDLQ[i]
      <4>1. /\ paymentDLQ[i].msg \in Messages
            /\ payPc[paymentDLQ[i].msg] = "dead"
            /\ paymentDLQ[i] = IF paymentDLQ[i].msg \in poisoned
                 THEN Letter(paymentDLQ[i].msg, "schema_invalid", 1)
                 ELSE Letter(paymentDLQ[i].msg, "processing_error", PaymentMaxAttempts)
        BY <1>c, <3>2 DEF DeadLettersAccounted
      <4>2. payPc'[paymentDLQ[i].msg] = "dead"
        BY <1>a, <2>5, <4>1
      <4>3. QED
        BY <3>2, <4>1, <4>2
    <3>3. QED
      BY <2>4, <3>1, <3>2
  <2>8. QED
    BY <2>4, <2>6, <2>7 DEF DeadLettersAccounted, OneLetterEach
<1>19. ASSUME NEW m \in Messages, PaymentCancelled(m) PROVE DeadLettersAccounted'
  BY <1>a, <1>19, <1>c, <1>d DEF PaymentCancelled, PaymentGoto,
       DeadLettersAccounted, OneLetterEach, env, orderVars, queues, payTicker,
       payVars, fulVars, notifVars
<1>20. ASSUME FulfillmentPoll PROVE DeadLettersAccounted'
  <2>1. /\ Head(paymentQueue) \in Messages
        /\ Elems(paymentQueue) = Elems(paymentQueue') \cup {Head(paymentQueue)}
        /\ NoDuplicates(paymentQueue) => NoDuplicates(paymentQueue') /\ Head(paymentQueue) \notin Elems(paymentQueue')
    BY <1>b, <1>20, TailFacts DEF FulfillmentPoll
  <2>2. QED
    BY <1>a, <1>20, <2>1 DEF FulfillmentPoll, DeadLettersAccounted, OneLetterEach,
       env, orderVars, queues, payTicker, payVars, fulVars, notifVars
<1>21. ASSUME NEW m \in Messages, FulfillmentAttemptPasses(m) PROVE DeadLettersAccounted'
  BY <1>a, <1>21 DEF FulfillmentAttemptPasses, FulfillmentGoto,
       DeadLettersAccounted, OneLetterEach, env, orderVars, queues, payTicker,
       payVars, fulVars, notifVars
<1>22. ASSUME NEW m \in Messages, FulfillmentAttemptFails(m) PROVE DeadLettersAccounted'
  BY <1>a, <1>22 DEF FulfillmentAttemptFails, FulfillmentGoto, DeadLettersAccounted,
       OneLetterEach, env, orderVars, queues, payTicker, payVars, fulVars, notifVars
<1>23. ASSUME NEW m \in Messages, FulfillmentBackoffEnds(m) PROVE DeadLettersAccounted'
  BY <1>a, <1>23 DEF FulfillmentBackoffEnds, FulfillmentGoto, DeadLettersAccounted,
       OneLetterEach, env, orderVars, queues, payTicker, payVars, fulVars, notifVars
<1>24. ASSUME NEW m \in Messages, FulfillmentCancelled(m) PROVE DeadLettersAccounted'
  BY <1>a, <1>24 DEF FulfillmentCancelled, FulfillmentGoto, DeadLettersAccounted,
       OneLetterEach, env, orderVars, queues, payTicker, payVars, fulVars, notifVars
<1>25. ASSUME NotificationPoll PROVE DeadLettersAccounted'
  <2>1. Head(notifSub) \in Messages /\ notifPc[Head(notifSub)] = "none"
    BY <1>b, <1>25, TailFacts DEF NotificationPoll, OneOwner
  <2>2. notifPc' = [notifPc EXCEPT ![Head(notifSub)] = "attempt"]
    BY <1>25 DEF NotificationPoll
  <2>3. UNCHANGED <<poisoned, paymentDLQ, notifDLQ, payPc>>
    BY <1>25 DEF NotificationPoll, orderVars, payVars
  <2>4. QED
    BY <1>a, <1>c, <1>d, <2>1, <2>2, <2>3 DEF DeadLettersAccounted, OneLetterEach
<1>26. ASSUME NEW m \in Messages, NotificationAttemptPasses(m) PROVE DeadLettersAccounted'
  BY <1>a, <1>26, <1>c, <1>d DEF NotificationAttemptPasses, NotificationGoto,
       DeadLettersAccounted, OneLetterEach, env, orderVars, queues, payTicker,
       payVars, fulVars, notifVars
<1>27. ASSUME NEW m \in Messages, NotificationAttemptFails(m) PROVE DeadLettersAccounted'
  BY <1>a, <1>27, <1>c, <1>d DEF NotificationAttemptFails, NotificationGoto,
       DeadLettersAccounted, OneLetterEach, env, orderVars, queues, payTicker,
       payVars, fulVars, notifVars
<1>28. ASSUME NEW m \in Messages, NotificationBackoffEnds(m) PROVE DeadLettersAccounted'
  BY <1>a, <1>28, <1>c, <1>d DEF NotificationBackoffEnds, NotificationGoto,
       DeadLettersAccounted, OneLetterEach, env, orderVars, queues, payTicker,
       payVars, fulVars, notifVars
<1>29. ASSUME NEW m \in Messages, NotificationDeadLetter(m) PROVE DeadLettersAccounted'
  <2> DEFINE letter == Letter(m, "processing_error", notifAttempt[m])
  <2>1. /\ letter \in Letters
        /\ letter.msg = m
        /\ letter = Letter(m, "processing_error", NotificationMaxAttempts)
    BY <1>a, <1>29 DEF NotificationDeadLetter, Stages, Letter, Letters
  <2>2. notifDLQ' = Append(notifDLQ, letter)
    BY <1>29 DEF NotificationDeadLetter
  <2>3. m \notin LettersOf(notifDLQ)
    BY <1>29 DEF NotificationDeadLetter, DeadLettersAccounted, LettersOf
  <2> HIDE DEF letter
  <2>4. /\ OneLetterEach(notifDLQ')
        /\ \A i \in 1..Len(notifDLQ') :
             \/ notifDLQ'[i] = letter
             \/ i \in 1..Len(notifDLQ) /\ notifDLQ'[i] = notifDLQ[i]
    BY <1>b, <2>1, <2>2, <2>3, LetterFacts DEF DeadLettersAccounted
  <2>5. notifPc' = [notifPc EXCEPT ![m] = "dead"]
    BY <1>29 DEF NotificationDeadLetter, NotificationGoto
  <2>6. UNCHANGED <<poisoned, paymentDLQ, payPc>>
    BY <1>29 DEF NotificationDeadLetter, NotificationGoto, orderVars, payVars
  <2>7. ASSUME NEW i \in 1..Len(notifDLQ')
        PROVE  /\ notifPc'[notifDLQ'[i].msg] = "dead"
               /\ notifDLQ'[i] =
                    Letter(notifDLQ'[i].msg, "processing_error", NotificationMaxAttempts)
    <3>1. CASE notifDLQ'[i] = letter
      BY <1>a, <2>1, <2>5, <3>1
    <3>2. CASE i \in 1..Len(notifDLQ) /\ notifDLQ'[i] = notifDLQ[i]
      <4>1. /\ notifDLQ[i].msg \in Messages
            /\ notifPc[notifDLQ[i].msg] = "dead"
            /\ notifDLQ[i] =
                 Letter(notifDLQ[i].msg, "processing_error", NotificationMaxAttempts)
        BY <1>d, <3>2 DEF DeadLettersAccounted
      <4>2. notifPc'[notifDLQ[i].msg] = "dead"
        BY <1>a, <2>5, <4>1
      <4>3. QED
        BY <3>2, <4>1, <4>2
    <3>3. QED
      BY <2>4, <3>1, <3>2
  <2>8. QED
    BY <2>4, <2>6, <2>7 DEF DeadLettersAccounted, OneLetterEach
<1>30. ASSUME NEW m \in Messages, NotificationCancelled(m) PROVE DeadLettersAccounted'
  BY <1>a, <1>30, <1>c, <1>d DEF NotificationCancelled, NotificationGoto,
       DeadLettersAccounted, OneLetterEach, env, orderVars, queues, payTicker,
       payVars, fulVars, notifVars
<1>31. CASE UNCHANGED vars
  BY <1>31 DEF vars, DeadLettersAccounted, OneLetterEach, env, orderVars, queues,
       payTicker, payVars, fulVars, notifVars
<1>32. QED
  BY <1>1, <1>2, <1>3, <1>4, <1>5, <1>6, <1>7, <1>8, <1>9, <1>10, <1>11,
     <1>12, <1>13, <1>14, <1>15, <1>16, <1>17, <1>18, <1>19, <1>20, <1>21,
     <1>22, <1>23, <1>24, <1>25, <1>26, <1>27, <1>28, <1>29, <1>30, <1>31
     DEF Next, OrderTicker, PaymentTicker, PaymentWorker, FulfillmentWorker,
         NotificationWorker

\* While the process runs every step passes each order on: what leaves a queue gets a
\* goroutine, and a goroutine ends only in a queue, in a dead letter or delivered.
LEMMA NothingLostStep ==
  ASSUME TypeOK, Stages, OneOwner, OnlyPaidOrdersShip, NothingLostWhileRunning, [Next]_vars
  PROVE  NothingLostWhileRunning'
<1> USE PipelineAssumption
<1>a. /\ payPc \in [Messages -> PaymentPcs] /\ fulPc \in [Messages -> FulfillmentPcs]
      /\ notifPc \in [Messages -> NotificationPcs]
      /\ payAttempt \in [Messages -> 0..PaymentMaxAttempts]
      /\ fulAttempt \in [Messages -> 0..FulfillmentMaxAttempts]
      /\ notifAttempt \in [Messages -> 0..NotificationMaxAttempts]
  BY DEF TypeOK
<1>b. /\ orderQueue \in Seq(Messages) /\ paymentQueue \in Seq(Messages)
      /\ notifSub \in Seq(Messages)
      /\ paymentDLQ \in Seq(Letters) /\ notifDLQ \in Seq(Letters)
  BY DEF TypeOK
<1>1. ASSUME NEW f \in InjectableFaults, Inject(f) PROVE NothingLostWhileRunning'
  BY <1>a, <1>1 DEF Inject, NothingLostWhileRunning, InOrderStage, env, orderVars,
       queues, payTicker, payVars, fulVars, notifVars
<1>2. ASSUME NEW f \in InjectableFaults, Clear(f) PROVE NothingLostWhileRunning'
  BY <1>a, <1>2 DEF Clear, NothingLostWhileRunning, InOrderStage, env, orderVars,
       queues, payTicker, payVars, fulVars, notifVars
<1>3. ASSUME Cancel PROVE NothingLostWhileRunning'
  BY <1>a, <1>3 DEF Cancel, NothingLostWhileRunning, InOrderStage, env, orderVars,
       queues, payTicker, payVars, fulVars, notifVars
<1>4. ASSUME Restart PROVE NothingLostWhileRunning'
  BY <1>a, <1>4 DEF Restart, NothingLostWhileRunning, InOrderStage, env, orderVars,
       queues, payTicker, payVars, fulVars, notifVars
<1>5. ASSUME NEW t \in Tickers, StopTicker(t) PROVE NothingLostWhileRunning'
  BY <1>a, <1>5 DEF StopTicker, NothingLostWhileRunning, InOrderStage, env,
       orderVars, queues, payTicker, payVars, fulVars, notifVars
<1>6. ASSUME NEW m \in Messages, OrderTick(m) PROVE NothingLostWhileRunning'
  <2>1. born \subseteq Messages /\ NoMessage \notin Messages
    BY PipelineAssumption DEF TypeOK
  <2>2. payPc[m] = "none"
    BY <1>6 DEF OrderTick, Stages
  <2>3. fulPc[m] = "none" /\ notifPc[m] = "none"
    BY <2>2 DEF OnlyPaidOrdersShip
  <2>4. QED
    BY <1>a, <1>6, <2>1, <2>2, <2>3
    DEF OrderTick, NothingLostWhileRunning, InOrderStage, env, orderVars, queues,
       payTicker, payVars, fulVars, notifVars
<1>7. ASSUME OrderSend PROVE NothingLostWhileRunning'
  <2>1. /\ Elems(orderQueue') = Elems(orderQueue) \cup {orderSending}
        /\ NoDuplicates(orderQueue) /\ orderSending \notin Elems(orderQueue) => NoDuplicates(orderQueue')
    BY <1>b, <1>7, AppendFacts DEF OrderSend, TypeOK
  <2>2. QED
    BY <1>a, <1>7, <2>1 DEF OrderSend, NothingLostWhileRunning, InOrderStage, env,
       orderVars, queues, payTicker, payVars, fulVars, notifVars
<1>8. ASSUME OrderSendCancelled PROVE NothingLostWhileRunning'
  BY <1>a, <1>8 DEF OrderSendCancelled, NothingLostWhileRunning, InOrderStage, env,
       orderVars, queues, payTicker, payVars, fulVars, notifVars
<1>9. ASSUME PaymentTick PROVE NothingLostWhileRunning'
  BY <1>a, <1>9 DEF PaymentTick, NothingLostWhileRunning, InOrderStage, env,
       orderVars, queues, payTicker, payVars, fulVars, notifVars
<1>10. ASSUME PaymentPoll PROVE NothingLostWhileRunning'
  <2>1. /\ Head(orderQueue) \in Messages
        /\ Elems(orderQueue) = Elems(orderQueue') \cup {Head(orderQueue)}
        /\ NoDuplicates(orderQueue) => NoDuplicates(orderQueue') /\ Head(orderQueue) \notin Elems(orderQueue')
    BY <1>b, <1>10, TailFacts DEF PaymentPoll
  <2>2. QED
    BY <1>a, <1>10, <2>1 DEF PaymentPoll, NothingLostWhileRunning, InOrderStage,
       env, orderVars, queues, payTicker, payVars, fulVars, notifVars
<1>11. ASSUME PaymentPollEmpty PROVE NothingLostWhileRunning'
  BY <1>a, <1>11 DEF PaymentPollEmpty, NothingLostWhileRunning, InOrderStage, env,
       orderVars, queues, payTicker, payVars, fulVars, notifVars
<1>12. ASSUME NEW m \in Messages, PaymentValidate(m) PROVE NothingLostWhileRunning'
  BY <1>a, <1>12 DEF PaymentValidate, PaymentGoto, NothingLostWhileRunning,
       InOrderStage, env, orderVars, queues, payTicker, payVars, fulVars, notifVars
<1>13. ASSUME NEW m \in Messages, PaymentAttemptPasses(m) PROVE NothingLostWhileRunning'
  BY <1>a, <1>13 DEF PaymentAttemptPasses, PaymentGoto, NothingLostWhileRunning,
       InOrderStage, env, orderVars, queues, payTicker, payVars, fulVars, notifVars
<1>14. ASSUME NEW m \in Messages, PaymentAttemptFails(m) PROVE NothingLostWhileRunning'
  BY <1>a, <1>14 DEF PaymentAttemptFails, PaymentGoto, NothingLostWhileRunning,
       InOrderStage, env, orderVars, queues, payTicker, payVars, fulVars, notifVars
<1>15. ASSUME NEW m \in Messages, PaymentBackoffEnds(m) PROVE NothingLostWhileRunning'
  BY <1>a, <1>15 DEF PaymentBackoffEnds, PaymentGoto, NothingLostWhileRunning,
       InOrderStage, env, orderVars, queues, payTicker, payVars, fulVars, notifVars
<1>16. ASSUME NEW m \in Messages, PaymentSend(m) PROVE NothingLostWhileRunning'
  <2>1. /\ Elems(paymentQueue') = Elems(paymentQueue) \cup {m}
        /\ NoDuplicates(paymentQueue) /\ m \notin Elems(paymentQueue) => NoDuplicates(paymentQueue')
    BY <1>b, <1>16, AppendFacts DEF PaymentSend
  <2>2. QED
    BY <1>a, <1>16, <2>1 DEF PaymentSend, PaymentGoto, NothingLostWhileRunning,
       InOrderStage, env, orderVars, queues, payTicker, payVars, fulVars, notifVars
<1>17. ASSUME NEW m \in Messages, PaymentFanOut(m) PROVE NothingLostWhileRunning'
  <2>1. /\ Elems(notifSub') = Elems(notifSub) \cup {m}
        /\ NoDuplicates(notifSub) /\ m \notin Elems(notifSub) => NoDuplicates(notifSub')
    BY <1>b, <1>17, AppendFacts DEF PaymentFanOut
  <2>2. QED
    BY <1>a, <1>17, <2>1 DEF PaymentFanOut, PaymentGoto, NothingLostWhileRunning,
       InOrderStage, env, orderVars, queues, payTicker, payVars, fulVars, notifVars
<1>18. ASSUME NEW m \in Messages, PaymentDeadLetter(m) PROVE NothingLostWhileRunning'
  <2>1. LettersOf(paymentDLQ') = LettersOf(paymentDLQ) \cup {m}
    <3>1. CASE payPc[m] = "rejecting"
      <4>1. /\ Letter(m, "schema_invalid", 1) \in Letters
            /\ Letter(m, "schema_invalid", 1).msg = m
            /\ paymentDLQ' = Append(paymentDLQ, Letter(m, "schema_invalid", 1))
        BY <1>18, <3>1 DEF PaymentDeadLetter, Letter, Letters
      <4>2. QED
        BY <1>b, <4>1, LetterFacts
    <3>2. CASE payPc[m] = "exhausted"
      <4>1. /\ Letter(m, "processing_error", payAttempt[m]) \in Letters
            /\ Letter(m, "processing_error", payAttempt[m]).msg = m
            /\ paymentDLQ' = Append(paymentDLQ, Letter(m, "processing_error", payAttempt[m]))
        BY <1>a, <1>18, <3>2 DEF PaymentDeadLetter, Letter, Letters
      <4>2. QED
        BY <1>b, <4>1, LetterFacts
    <3>3. QED
      BY <1>18, <3>1, <3>2 DEF PaymentDeadLetter
  <2>2. payPc' = [payPc EXCEPT ![m] = "dead"] /\ payPc[m] # "none"
    BY <1>18 DEF PaymentDeadLetter, PaymentGoto
  <2>3. UNCHANGED <<cancelled, born, orderSending, orderQueue, paymentQueue, notifSub,
                    notifDLQ, fulPc, notifPc>>
    BY <1>18 DEF PaymentDeadLetter, env, orderVars, fulVars, notifVars
  <2>4. QED
    BY <1>a, <2>1, <2>2, <2>3 DEF NothingLostWhileRunning, InOrderStage, TypeOK
<1>19. ASSUME NEW m \in Messages, PaymentCancelled(m) PROVE NothingLostWhileRunning'
  BY <1>a, <1>19 DEF PaymentCancelled, PaymentGoto, NothingLostWhileRunning,
       InOrderStage, env, orderVars, queues, payTicker, payVars, fulVars, notifVars
<1>20. ASSUME FulfillmentPoll PROVE NothingLostWhileRunning'
  <2>1. /\ Head(paymentQueue) \in Messages
        /\ Elems(paymentQueue) = Elems(paymentQueue') \cup {Head(paymentQueue)}
        /\ NoDuplicates(paymentQueue) => NoDuplicates(paymentQueue') /\ Head(paymentQueue) \notin Elems(paymentQueue')
    BY <1>b, <1>20, TailFacts DEF FulfillmentPoll
  <2>2. QED
    BY <1>a, <1>20, <2>1 DEF FulfillmentPoll, NothingLostWhileRunning, InOrderStage,
       env, orderVars, queues, payTicker, payVars, fulVars, notifVars
<1>21. ASSUME NEW m \in Messages, FulfillmentAttemptPasses(m) PROVE NothingLostWhileRunning'
  BY <1>a, <1>21 DEF FulfillmentAttemptPasses, FulfillmentGoto,
       NothingLostWhileRunning, InOrderStage, env, orderVars, queues, payTicker,
       payVars, fulVars, notifVars
<1>22. ASSUME NEW m \in Messages, FulfillmentAttemptFails(m) PROVE NothingLostWhileRunning'
  BY <1>a, <1>22 DEF FulfillmentAttemptFails, FulfillmentGoto,
       NothingLostWhileRunning, InOrderStage, env, orderVars, queues, payTicker,
       payVars, fulVars, notifVars
<1>23. ASSUME NEW m \in Messages, FulfillmentBackoffEnds(m) PROVE NothingLostWhileRunning'
  BY <1>a, <1>23 DEF FulfillmentBackoffEnds, FulfillmentGoto,
       NothingLostWhileRunning, InOrderStage, env, orderVars, queues, payTicker,
       payVars, fulVars, notifVars
<1>24. ASSUME NEW m \in Messages, FulfillmentCancelled(m) PROVE NothingLostWhileRunning'
  BY <1>a, <1>24 DEF FulfillmentCancelled, FulfillmentGoto, NothingLostWhileRunning,
       InOrderStage, env, orderVars, queues, payTicker, payVars, fulVars, notifVars
<1>25. ASSUME NotificationPoll PROVE NothingLostWhileRunning'
  <2>1. /\ Head(notifSub) \in Messages
        /\ Elems(notifSub) = Elems(notifSub') \cup {Head(notifSub)}
        /\ NoDuplicates(notifSub) => NoDuplicates(notifSub') /\ Head(notifSub) \notin Elems(notifSub')
    BY <1>b, <1>25, TailFacts DEF NotificationPoll
  <2>2. QED
    BY <1>a, <1>25, <2>1 DEF NotificationPoll, NothingLostWhileRunning,
       InOrderStage, env, orderVars, queues, payTicker, payVars, fulVars, notifVars
<1>26. ASSUME NEW m \in Messages, NotificationAttemptPasses(m) PROVE NothingLostWhileRunning'
  BY <1>a, <1>26 DEF NotificationAttemptPasses, NotificationGoto,
       NothingLostWhileRunning, InOrderStage, env, orderVars, queues, payTicker,
       payVars, fulVars, notifVars
<1>27. ASSUME NEW m \in Messages, NotificationAttemptFails(m) PROVE NothingLostWhileRunning'
  BY <1>a, <1>27 DEF NotificationAttemptFails, NotificationGoto,
       NothingLostWhileRunning, InOrderStage, env, orderVars, queues, payTicker,
       payVars, fulVars, notifVars
<1>28. ASSUME NEW m \in Messages, NotificationBackoffEnds(m) PROVE NothingLostWhileRunning'
  BY <1>a, <1>28 DEF NotificationBackoffEnds, NotificationGoto,
       NothingLostWhileRunning, InOrderStage, env, orderVars, queues, payTicker,
       payVars, fulVars, notifVars
<1>29. ASSUME NEW m \in Messages, NotificationDeadLetter(m) PROVE NothingLostWhileRunning'
  <2>1. /\ Letter(m, "processing_error", notifAttempt[m]) \in Letters
        /\ Letter(m, "processing_error", notifAttempt[m]).msg = m
        /\ notifDLQ' = Append(notifDLQ, Letter(m, "processing_error", notifAttempt[m]))
    BY <1>a, <1>29 DEF NotificationDeadLetter, Letter, Letters
  <2>2. LettersOf(notifDLQ') = LettersOf(notifDLQ) \cup {m}
    BY <1>b, <2>1, LetterFacts
  <2>3. notifPc' = [notifPc EXCEPT ![m] = "dead"]
    BY <1>29 DEF NotificationDeadLetter, NotificationGoto
  <2>4. UNCHANGED <<cancelled, born, orderSending, orderQueue, paymentQueue, notifSub,
                    paymentDLQ, payPc, fulPc>>
    BY <1>29 DEF NotificationDeadLetter, NotificationGoto, env, orderVars, payVars, fulVars
  <2>5. QED
    BY <1>a, <2>2, <2>3, <2>4 DEF NothingLostWhileRunning, InOrderStage, TypeOK
<1>30. ASSUME NEW m \in Messages, NotificationCancelled(m) PROVE NothingLostWhileRunning'
  BY <1>a, <1>30 DEF NotificationCancelled, NotificationGoto,
       NothingLostWhileRunning, InOrderStage, env, orderVars, queues, payTicker,
       payVars, fulVars, notifVars
<1>31. CASE UNCHANGED vars
  BY <1>31 DEF vars, NothingLostWhileRunning, InOrderStage, env, orderVars, queues,
       payTicker, payVars, fulVars, notifVars
<1>32. QED
  BY <1>1, <1>2, <1>3, <1>4, <1>5, <1>6, <1>7, <1>8, <1>9, <1>10, <1>11,
     <1>12, <1>13, <1>14, <1>15, <1>16, <1>17, <1>18, <1>19, <1>20, <1>21,
     <1>22, <1>23, <1>24, <1>25, <1>26, <1>27, <1>28, <1>29, <1>30, <1>31
     DEF Next, OrderTicker, PaymentTicker, PaymentWorker, FulfillmentWorker,
         NotificationWorker

-----------------------------------------------------------------------------
\* The pipeline starts empty.
LEMMA InitIInv == Init => IInv
<1> SUFFICES ASSUME Init PROVE IInv
  OBVIOUS
<1>1. TypeOK
  <2>1. /\ payPc \in [Messages -> PaymentPcs] /\ fulPc \in [Messages -> FulfillmentPcs]
        /\ notifPc \in [Messages -> NotificationPcs]
    BY DEF Init, PaymentPcs, FulfillmentPcs, NotificationPcs
  <2>2. /\ payAttempt \in [Messages -> 0..PaymentMaxAttempts]
        /\ fulAttempt \in [Messages -> 0..FulfillmentMaxAttempts]
        /\ notifAttempt \in [Messages -> 0..NotificationMaxAttempts]
        /\ polls \in 0..PaymentBatch
    BY PipelineAssumption DEF Init
  <2>3. /\ orderQueue \in Seq(Messages) /\ paymentQueue \in Seq(Messages)
        /\ notifSub \in Seq(Messages)
        /\ paymentDLQ \in Seq(Letters) /\ notifDLQ \in Seq(Letters)
    BY DEF Init
  <2>4. QED
    BY <2>1, <2>2, <2>3 DEF Init, TypeOK
<1>2. \A m \in Messages : orderSending # m
  BY PipelineAssumption DEF Init
<1>3. Stages /\ OneOwner /\ OnlyPaidOrdersShip
  BY <1>2 DEF Init, Stages, OneOwner, OnlyPaidOrdersShip, InOrderStage, NoDuplicates, Elems
<1>4. DeadLettersAccounted /\ NothingLostWhileRunning
  BY DEF Init, DeadLettersAccounted, OneLetterEach, NothingLostWhileRunning
<1>5. QED
  BY <1>1, <1>3, <1>4 DEF IInv

\* The conjuncts together are inductive.
LEMMA NextIInv == IInv /\ [Next]_vars => IInv'
  BY TypeStep, StagesStep, OneOwnerStep, OnlyPaidStep, DeadLettersStep, NothingLostStep
  DEF IInv

\* So they hold in every reachable state.
LEMMA Invariance == Spec => []IInv
  BY InitIInv, NextIInv, PTL DEF Spec

\* Every reachable state is well typed, whatever the buffer size and the numbers
\* of attempts.
THEOREM PipelineTyped == Spec => []TypeOK
<1>1. IInv => TypeOK
  BY DEF IInv
<1>2. QED
  BY <1>1, Invariance, PTL

\* No order is ever charged, shipped or notified twice.
THEOREM PipelineOneOwner == Spec => []OneOwner
<1>1. IInv => OneOwner
  BY DEF IInv
<1>2. QED
  BY <1>1, Invariance, PTL

\* Until cancellation no accepted order, and no copy of a paid one, disappears.
THEOREM PipelineNothingLost == Spec => []NothingLostWhileRunning
<1>1. IInv => NothingLostWhileRunning
  BY DEF IInv
<1>2. QED
  BY <1>1, Invariance, PTL

\* A dead letter is the only one of its message, says why and after how many
\* attempts it failed, and is never processed again.
THEOREM PipelineDeadLetters == Spec => []DeadLettersAccounted
<1>1. IInv => DeadLettersAccounted
  BY DEF IInv
<1>2. QED
  BY <1>1, Invariance, PTL

\* Only orders that passed payment reach fulfillment and notification.
THEOREM PipelineOnlyPaidShip == Spec => []OnlyPaidOrdersShip
<1>1. IInv => OnlyPaidOrdersShip
  BY DEF IInv
<1>2. QED
  BY <1>1, Invariance, PTL

\* A crashed payment service takes nothing from order-queue: only a step of the
\* polling loop shortens the queue, and the loop runs only while not crashed.
THEOREM PipelineCrashStopsIntake == Spec => CrashStopsIntake
<1>1. IInv /\ [Next]_vars => (Len(orderQueue') < Len(orderQueue) => ~crashed)
  <2> SUFFICES ASSUME IInv, [Next]_vars, Len(orderQueue') < Len(orderQueue)
               PROVE  ~crashed
    OBVIOUS
  <2>1. orderQueue \in Seq(Messages) /\ (polls > 0 => ~crashed) /\ polls \in Nat
    BY PipelineAssumption DEF IInv, TypeOK, Stages
  <2>2. CASE PaymentPoll
    BY <2>1, <2>2 DEF PaymentPoll
  <2>3. ASSUME OrderSend PROVE FALSE
    <3>1. orderSending \in Messages
      BY <2>3 DEF OrderSend, IInv, TypeOK
    <3>2. Len(orderQueue') = Len(orderQueue) + 1
      BY <2>1, <2>3, <3>1 DEF OrderSend
    <3>3. QED
      BY <2>1, <3>2
  <2>4. CASE UNCHANGED orderQueue
    BY <2>1, <2>4
  <2>5. PaymentPoll \/ OrderSend \/ UNCHANGED orderQueue
    BY DEF Next, vars, queues, OrderTicker, PaymentTicker, PaymentWorker, FulfillmentWorker,
       NotificationWorker, Inject, Clear, Cancel, Restart, StopTicker, OrderTick,
       OrderSendCancelled, PaymentTick, PaymentPollEmpty, PaymentValidate,
       PaymentAttemptPasses, PaymentAttemptFails, PaymentBackoffEnds, PaymentSend,
       PaymentFanOut, PaymentDeadLetter, PaymentCancelled, FulfillmentPoll,
       FulfillmentGoto, FulfillmentAttemptPasses, FulfillmentAttemptFails,
       FulfillmentBackoffEnds, FulfillmentCancelled, NotificationPoll, NotificationGoto,
       NotificationAttemptPasses, NotificationAttemptFails, NotificationBackoffEnds,
       NotificationDeadLetter, NotificationCancelled
  <2>6. QED
    BY <2>2, <2>3, <2>4, <2>5
<1>2. QED
  BY <1>1, Invariance, PTL DEF Spec, CrashStopsIntake

-----------------------------------------------------------------------------
(* The pipeline implements OrderFlow: every step of it is a step of        *)
(* OrderFlow under the mapping of PipelineProperties, or leaves everything *)
(* OrderFlow sees unchanged.                                               *)

InPayment == {"validate", "attempt", "backoff", "sending", "rejecting", "exhausted"}

\* Where m stands, in words of the pipeline.
Mapped(m) ==
  /\ m \notin born => OrderStage[m] = "absent"
  /\ InOrderStage(m) \/ payPc[m] \in InPayment => OrderStage[m] = "accepted"
  /\ payPc[m] = "dead" => OrderStage[m] = "dead"
  /\ payPc[m] = "dropped" \/ DroppedByTicker(m) => OrderStage[m] = "lost"
  /\ payPc[m] \in {"fanout", "paid"} <=> OrderStage[m] = "paid"
  /\ payPc[m] \notin {"fanout", "paid"} => ShipmentStage[m] = NoMessage /\ NoticeStage[m] = NoMessage

MappedShipment(m) ==
  /\ payPc[m] \in {"fanout", "paid"} /\ fulPc[m] \in {"none", "attempt", "backoff"}
       => ShipmentStage[m] = "owed"
  /\ fulPc[m] \in {"processed", "discarded"} => ShipmentStage[m] = fulPc[m]
  /\ fulPc[m] = "dropped" => ShipmentStage[m] = "lost"

MappedNotice(m) ==
  /\ payPc[m] = "fanout" \/ m \in Elems(notifSub) \/ notifPc[m] \in {"attempt", "backoff", "exhausted"}
       => NoticeStage[m] = "owed"
  /\ notifPc[m] \in {"processed", "dead"} => NoticeStage[m] = notifPc[m]
  /\ payPc[m] \in {"fanout", "paid"} /\ CopyDropped(m) /\ notifPc[m] \in {"none", "dropped"}
       => NoticeStage[m] = "lost"

AllMapped == \A m \in Messages : Mapped(m) /\ MappedShipment(m) /\ MappedNotice(m)

\* What the mapping makes of an order (the invariant tells where it may be).
LEMMA Mapping == IInv => AllMapped
<1> SUFFICES ASSUME IInv, NEW m \in Messages
             PROVE  Mapped(m) /\ MappedShipment(m) /\ MappedNotice(m)
  BY DEF AllMapped
<1>1. /\ payPc[m] \in PaymentPcs /\ fulPc[m] \in FulfillmentPcs /\ notifPc[m] \in NotificationPcs
      /\ InOrderStage(m) \/ payPc[m] # "none" => m \in born
      /\ InOrderStage(m) => payPc[m] = "none"
      /\ fulPc[m] # "none" => m \in born /\ payPc[m] \in {"fanout", "paid"}
      /\ m \in Elems(notifSub) \/ notifPc[m] # "none" => m \in born /\ payPc[m] = "paid"
      /\ m \in Elems(notifSub) => notifPc[m] = "none"
  BY DEF IInv, TypeOK, Stages, OneOwner, OnlyPaidOrdersShip
<1>2. OrderStage[m] =
        IF m \notin born THEN "absent"
        ELSE IF payPc[m] \in {"fanout", "paid"} THEN "paid"
        ELSE IF payPc[m] = "dead" THEN "dead"
        ELSE IF payPc[m] = "dropped" \/ DroppedByTicker(m) THEN "lost" ELSE "accepted"
  BY DEF OrderStage
<1>3. Mapped(m)
  <2>1. OrderStage[m] # "paid" => ShipmentStage[m] = NoMessage /\ NoticeStage[m] = NoMessage
    BY DEF ShipmentStage, NoticeStage
  <2>2. QED
    BY <1>1, <1>2, <2>1 DEF Mapped, DroppedByTicker, InPayment, PaymentPcs
<1>4. payPc[m] \in {"fanout", "paid"} <=> OrderStage[m] = "paid"
  BY <1>3 DEF Mapped
<1>5. MappedShipment(m)
  <2>1. OrderStage[m] = "paid" =>
          ShipmentStage[m] = IF fulPc[m] \in {"processed", "discarded"} THEN fulPc[m]
                             ELSE IF fulPc[m] = "dropped" THEN "lost" ELSE "owed"
    BY DEF ShipmentStage
  <2>2. QED
    BY <1>1, <1>4, <2>1 DEF MappedShipment
<1>6. MappedNotice(m)
  <2>1. OrderStage[m] = "paid" =>
          NoticeStage[m] = IF notifPc[m] \in {"processed", "dead"} THEN notifPc[m]
                           ELSE IF CopyDropped(m) THEN "lost" ELSE "owed"
    BY DEF NoticeStage
  <2>2. QED
    BY <1>1, <1>4, <2>1 DEF MappedNotice, CopyDropped
<1>7. QED
  BY <1>3, <1>5, <1>6

\* The same after a step.
LEMMA MappingNext == IInv' => AllMapped'
  BY Mapping, PTL

\* A step that leaves m where it is.
Same(m) ==
  /\ m \in born' <=> m \in born
  /\ payPc'[m] = payPc[m] /\ fulPc'[m] = fulPc[m] /\ notifPc'[m] = notifPc[m]
  /\ InOrderStage(m)' <=> InOrderStage(m)
  /\ m \in Elems(notifSub') <=> m \in Elems(notifSub)

\* OrderFlow then sees it where it was.
LEMMA SameStages ==
  ASSUME NEW m \in Messages, Same(m)
  PROVE  /\ OrderStage'[m] = OrderStage[m]
         /\ ShipmentStage'[m] = ShipmentStage[m]
         /\ NoticeStage'[m] = NoticeStage[m]
<1>1. /\ DroppedByTicker(m)' <=> DroppedByTicker(m)
      /\ CopyDropped(m)' <=> CopyDropped(m)
  BY DEF Same, DroppedByTicker, CopyDropped
<1>2. OrderStage'[m] = OrderStage[m]
  BY <1>1 DEF Same, OrderStage
<1>3. ShipmentStage'[m] = ShipmentStage[m]
  BY <1>2 DEF Same, ShipmentStage
<1>4. NoticeStage'[m] = NoticeStage[m]
  BY <1>1, <1>2 DEF Same, NoticeStage
<1>5. QED
  BY <1>2, <1>3, <1>4

\* A step that leaves all orders but one where they are changes the mapping at that
\* one at most.
LEMMA OneMoves ==
  ASSUME NEW m \in Messages, \A n \in Messages \ {m} : Same(n)
  PROVE  /\ OrderStage' = [OrderStage EXCEPT ![m] = OrderStage'[m]]
         /\ ShipmentStage' = [ShipmentStage EXCEPT ![m] = ShipmentStage'[m]]
         /\ NoticeStage' = [NoticeStage EXCEPT ![m] = NoticeStage'[m]]
         /\ OrderStage'[m] = OrderStage[m] => OrderStage' = OrderStage
         /\ ShipmentStage'[m] = ShipmentStage[m] => ShipmentStage' = ShipmentStage
         /\ NoticeStage'[m] = NoticeStage[m] => NoticeStage' = NoticeStage
<1>1. \A n \in Messages \ {m} : /\ OrderStage'[n] = OrderStage[n]
                                /\ ShipmentStage'[n] = ShipmentStage[n]
                                /\ NoticeStage'[n] = NoticeStage[n]
  BY SameStages
<1>2. /\ OrderStage = [n \in Messages |-> OrderStage[n]]
      /\ OrderStage' = [n \in Messages |-> OrderStage'[n]]
  BY DEF OrderStage
<1>3. /\ ShipmentStage = [n \in Messages |-> ShipmentStage[n]]
      /\ ShipmentStage' = [n \in Messages |-> ShipmentStage'[n]]
  BY DEF ShipmentStage
<1>4. /\ NoticeStage = [n \in Messages |-> NoticeStage[n]]
      /\ NoticeStage' = [n \in Messages |-> NoticeStage'[n]]
  BY DEF NoticeStage
<1>5. OrderStage' = [OrderStage EXCEPT ![m] = OrderStage'[m]]
  BY <1>1, <1>2
<1>6. ShipmentStage' = [ShipmentStage EXCEPT ![m] = ShipmentStage'[m]]
  BY <1>1, <1>3
<1>7. NoticeStage' = [NoticeStage EXCEPT ![m] = NoticeStage'[m]]
  BY <1>1, <1>4
<1>8. /\ OrderStage'[m] = OrderStage[m] => OrderStage' = OrderStage
      /\ ShipmentStage'[m] = ShipmentStage[m] => ShipmentStage' = ShipmentStage
      /\ NoticeStage'[m] = NoticeStage[m] => NoticeStage' = NoticeStage
  BY <1>2, <1>3, <1>4, <1>5, <1>6, <1>7
<1>9. QED
  BY <1>5, <1>6, <1>7, <1>8

\* Nothing that OrderFlow sees of the orders has changed.
Still == UNCHANGED <<OrderStage, ShipmentStage, NoticeStage>>

LEMMA NoneMoves ==
  ASSUME \A n \in Messages : Same(n) PROVE Still
<1>1. \A n \in Messages : /\ OrderStage'[n] = OrderStage[n]
                          /\ ShipmentStage'[n] = ShipmentStage[n]
                          /\ NoticeStage'[n] = NoticeStage[n]
  BY SameStages
<1>2. OrderStage' = OrderStage
  BY <1>1 DEF OrderStage
<1>3. ShipmentStage' = ShipmentStage
  BY <1>1 DEF ShipmentStage
<1>4. NoticeStage' = NoticeStage
  BY <1>1 DEF NoticeStage
<1>5. QED
  BY <1>2, <1>3, <1>4 DEF Still


-----------------------------------------------------------------------------
\* Environment and tickers: a stop is OrderFlow's, the rest does not show.
LEMMA EnvironmentStep ==
  ASSUME \/ \E f \in InjectableFaults : Inject(f) \/ Clear(f)
         \/ Cancel \/ Restart \/ PaymentTick \/ PaymentPollEmpty
         \/ \E t \in Tickers : StopTicker(t)
         \/ UNCHANGED vars
  PROVE  [Flow!Next]_(Flow!flow)
<1>1. \A n \in Messages : Same(n)
  BY DEF Same, InOrderStage, Inject, Clear, Cancel, Restart, PaymentTick, PaymentPollEmpty,
         StopTicker, vars, env, orderVars, queues, payTicker, payVars, fulVars, notifVars
<1>2. Still
  BY <1>1, NoneMoves
<1>3. CASE Cancel
  <2>1. Flow!Stop
    BY <1>2, <1>3 DEF Flow!Stop, Still, Cancel, orderVars
  <2>2. QED
    BY <2>1 DEF Flow!Next
<1>4. CASE ~Cancel
  <2>1. UNCHANGED <<cancelled, poisoned>>
    BY <1>4 DEF Inject, Clear, Restart, PaymentTick, PaymentPollEmpty, StopTicker,
                vars, env, orderVars
  <2>2. QED
    BY <1>2, <2>1 DEF Flow!flow, Still
<1>5. QED
  BY <1>3, <1>4

\* The order ticker: building an order accepts it, and giving up in Send loses it.
LEMMA OrderStep ==
  ASSUME IInv, IInv', OrderTicker
  PROVE  [Flow!Next]_(Flow!flow)
<1>1. AllMapped /\ AllMapped'
  BY Mapping, MappingNext
<1>2. ASSUME NEW m \in Messages, OrderTick(m) PROVE Flow!Accept(m)
  <2>1. \A n \in Messages \ {m} : Same(n)
    BY <1>2, PipelineAssumption
       DEF OrderTick, Same, InOrderStage, queues, payVars, fulVars, notifVars
  <2>2. /\ m \notin born /\ payPc[m] = "none" /\ payPc'[m] = "none" /\ InOrderStage(m)'
    BY <1>2 DEF OrderTick, InOrderStage, IInv, Stages, payVars
  <2>3. /\ OrderStage[m] = "absent" /\ OrderStage'[m] = "accepted"
        /\ ShipmentStage[m] = NoMessage /\ ShipmentStage'[m] = NoMessage
        /\ NoticeStage[m] = NoMessage /\ NoticeStage'[m] = NoMessage
    BY <1>1, <2>2 DEF AllMapped, Mapped
  <2>4. /\ OrderStage' = [OrderStage EXCEPT ![m] = "accepted"]
        /\ UNCHANGED <<ShipmentStage, NoticeStage>>
    BY <2>1, <2>3, OneMoves
  <2>5. UNCHANGED cancelled /\ poisoned' \in {poisoned, poisoned \cup {m}}
    BY <1>2 DEF OrderTick, env
  <2>6. QED
    BY <2>3, <2>4, <2>5 DEF Flow!Accept
<1>3. ASSUME OrderSend PROVE UNCHANGED Flow!flow
  <2>1. orderSending \in Messages /\ Elems(orderQueue') = Elems(orderQueue) \cup {orderSending}
    BY <1>3, AppendFacts DEF OrderSend, IInv, TypeOK
  <2>2. \A n \in Messages : Same(n)
    BY <1>3, <2>1, PipelineAssumption DEF OrderSend, Same, InOrderStage, payVars, fulVars, notifVars
  <2>3. Still
    BY <2>2, NoneMoves
  <2>4. QED
    BY <1>3, <2>3 DEF OrderSend, Still, Flow!flow, env
<1>4. ASSUME OrderSendCancelled PROVE \E n \in Messages : Flow!Lose(n)
  <2>0. PICK m \in Messages : orderSending = m
    BY <1>4 DEF OrderSendCancelled, IInv, TypeOK
  <2>1. payPc[m] = "none" /\ m \in born /\ m \notin Elems(orderQueue) /\ InOrderStage(m)
    BY <2>0 DEF InOrderStage, IInv, OneOwner, Stages
  <2>2. \A n \in Messages \ {m} : Same(n)
    BY <1>4, <2>0, PipelineAssumption
       DEF OrderSendCancelled, Same, InOrderStage, queues, payVars, fulVars, notifVars
  <2>3. payPc'[m] = "none" /\ DroppedByTicker(m)'
    BY <1>4, <2>1, PipelineAssumption
       DEF OrderSendCancelled, InOrderStage, DroppedByTicker, queues, payVars
  <2>4. /\ OrderStage[m] = "accepted" /\ OrderStage'[m] = "lost"
        /\ ShipmentStage[m] = NoMessage /\ ShipmentStage'[m] = NoMessage
        /\ NoticeStage[m] = NoMessage /\ NoticeStage'[m] = NoMessage
    BY <1>1, <2>1, <2>3 DEF AllMapped, Mapped
  <2>5. /\ OrderStage' = [OrderStage EXCEPT ![m] = "lost"]
        /\ UNCHANGED <<ShipmentStage, NoticeStage>>
    BY <2>1, <2>2, <2>4, OneMoves
  <2>6. cancelled /\ UNCHANGED <<cancelled, poisoned>>
    BY <1>4 DEF OrderSendCancelled, env
  <2>7. QED
    BY <2>1, <2>4, <2>5, <2>6 DEF Flow!Lose
<1>5. QED
  BY <1>2, <1>3, <1>4 DEF OrderTicker, Flow!Next

\* A step of the goroutine of one order in payment moves no other order, and its own
\* no further than the flow of its stage tells.
LEMMA PaymentMoves ==
  ASSUME IInv, NEW m \in Messages, PaymentWorker(m)
  PROVE  /\ \A n \in Messages \ {m} : Same(n)
         /\ UNCHANGED <<cancelled, poisoned>>
         /\ fulPc'[m] = fulPc[m] /\ notifPc'[m] = notifPc[m]
<1>1. ASSUME NEW pc, NEW n \in Messages \ {m}, payPc' = [payPc EXCEPT ![m] = pc]
      PROVE  payPc'[n] = payPc[n]
  BY <1>1 DEF IInv, TypeOK
<1>2. \A n \in Messages \ {m} : n \in Elems(notifSub') <=> n \in Elems(notifSub)
  <2>1. CASE PaymentFanOut(m)
    BY <2>1, AppendFacts DEF PaymentFanOut, IInv, TypeOK
  <2>2. CASE UNCHANGED notifSub
    BY <2>2
  <2>3. QED
    BY <2>1, <2>2 DEF PaymentWorker, PaymentValidate, PaymentAttemptPasses, PaymentAttemptFails,
         PaymentBackoffEnds, PaymentSend, PaymentDeadLetter, PaymentCancelled, queues
<1>3. \E pc : payPc' = [payPc EXCEPT ![m] = pc]
  BY DEF PaymentWorker, PaymentValidate, PaymentAttemptPasses, PaymentAttemptFails,
         PaymentBackoffEnds, PaymentSend, PaymentFanOut, PaymentDeadLetter, PaymentCancelled,
         PaymentGoto
<1>4. UNCHANGED <<cancelled, poisoned, born, orderSending, orderQueue, fulPc, notifPc>>
  BY DEF PaymentWorker, PaymentValidate, PaymentAttemptPasses, PaymentAttemptFails,
         PaymentBackoffEnds, PaymentSend, PaymentFanOut, PaymentDeadLetter, PaymentCancelled,
         queues, env, orderVars, fulVars, notifVars
<1>5. QED
  BY <1>1, <1>2, <1>3, <1>4 DEF Same, InOrderStage

\* The payment goroutine of an order: attempts do not show, a send pays it, a dead letter
\* dead-letters it, and cancellation loses it or, after the send, its notification.
LEMMA PaymentStep ==
  ASSUME IInv, IInv', NEW m \in Messages, PaymentWorker(m)
  PROVE  [Flow!Next]_(Flow!flow)
<1>1. /\ Mapped(m) /\ MappedShipment(m) /\ MappedNotice(m)
      /\ Mapped(m)' /\ MappedShipment(m)' /\ MappedNotice(m)'
  BY Mapping, MappingNext DEF AllMapped
<1>2. payPc \in [Messages -> PaymentPcs]
  BY DEF IInv, TypeOK
<1>3. payPc[m] \in InPayment => fulPc[m] = "none" /\ notifPc[m] = "none"
  BY DEF IInv, OnlyPaidOrdersShip, InPayment
<1>4. payPc[m] = "fanout" => notifPc[m] = "none" /\ m \notin Elems(notifSub)
  BY DEF IInv, OnlyPaidOrdersShip
<1>5. /\ UNCHANGED <<cancelled, poisoned>>
      /\ fulPc'[m] = fulPc[m] /\ notifPc'[m] = notifPc[m]
  BY PaymentMoves
<1>6. /\ OrderStage' = [OrderStage EXCEPT ![m] = OrderStage'[m]]
      /\ ShipmentStage' = [ShipmentStage EXCEPT ![m] = ShipmentStage'[m]]
      /\ NoticeStage' = [NoticeStage EXCEPT ![m] = NoticeStage'[m]]
      /\ OrderStage'[m] = OrderStage[m] => OrderStage' = OrderStage
      /\ ShipmentStage'[m] = ShipmentStage[m] => ShipmentStage' = ShipmentStage
      /\ NoticeStage'[m] = NoticeStage[m] => NoticeStage' = NoticeStage
  BY PaymentMoves, OneMoves
<1>7. CASE \/ PaymentValidate(m) \/ PaymentAttemptPasses(m)
           \/ PaymentAttemptFails(m) \/ PaymentBackoffEnds(m)
  <2>1. payPc[m] \in InPayment /\ payPc'[m] \in InPayment
    BY <1>2, <1>7 DEF PaymentValidate, PaymentAttemptPasses, PaymentAttemptFails,
         PaymentBackoffEnds, PaymentGoto, InPayment
  <2>2. Still
    BY <1>1, <1>6, <2>1 DEF Mapped, Still, InPayment
  <2>3. QED
    BY <1>5, <2>2 DEF Still, Flow!flow
<1>8. CASE PaymentSend(m)
  <2>1. payPc[m] = "sending" /\ payPc'[m] = "fanout" /\ m \notin poisoned
    BY <1>2, <1>8 DEF PaymentSend, PaymentGoto, IInv, Stages
  <2>2. /\ OrderStage[m] = "accepted" /\ OrderStage'[m] = "paid"
        /\ ShipmentStage'[m] = "owed" /\ NoticeStage'[m] = "owed"
    BY <1>1, <1>3, <1>5, <2>1 DEF Mapped, MappedShipment, MappedNotice, InPayment
  <2>3. Flow!Pay(m)
    BY <1>5, <1>6, <2>1, <2>2 DEF Flow!Pay
  <2>4. QED
    BY <2>3 DEF Flow!Next
<1>9. CASE PaymentFanOut(m)
  <2>1. payPc[m] = "fanout" /\ payPc'[m] = "paid"
    BY <1>2, <1>9 DEF PaymentFanOut, PaymentGoto
  <2>2. m \in Elems(notifSub')
    BY <1>9, AppendFacts DEF PaymentFanOut, IInv, TypeOK
  <2>3. OrderStage[m] = "paid" /\ OrderStage'[m] = "paid"
    BY <1>1, <2>1 DEF Mapped
  <2>4. ShipmentStage'[m] = ShipmentStage[m]
    BY <1>5, <2>3 DEF ShipmentStage
  <2>5. NoticeStage[m] = "owed" /\ NoticeStage'[m] = "owed"
    BY <1>1, <2>1, <2>2 DEF MappedNotice
  <2>6. QED
    BY <1>5, <1>6, <2>3, <2>4, <2>5 DEF Flow!flow
<1>10. CASE PaymentDeadLetter(m)
  <2>1. payPc[m] \in {"rejecting", "exhausted"} /\ payPc'[m] = "dead"
    BY <1>2, <1>10 DEF PaymentDeadLetter, PaymentGoto
  <2>2. /\ OrderStage[m] = "accepted" /\ OrderStage'[m] = "dead"
        /\ ShipmentStage'[m] = ShipmentStage[m] /\ NoticeStage'[m] = NoticeStage[m]
    BY <1>1, <2>1 DEF Mapped, InPayment
  <2>3. Flow!DeadLetter(m)
    BY <1>5, <1>6, <2>2 DEF Flow!DeadLetter
  <2>4. QED
    BY <2>3 DEF Flow!Next
<1>11. CASE PaymentCancelled(m) /\ payPc[m] = "fanout"
  <2>1. payPc'[m] = "paid" /\ cancelled /\ notifSub' = notifSub
    BY <1>2, <1>11 DEF PaymentCancelled, PaymentGoto, queues
  <2>2. CopyDropped(m)'
    BY <1>4, <1>5, <1>11, <2>1 DEF CopyDropped
  <2>3. OrderStage[m] = "paid" /\ OrderStage'[m] = "paid"
    BY <1>1, <1>11, <2>1 DEF Mapped
  <2>4. ShipmentStage'[m] = ShipmentStage[m]
    BY <1>5, <2>3 DEF ShipmentStage
  <2>5. NoticeStage[m] = "owed" /\ NoticeStage'[m] = "lost"
    BY <1>1, <1>4, <1>5, <1>11, <2>1, <2>2 DEF MappedNotice
  <2>6. Flow!Notify(m)
    BY <1>5, <1>6, <2>1, <2>3, <2>4, <2>5 DEF Flow!Notify, Flow!Settle
  <2>7. QED
    BY <2>6 DEF Flow!Next
<1>12. CASE PaymentCancelled(m) /\ payPc[m] # "fanout"
  <2>1. payPc[m] \in InPayment /\ payPc'[m] = "dropped" /\ cancelled
    BY <1>2, <1>12 DEF PaymentCancelled, PaymentGoto, InPayment
  <2>2. /\ OrderStage[m] = "accepted" /\ OrderStage'[m] = "lost"
        /\ ShipmentStage'[m] = ShipmentStage[m] /\ NoticeStage'[m] = NoticeStage[m]
    BY <1>1, <2>1 DEF Mapped, InPayment
  <2>3. Flow!Lose(m)
    BY <1>5, <1>6, <2>1, <2>2 DEF Flow!Lose
  <2>4. QED
    BY <2>3 DEF Flow!Next
<1>13. QED
  BY <1>7, <1>8, <1>9, <1>10, <1>11, <1>12 DEF PaymentWorker

\* The payment ticker takes an order from its queue: OrderFlow sees it accepted still.
LEMMA PaymentPollStep ==
  ASSUME IInv, IInv', PaymentPoll
  PROVE  UNCHANGED Flow!flow
<1>1. PICK m \in Messages : m = Head(orderQueue)
  BY TailFacts DEF PaymentPoll, IInv, TypeOK
<1>2. /\ m \in Elems(orderQueue)
      /\ Elems(orderQueue) = Elems(orderQueue') \cup {m}
  BY <1>1, TailFacts DEF PaymentPoll, IInv, TypeOK
<1>3. payPc' = [payPc EXCEPT ![m] = "validate"] /\ payPc \in [Messages -> PaymentPcs]
  BY <1>1 DEF PaymentPoll, IInv, TypeOK
<1>4. UNCHANGED <<cancelled, poisoned, born, orderSending, notifSub, fulPc, notifPc>>
  BY DEF PaymentPoll, env, orderVars, fulVars, notifVars
<1>5. \A n \in Messages \ {m} : Same(n)
  BY <1>2, <1>3, <1>4 DEF Same, InOrderStage
<1>6. InOrderStage(m) /\ payPc[m] = "none" /\ payPc'[m] = "validate"
  BY <1>2, <1>3 DEF InOrderStage, IInv, OneOwner
<1>7. /\ OrderStage'[m] = OrderStage[m] /\ ShipmentStage'[m] = ShipmentStage[m]
      /\ NoticeStage'[m] = NoticeStage[m]
  BY <1>6, Mapping, MappingNext DEF AllMapped, Mapped, InPayment
<1>8. QED
  BY <1>4, <1>5, <1>7, OneMoves DEF Flow!flow

\* Fulfillment: taking an order and trying do not show, its outcomes settle the shipment.
LEMMA FulfillmentStep ==
  ASSUME IInv, IInv', FulfillmentPoll \/ \E m \in Messages : FulfillmentWorker(m)
  PROVE  [Flow!Next]_(Flow!flow)
<1>1. PICK m \in Messages : FulfillmentWorker(m) \/ (FulfillmentPoll /\ m = Head(paymentQueue))
  BY TailFacts DEF FulfillmentPoll, IInv, TypeOK
<1>2. UNCHANGED <<cancelled, poisoned, born, orderSending, orderQueue, notifSub, payPc, notifPc>>
  BY <1>1 DEF FulfillmentPoll, FulfillmentWorker, FulfillmentAttemptPasses,
       FulfillmentAttemptFails, FulfillmentBackoffEnds, FulfillmentCancelled, FulfillmentGoto,
       env, orderVars, queues, payVars, notifVars
<1>3. PICK pc : fulPc' = [fulPc EXCEPT ![m] = pc]
  BY <1>1 DEF FulfillmentPoll, FulfillmentWorker, FulfillmentAttemptPasses,
       FulfillmentAttemptFails, FulfillmentBackoffEnds, FulfillmentCancelled, FulfillmentGoto
<1>4. fulPc \in [Messages -> FulfillmentPcs]
  BY DEF IInv, TypeOK
<1>5. \A n \in Messages \ {m} : Same(n)
  BY <1>2, <1>3, <1>4 DEF Same, InOrderStage
<1>6. fulPc[m] \in {"none", "attempt", "backoff"} /\ payPc[m] \in {"fanout", "paid"}
  <2>1. CASE FulfillmentPoll /\ m = Head(paymentQueue)
    <3>1. m \in Elems(paymentQueue)
      BY <2>1, TailFacts DEF FulfillmentPoll, IInv, TypeOK
    <3>2. QED
      BY <3>1 DEF IInv, OneOwner, OnlyPaidOrdersShip
  <2>2. CASE FulfillmentWorker(m)
    <3>1. fulPc[m] \in {"attempt", "backoff"}
      BY <2>2 DEF FulfillmentWorker, FulfillmentAttemptPasses, FulfillmentAttemptFails,
           FulfillmentBackoffEnds, FulfillmentCancelled
    <3>2. QED
      BY <3>1 DEF IInv, OnlyPaidOrdersShip
  <2>3. QED
    BY <1>1, <2>1, <2>2
<1>7. /\ fulPc'[m] \in {"attempt", "backoff", "processed", "discarded", "dropped"}
      /\ fulPc'[m] = "dropped" => cancelled
  BY <1>1, <1>4 DEF FulfillmentPoll, FulfillmentWorker, FulfillmentAttemptPasses,
       FulfillmentAttemptFails, FulfillmentBackoffEnds, FulfillmentCancelled, FulfillmentGoto
<1>8. /\ Mapped(m) /\ MappedShipment(m) /\ Mapped(m)' /\ MappedShipment(m)'
  BY Mapping, MappingNext DEF AllMapped
<1>9. /\ OrderStage[m] = "paid" /\ OrderStage'[m] = "paid" /\ ShipmentStage[m] = "owed"
      /\ ShipmentStage'[m] \in {"owed", "processed", "discarded", "lost"}
      /\ ShipmentStage'[m] = "lost" => cancelled
  BY <1>2, <1>6, <1>7, <1>8 DEF Mapped, MappedShipment
<1>10. NoticeStage'[m] = NoticeStage[m]
  <2>1. CopyDropped(m)' <=> CopyDropped(m)
    BY <1>2 DEF CopyDropped
  <2>2. QED
    BY <1>2, <1>9, <2>1 DEF NoticeStage
<1>11. /\ UNCHANGED <<cancelled, poisoned, OrderStage, NoticeStage>>
       /\ ShipmentStage' = [ShipmentStage EXCEPT ![m] = ShipmentStage'[m]]
       /\ ShipmentStage'[m] = ShipmentStage[m] => ShipmentStage' = ShipmentStage
  BY <1>2, <1>5, <1>9, <1>10, OneMoves
<1>12. CASE ShipmentStage'[m] = "owed"
  BY <1>9, <1>11, <1>12 DEF Flow!flow
<1>13. CASE ShipmentStage'[m] # "owed"
  <2>1. Flow!Ship(m)
    BY <1>9, <1>11, <1>13 DEF Flow!Ship, Flow!Settle
  <2>2. QED
    BY <2>1 DEF Flow!Next
<1>14. QED
  BY <1>12, <1>13

\* Notification: taking a copy and trying do not show, its outcomes settle the notice.
LEMMA NotificationStep ==
  ASSUME IInv, IInv', NotificationPoll \/ \E m \in Messages : NotificationWorker(m)
  PROVE  [Flow!Next]_(Flow!flow)
<1>1. PICK m \in Messages : NotificationWorker(m) \/ (NotificationPoll /\ m = Head(notifSub))
  BY TailFacts DEF NotificationPoll, IInv, TypeOK
<1>2. UNCHANGED <<cancelled, poisoned, born, orderSending, orderQueue, payPc, fulPc>>
  BY <1>1 DEF NotificationPoll, NotificationWorker, NotificationAttemptPasses,
       NotificationAttemptFails, NotificationBackoffEnds, NotificationDeadLetter,
       NotificationCancelled, NotificationGoto, env, orderVars, payVars, fulVars
<1>3. PICK pc : notifPc' = [notifPc EXCEPT ![m] = pc]
  BY <1>1 DEF NotificationPoll, NotificationWorker, NotificationAttemptPasses,
       NotificationAttemptFails, NotificationBackoffEnds, NotificationDeadLetter,
       NotificationCancelled, NotificationGoto
<1>4. notifPc \in [Messages -> NotificationPcs]
  BY DEF IInv, TypeOK
<1>5. \A n \in Messages \ {m} : n \in Elems(notifSub') <=> n \in Elems(notifSub)
  <2>1. CASE NotificationPoll /\ m = Head(notifSub)
    <3>1. Elems(notifSub) = Elems(notifSub') \cup {m}
      BY <2>1, TailFacts DEF NotificationPoll, IInv, TypeOK
    <3>2. QED
      BY <3>1
  <2>2. CASE UNCHANGED notifSub
    BY <2>2
  <2>3. QED
    BY <1>1, <2>1, <2>2 DEF NotificationWorker, NotificationAttemptPasses,
       NotificationAttemptFails, NotificationBackoffEnds, NotificationDeadLetter,
       NotificationCancelled, NotificationGoto
<1>6. \A n \in Messages \ {m} : Same(n)
  BY <1>2, <1>3, <1>4, <1>5 DEF Same, InOrderStage
<1>7. /\ m \in Elems(notifSub) \/ notifPc[m] \in {"attempt", "backoff", "exhausted"}
      /\ payPc[m] = "paid"
  <2>1. CASE NotificationPoll /\ m = Head(notifSub)
    <3>1. m \in Elems(notifSub)
      BY <2>1, TailFacts DEF NotificationPoll, IInv, TypeOK
    <3>2. QED
      BY <3>1 DEF IInv, OnlyPaidOrdersShip
  <2>2. CASE NotificationWorker(m)
    <3>1. notifPc[m] \in {"attempt", "backoff", "exhausted"}
      BY <2>2 DEF NotificationWorker, NotificationAttemptPasses, NotificationAttemptFails,
           NotificationBackoffEnds, NotificationDeadLetter, NotificationCancelled
    <3>2. QED
      BY <3>1 DEF IInv, OnlyPaidOrdersShip
  <2>3. QED
    BY <1>1, <2>1, <2>2
<1>8. /\ notifPc'[m] \in {"attempt", "backoff", "exhausted", "processed", "dead", "dropped"}
      /\ notifPc'[m] = "dropped" => cancelled
  BY <1>1, <1>4 DEF NotificationPoll, NotificationWorker, NotificationAttemptPasses,
       NotificationAttemptFails, NotificationBackoffEnds, NotificationDeadLetter,
       NotificationCancelled, NotificationGoto
<1>9. /\ Mapped(m) /\ MappedNotice(m) /\ Mapped(m)' /\ MappedNotice(m)'
  BY Mapping, MappingNext DEF AllMapped
<1>10. /\ OrderStage[m] = "paid" /\ OrderStage'[m] = "paid" /\ NoticeStage[m] = "owed"
       /\ NoticeStage'[m] \in {"owed", "processed", "dead", "lost"}
       /\ NoticeStage'[m] = "lost" => cancelled
  <2>1. notifPc'[m] = "dropped" => CopyDropped(m)'
    BY DEF CopyDropped
  <2>2. QED
    BY <1>2, <1>7, <1>8, <1>9, <2>1 DEF Mapped, MappedNotice
<1>11. ShipmentStage'[m] = ShipmentStage[m]
  BY <1>2, <1>10 DEF ShipmentStage
<1>12. /\ UNCHANGED <<cancelled, poisoned, OrderStage, ShipmentStage>>
       /\ NoticeStage' = [NoticeStage EXCEPT ![m] = NoticeStage'[m]]
       /\ NoticeStage'[m] = NoticeStage[m] => NoticeStage' = NoticeStage
  BY <1>2, <1>6, <1>10, <1>11, OneMoves
<1>13. CASE NoticeStage'[m] = "owed"
  BY <1>10, <1>12, <1>13 DEF Flow!flow
<1>14. CASE NoticeStage'[m] # "owed"
  <2>1. Flow!Notify(m)
    BY <1>10, <1>12, <1>14 DEF Flow!Notify, Flow!Settle
  <2>2. QED
    BY <2>1 DEF Flow!Next
<1>15. QED
  BY <1>13, <1>14

-----------------------------------------------------------------------------
\* The pipeline starts as an order flow does.
LEMMA FlowInit == Init => Flow!Init
<1> SUFFICES ASSUME Init PROVE Flow!Init
  OBVIOUS
<1>1. OrderStage = [m \in Messages |-> "absent"]
  BY DEF Init, OrderStage
<1>2. /\ ShipmentStage = [m \in Messages |-> NoMessage]
      /\ NoticeStage = [m \in Messages |-> NoMessage]
  BY <1>1 DEF ShipmentStage, NoticeStage
<1>3. QED
  BY <1>1, <1>2 DEF Init, Flow!Init

\* Every step of the pipeline is a step of the order flow, or none.
LEMMA FlowStep == IInv /\ [Next]_vars => [Flow!Next]_(Flow!flow)
<1> SUFFICES ASSUME IInv, [Next]_vars PROVE [Flow!Next]_(Flow!flow)
  OBVIOUS
<1>1. IInv'
  BY NextIInv
<1>2. QED
  BY <1>1, EnvironmentStep, OrderStep, PaymentPollStep, PaymentStep, FulfillmentStep,
     NotificationStep DEF Next, PaymentTicker

\* Whatever the buffers, attempts and faults, the four services and their queues
\* together are an order flow: nothing is settled twice or taken back, nothing overtakes
\* payment, and nothing is lost before the process is told to stop.
THEOREM PipelineImplementsOrderFlow == Spec => ImplementsOrderFlow
<1>1. Spec => []IInv
  BY Invariance
<1>2. QED
  BY <1>1, FlowInit, FlowStep, PTL DEF Spec, ImplementsOrderFlow, Flow!Spec
=============================================================================
