---------------------------- MODULE QueueProofs ----------------------------
(***************************************************************************)
(* What the counters, the metrics rows and the fan-out of the queue add up *)
(* to, for any number of producers, consumers, metrics writers and         *)
(* subscriptions, any buffer size and any number of messages.              *)
(***************************************************************************)
EXTENDS Queue, SumTheorems

-----------------------------------------------------------------------------
SendStates ==
  [pc : {"idle", "put", "depth", "enqueued", "snapshot", "loop"}, at : Queues,
   msg : Messages \cup {<<>>}, todo : Seq(Subs), subs : SUBSET Subs]

FlushStates ==
  [pc : {"idle", "dequeued", "depth", "insert"}, enq : Nat, deq : Nat]

Types ==
  /\ cancelled \in BOOLEAN
  /\ ch \in [Queues -> Seq(Messages)]
  /\ \A q \in Queues : Len(ch[q]) <= QueueBufferSize
  /\ depth \in [Queues -> Int]
  /\ enqueued \in [Queues -> Nat] /\ dequeued \in [Queues -> Nat]
  /\ subscribers \in Seq(Subs)
  /\ sent \in [Producers -> 0..MaxSends]
  /\ send \in [Producers -> SendStates]
  /\ recv \in [Consumers -> {"idle", "depth", "dequeued"}]
  /\ flush \in [Flushers -> FlushStates]
  /\ rows \in [Queues -> [enq : Nat, deq : Nat]] /\ lost \in [Queues -> [enq : Nat, deq : Nat]]
  /\ log \in [Queues -> Seq(Messages)]

\* A Send is in its first half, on Main, or in its second, on the subscriptions.
Opening(s) == s.at = Main /\ s.pc \in {"put", "depth", "enqueued", "snapshot"}

\* Where the Send s of producer p stands, which has begun n messages: its message is the
\* n-th, it has reached Main if the Send is past that, and none of the queues yet to come.
SendInOrder(s, p, n, lg) ==
  s.pc # "idle" =>
    /\ n >= 1
    /\ s.msg = <<p, n>>
    /\ IsInjective(s.todo)
    /\ s.pc = "put" => s.msg \notin ToSet(lg[s.at]) /\ s.at \notin ToSet(s.todo)
    /\ s.pc = "snapshot" => s.at = Main
    /\ \A q \in ToSet(s.todo) : s.msg \notin ToSet(lg[q])
    /\ Opening(s) => s.todo = <<>> /\ \A q \in Subs : s.msg \notin ToSet(lg[q])
    /\ s.at # Main \/ s.pc # "put" => s.msg \in ToSet(lg[Main])

\* A channel gets a message at most once, Main before any other; producers send their
\* messages one after the other, and the subscriptions are distinct.
LogsInOrder ==
  /\ \A q \in Queues : IsInjective(log[q]) /\ ToSet(log[q]) \subseteq ToSet(log[Main])
  /\ \A p \in Producers, k \in 1..MaxSends : <<p, k>> \in ToSet(log[Main]) => k <= sent[p]

SendsInOrder == \A p \in Producers : SendInOrder(send[p], p, sent[p], log)

\* What the Send s still owes to the subscriptions there were when it began.
CopiesOwed(s, lg, subscribed) ==
  s.pc # "idle" =>
    \A q \in s.subs :
      IF Opening(s) THEN q \in ToSet(subscribed)
      ELSE s.msg \in ToSet(lg[q]) \/ q \in ToSet(s.todo) \/ (s.pc = "put" /\ q = s.at)

NoCopyForgotten ==
  ~cancelled => \A p \in Producers : CopiesOwed(send[p], log, subscribers)

\* A flusher has nothing in its hands of what it is about to take.
HandsEmpty ==
  \A f \in Flushers :
    /\ flush[f].pc = "idle" => flush[f].enq = 0
    /\ flush[f].pc \in {"idle", "dequeued"} => flush[f].deq = 0

IInv ==
  /\ Types /\ IsInjective(subscribers) /\ HandsEmpty
  /\ DepthNeverDrifts /\ EveryMessageCountedOnce
  /\ LogsInOrder /\ SendsInOrder /\ NoCopyForgotten

-----------------------------------------------------------------------------
\* Sequences as sets, and without duplicates.
LEMMA ToSetFacts ==
  ASSUME NEW S, NEW s \in Seq(S)
  PROVE  /\ ToSet(s) \subseteq S
         /\ ToSet(<<>>) = {} /\ IsInjective(<<>>)
         /\ \A e \in S : ToSet(Append(s, e)) = ToSet(s) \cup {e}
         /\ \A e \in S : IsInjective(s) /\ e \notin ToSet(s) => IsInjective(Append(s, e))
<1>1. ToSet(s) \subseteq S
  BY DEF ToSet
<1>2. ToSet(<<>>) = {} /\ IsInjective(<<>>)
  BY DEF ToSet, IsInjective
<1>3. ASSUME NEW e \in S PROVE ToSet(Append(s, e)) = ToSet(s) \cup {e}
  <2>1. DOMAIN Append(s, e) = DOMAIN s \cup {Len(s) + 1}
    OBVIOUS
  <2>2. \A i \in DOMAIN s : Append(s, e)[i] = s[i]
    OBVIOUS
  <2>3. Append(s, e)[Len(s) + 1] = e
    OBVIOUS
  <2>4. QED
    BY <2>1, <2>2, <2>3 DEF ToSet
<1>4. ASSUME NEW e \in S, IsInjective(s), e \notin ToSet(s)
      PROVE  IsInjective(Append(s, e))
  <2>1. \A i \in DOMAIN s : s[i] # e
    BY <1>4 DEF ToSet
  <2>2. \A i \in DOMAIN Append(s, e) : i \in DOMAIN s \/ i = Len(s) + 1
    OBVIOUS
  <2>3. \A i \in DOMAIN s : Append(s, e)[i] = s[i]
    OBVIOUS
  <2>4. Append(s, e)[Len(s) + 1] = e
    OBVIOUS
  <2>5. QED
    BY <1>4, <2>1, <2>2, <2>3, <2>4 DEF IsInjective
<1>5. QED
  BY <1>1, <1>2, <1>3, <1>4

LEMMA TailFacts ==
  ASSUME NEW S, NEW s \in Seq(S), s # <<>>
  PROVE  /\ Head(s) \in S /\ Tail(s) \in Seq(S)
         /\ ToSet(s) = ToSet(Tail(s)) \cup {Head(s)}
         /\ IsInjective(s) => IsInjective(Tail(s)) /\ Head(s) \notin ToSet(Tail(s))
<1>1. /\ Head(s) \in S /\ Tail(s) \in Seq(S) /\ Head(s) = s[1]
      /\ Len(s) \in Nat \ {0} /\ DOMAIN s = 1..Len(s) /\ DOMAIN Tail(s) = 1..(Len(s) - 1)
      /\ \A i \in DOMAIN Tail(s) : Tail(s)[i] = s[i + 1]
  OBVIOUS
<1>2. ToSet(s) = ToSet(Tail(s)) \cup {Head(s)}
  <2>1. ASSUME NEW i \in DOMAIN s PROVE s[i] \in ToSet(Tail(s)) \cup {Head(s)}
    <3>1. CASE i = 1
      BY <1>1, <3>1
    <3>2. CASE i # 1
      <4>1. i - 1 \in DOMAIN Tail(s) /\ (i - 1) + 1 = i
        BY <1>1, <3>2
      <4>2. Tail(s)[i - 1] = s[i]
        BY <1>1, <4>1
      <4>3. QED
        BY <4>1, <4>2 DEF ToSet
    <3>3. QED
      BY <3>1, <3>2
  <2>2. ASSUME NEW i \in DOMAIN Tail(s) PROVE Tail(s)[i] \in ToSet(s)
    <3>1. i + 1 \in DOMAIN s /\ Tail(s)[i] = s[i + 1]
      BY <1>1
    <3>2. QED
      BY <3>1 DEF ToSet
  <2>3. Head(s) \in ToSet(s)
    BY <1>1 DEF ToSet
  <2>4. QED
    BY <2>1, <2>2, <2>3 DEF ToSet
<1>3. ASSUME IsInjective(s) PROVE IsInjective(Tail(s)) /\ Head(s) \notin ToSet(Tail(s))
  <2>1. \A i \in DOMAIN Tail(s) : i + 1 \in DOMAIN s /\ i + 1 # 1
    BY <1>1
  <2>2. \A i, j \in DOMAIN Tail(s) : i + 1 = j + 1 => i = j
    BY <1>1
  <2>3. IsInjective(Tail(s))
    BY <1>1, <1>3, <2>1, <2>2 DEF IsInjective
  <2>4. \A i \in DOMAIN Tail(s) : Tail(s)[i] # s[1]
    BY <1>1, <1>3, <2>1 DEF IsInjective
  <2>5. QED
    BY <1>1, <2>3, <2>4 DEF ToSet
<1>4. QED
  BY <1>1, <1>2, <1>3

-----------------------------------------------------------------------------
LEMMA IdleType == Idle \in SendStates
BY ToSetFacts, QueueAssumption DEF Idle, SendStates, Queues

\* The steps of a Send leave the other producers where they are.
OnlySender(p) == \A r \in Producers \ {p} : send'[r] = send[r]

LEMMA SendTypes ==
  ASSUME Types, SendsInOrder, NEW p \in Producers, Producer(p)
  PROVE  /\ OnlySender(p) /\ send'[p] \in SendStates
         /\ send' \in [Producers -> SendStates]
<1>1. send \in [Producers -> SendStates]
  BY DEF Types
<1>2. send[p] \in SendStates
  BY <1>1
<1>3. CASE SendCall(p)
  <2>1. <<p, sent[p] + 1>> \in Messages
    <3>1. sent[p] \in 0..MaxSends /\ sent[p] < MaxSends
      BY <1>3 DEF SendCall, Types
    <3>2. sent[p] + 1 \in 1..MaxSends
      BY <3>1, QueueAssumption
    <3>3. QED
      BY <3>2 DEF Messages
  <2>2. ToSet(subscribers) \in SUBSET Subs
    BY ToSetFacts DEF Types
  <2>3. /\ OnlySender(p)
        /\ send'[p] = [pc |-> "put", at |-> Main, msg |-> <<p, sent[p] + 1>>,
                       todo |-> <<>>, subs |-> ToSet(subscribers)]
        /\ DOMAIN send' = Producers
    BY <1>1, <1>3 DEF SendCall, OnlySender
  <2>4. send'[p] \in SendStates
    BY <2>1, <2>2, <2>3 DEF SendStates, Queues
  <2>5. QED
    BY <1>1, <1>3, <2>3, <2>4 DEF OnlySender, SendCall
<1>4. CASE SendPut(p)
  BY <1>1, <1>2, <1>4 DEF SendPut, OnlySender, SendStates
<1>5. CASE SendAddDepth(p)
  BY <1>1, <1>2, <1>5 DEF SendAddDepth, OnlySender, SendStates
<1>6. CASE SendAddEnqueued(p)
  BY <1>1, <1>2, <1>6 DEF SendAddEnqueued, OnlySender, SendStates
<1>7. CASE SendSnapshot(p)
  BY <1>1, <1>2, <1>7 DEF SendSnapshot, OnlySender, SendStates, Types
<1>8. CASE SendNextSub(p)
  <2>1. /\ Head(send[p].todo) \in Subs /\ Tail(send[p].todo) \in Seq(Subs)
    BY <1>2, <1>8, TailFacts DEF SendNextSub, SendStates
  <2>2. QED
    BY <1>1, <1>2, <1>8, <2>1 DEF SendNextSub, OnlySender, SendStates, Queues
<1>9. CASE SendReturn(p)
  BY <1>1, <1>2, <1>9, IdleType DEF SendReturn, OnlySender
<1>10. CASE SendCancelled(p)
  <2>1. [send[p] EXCEPT !.pc = "loop"] \in SendStates
    BY <1>2 DEF SendStates
  <2>2. QED
    BY <1>1, <1>2, <1>10, <2>1, IdleType DEF SendCancelled, OnlySender
<1>11. QED
  BY <1>3, <1>4, <1>5, <1>6, <1>7, <1>8, <1>9, <1>10 DEF Producer

\* A message that is about to be put on a channel is one of the producer's.
LEMMA MessageType ==
  ASSUME Types, SendsInOrder, NEW p \in Producers, send[p].pc # "idle"
  PROVE  send[p].msg \in Messages /\ send[p].msg = <<p, sent[p]>>
<1>1. sent[p] >= 1 /\ send[p].msg = <<p, sent[p]>>
  BY DEF SendsInOrder, SendInOrder
<1>2. sent[p] \in 1..MaxSends
  BY <1>1, QueueAssumption DEF Types
<1>3. QED
  BY <1>1, <1>2 DEF Messages

-----------------------------------------------------------------------------
LEMMA TypesInit == Init => Types /\ IsInjective(subscribers)
<1> SUFFICES ASSUME Init PROVE Types /\ IsInjective(subscribers)
  OBVIOUS
<1>1. <<>> \in Seq(Messages) /\ <<>> \in Seq(Subs) /\ Len(<<>>) = 0
  OBVIOUS
<1>2. /\ ch \in [Queues -> Seq(Messages)] /\ log \in [Queues -> Seq(Messages)]
      /\ \A q \in Queues : Len(ch[q]) <= QueueBufferSize
  BY <1>1, QueueAssumption DEF Init
<1>3. /\ depth \in [Queues -> Int] /\ enqueued \in [Queues -> Nat]
      /\ dequeued \in [Queues -> Nat] /\ sent \in [Producers -> 0..MaxSends]
  BY QueueAssumption DEF Init
<1>4. send \in [Producers -> SendStates]
  BY IdleType DEF Init
<1>5. flush \in [Flushers -> FlushStates]
  BY DEF Init, FlushStates
<1>6. rows \in [Queues -> [enq : Nat, deq : Nat]] /\ lost \in [Queues -> [enq : Nat, deq : Nat]]
  BY DEF Init
<1>7. cancelled \in BOOLEAN /\ recv \in [Consumers -> {"idle", "depth", "dequeued"}]
  BY DEF Init
<1>8. subscribers \in Seq(Subs) /\ IsInjective(subscribers)
  BY <1>1 DEF Init, IsInjective
<1>9. QED
  BY <1>2, <1>3, <1>4, <1>5, <1>6, <1>7, <1>8 DEF Types

LEMMA TypesStep ==
  ASSUME Types, IsInjective(subscribers), SendsInOrder, [Next]_vars
  PROVE  Types' /\ IsInjective(subscribers')
<1>1. CASE Cancel
  BY <1>1 DEF Cancel, Types
<1>2. ASSUME NEW q \in Subs, Subscribe(q) PROVE Types' /\ IsInjective(subscribers')
  <2>1. subscribers' \in Seq(Subs) /\ IsInjective(subscribers')
    BY <1>2, ToSetFacts DEF Subscribe, Types
  <2>2. QED
    BY <1>2, <2>1 DEF Subscribe, Types
<1>3. ASSUME NEW p \in Producers, Producer(p) PROVE Types' /\ IsInjective(subscribers')
  <2>1. send' \in [Producers -> SendStates]
    BY <1>3, SendTypes
  <2>2. send[p] \in SendStates
    BY DEF Types
  <2>3. CASE SendCall(p)
    <3>1. sent \in [Producers -> 0..MaxSends] /\ sent[p] < MaxSends
      BY <2>3 DEF SendCall, Types
    <3>2. sent' = [sent EXCEPT ![p] = @ + 1]
      BY <2>3 DEF SendCall
    <3>3. sent' \in [Producers -> 0..MaxSends]
      BY <3>1, <3>2, QueueAssumption
    <3>4. QED
      BY <2>1, <2>3, <3>3 DEF SendCall, Types
  <2>4. CASE SendPut(p)
    <3>1. send[p].msg \in Messages /\ send[p].at \in Queues
      BY <2>2, <2>4, MessageType DEF SendPut, SendStates
    <3>2. /\ ch' \in [Queues -> Seq(Messages)] /\ log' \in [Queues -> Seq(Messages)]
      BY <2>4, <3>1 DEF SendPut, Types
    <3>3. \A q \in Queues : Len(ch'[q]) <= QueueBufferSize
      BY <2>4, <3>1, QueueAssumption, SMTT(30) DEF SendPut, Types
    <3>4. QED
      BY <2>1, <2>4, <3>2, <3>3 DEF SendPut, Types
  <2>5. CASE SendAddDepth(p)
    <3>1. depth' = [depth EXCEPT ![send[p].at] = @ + 1] /\ send[p].at \in Queues
      BY <2>2, <2>5 DEF SendAddDepth, SendStates
    <3>2. depth \in [Queues -> Int]
      BY DEF Types
    <3>3. depth' \in [Queues -> Int]
      BY <3>1, <3>2
    <3>4. QED
      BY <2>1, <2>5, <3>3 DEF SendAddDepth, Types
  <2>6. CASE SendAddEnqueued(p)
    <3>1. enqueued' = [enqueued EXCEPT ![send[p].at] = @ + 1] /\ send[p].at \in Queues
      BY <2>2, <2>6 DEF SendAddEnqueued, SendStates
    <3>2. enqueued \in [Queues -> Nat]
      BY DEF Types
    <3>3. enqueued' \in [Queues -> Nat]
      BY <3>1, <3>2
    <3>4. QED
      BY <2>1, <2>6, <3>3 DEF SendAddEnqueued, Types
  <2>7. CASE SendSnapshot(p) \/ SendNextSub(p) \/ SendReturn(p) \/ SendCancelled(p)
    BY <2>1, <2>7 DEF SendSnapshot, SendNextSub, SendReturn, SendCancelled, Types
  <2>8. QED
    BY <1>3, <2>3, <2>4, <2>5, <2>6, <2>7 DEF Producer
<1>4. ASSUME NEW c \in Consumers, Consumer(c) PROVE Types' /\ IsInjective(subscribers')
  <2>1. ConsumerOf[c] \in Queues
    BY QueueAssumption
  <2>2. CASE RecvTake(c)
    <3>1. /\ ch'[ConsumerOf[c]] = Tail(ch[ConsumerOf[c]])
          /\ \A q \in Queues \ {ConsumerOf[c]} : ch'[q] = ch[q]
          /\ ch' = [q \in Queues |-> ch'[q]]
      BY <2>1, <2>2 DEF RecvTake, Types
    <3>2. ch[ConsumerOf[c]] \in Seq(Messages) /\ ch[ConsumerOf[c]] # <<>>
      BY <2>1, <2>2 DEF RecvTake, Types
    <3>3. /\ Tail(ch[ConsumerOf[c]]) \in Seq(Messages)
          /\ Len(Tail(ch[ConsumerOf[c]])) <= Len(ch[ConsumerOf[c]])
      BY <3>2
    <3>4. \A q \in Queues : ch'[q] \in Seq(Messages) /\ Len(ch'[q]) <= Len(ch[q])
      <4>1. ch \in [Queues -> Seq(Messages)]
        BY DEF Types
      <4>2. \A q \in Queues : Len(ch[q]) \in Nat /\ ch[q] \in Seq(Messages)
        BY <4>1
      <4> SUFFICES ASSUME NEW q \in Queues
                   PROVE  ch'[q] \in Seq(Messages) /\ Len(ch'[q]) <= Len(ch[q])
        OBVIOUS
      <4>3. CASE q = ConsumerOf[c]
        BY <3>1, <3>3, <4>3
      <4>4. CASE q # ConsumerOf[c]
        <5>1. ch'[q] = ch[q]
          BY <3>1, <4>4
        <5>2. QED
          BY <4>2, <5>1
      <4>5. QED
        BY <4>3, <4>4
    <3>5. ASSUME NEW q \in Queues PROVE Len(ch'[q]) <= QueueBufferSize
      <4>1. Len(ch'[q]) \in Nat /\ Len(ch[q]) \in Nat /\ Len(ch'[q]) <= Len(ch[q])
        <5>1. ch \in [Queues -> Seq(Messages)]
          BY DEF Types
        <5>2. QED
          BY <3>4, <5>1
      <4>2. Len(ch[q]) <= QueueBufferSize /\ QueueBufferSize \in Nat
        BY QueueAssumption DEF Types
      <4>3. QED
        BY <4>1, <4>2
    <3>6. ch' \in [Queues -> Seq(Messages)]
      BY <3>1, <3>4
    <3>7. recv' \in [Consumers -> {"idle", "depth", "dequeued"}]
      BY <2>2 DEF RecvTake, Types
    <3>8. QED
      BY <2>2, <3>5, <3>6, <3>7 DEF RecvTake, Types
  <2>3. CASE RecvSubDepth(c)
    <3>1. recv' \in [Consumers -> {"idle", "depth", "dequeued"}]
      BY <2>3 DEF RecvSubDepth, Types
    <3>2. depth' = [depth EXCEPT ![ConsumerOf[c]] = @ - 1]
      BY <2>3 DEF RecvSubDepth
    <3>3. depth \in [Queues -> Int]
      BY DEF Types
    <3>4. depth' \in [Queues -> Int]
      BY <2>1, <3>2, <3>3
    <3>5. QED
      BY <2>3, <3>1, <3>4 DEF RecvSubDepth, Types
  <2>4. CASE RecvAddDequeued(c)
    <3>1. recv' \in [Consumers -> {"idle", "depth", "dequeued"}]
      BY <2>4 DEF RecvAddDequeued, Types
    <3>2. dequeued' = [dequeued EXCEPT ![ConsumerOf[c]] = @ + 1]
      BY <2>4 DEF RecvAddDequeued
    <3>3. dequeued \in [Queues -> Nat]
      BY DEF Types
    <3>4. dequeued' \in [Queues -> Nat]
      BY <2>1, <3>2, <3>3
    <3>5. QED
      BY <2>4, <3>1, <3>4 DEF RecvAddDequeued, Types
  <2>5. QED
    BY <1>4, <2>2, <2>3, <2>4 DEF Consumer
<1>5. ASSUME NEW f \in Flushers, Flusher(f) PROVE Types' /\ IsInjective(subscribers')
  <2>1. FlusherOf[f] \in Queues /\ flush[f] \in FlushStates
    BY QueueAssumption DEF Types
  <2>2. CASE FlushSwapEnqueued(f)
    BY <2>1, <2>2 DEF FlushSwapEnqueued, Types, FlushStates
  <2>3. CASE FlushSwapDequeued(f)
    BY <2>1, <2>3 DEF FlushSwapDequeued, Types, FlushStates
  <2>4. CASE FlushLoadDepth(f)
    BY <2>1, <2>4 DEF FlushLoadDepth, Types, FlushStates
  <2>5. CASE FlushInsert(f)
    <3>1. flush' \in [Flushers -> FlushStates]
      BY <2>5 DEF FlushInsert, Types, FlushStates
    <3>2. ASSUME NEW t \in [Queues -> [enq : Nat, deq : Nat]]
          PROVE  AddFlush(t, f) \in [Queues -> [enq : Nat, deq : Nat]]
      BY <2>1 DEF AddFlush, FlushStates
    <3>3. /\ rows' \in [Queues -> [enq : Nat, deq : Nat]]
          /\ lost' \in [Queues -> [enq : Nat, deq : Nat]]
      BY <2>5, <3>2 DEF FlushInsert, Types
    <3>4. QED
      BY <2>5, <3>1, <3>3 DEF FlushInsert, Types
  <2>6. QED
    BY <1>5, <2>2, <2>3, <2>4, <2>5 DEF Flusher
<1>6. CASE UNCHANGED vars
  BY <1>6 DEF vars, Types
<1>7. QED
  BY <1>1, <1>2, <1>3, <1>4, <1>5, <1>6 DEF Next

-----------------------------------------------------------------------------
\* What a Send does to the logs: nothing, but for the put, which adds its message to one.
LEMMA PutLogs ==
  ASSUME Types, SendsInOrder, LogsInOrder, NEW p \in Producers, SendPut(p)
  PROVE  /\ \A q \in Queues : ToSet(log'[q]) =
              ToSet(log[q]) \cup (IF q = send[p].at THEN {send[p].msg} ELSE {})
         /\ \A q \in Queues : IsInjective(log'[q])
<1> DEFINE s == send[p]
<1>1. s.msg \in Messages /\ s.at \in Queues /\ s.msg \notin ToSet(log[s.at])
  <2>1. s \in SendStates /\ s.pc = "put"
    BY DEF Types, SendPut
  <2>2. s.msg \in Messages
    BY <2>1, MessageType
  <2>3. s.msg \notin ToSet(log[s.at])
    BY <2>1 DEF SendsInOrder, SendInOrder
  <2>4. QED
    BY <2>1, <2>2, <2>3 DEF SendStates
<1>2. \A q \in Queues : log[q] \in Seq(Messages) /\ IsInjective(log[q])
  BY DEF Types, LogsInOrder
<1>3. /\ log'[s.at] = Append(log[s.at], s.msg)
      /\ \A q \in Queues \ {s.at} : log'[q] = log[q]
  BY <1>1 DEF SendPut, Types
<1> HIDE DEF s
<1>4. /\ ToSet(log'[s.at]) = ToSet(log[s.at]) \cup {s.msg}
      /\ IsInjective(log'[s.at])
  <2>1. log[s.at] \in Seq(Messages) /\ IsInjective(log[s.at])
    BY <1>1, <1>2
  <2>2. QED
    BY <1>1, <1>3, <2>1, ToSetFacts
<1>5. \A q \in Queues : ToSet(log'[q]) =
        ToSet(log[q]) \cup (IF q = s.at THEN {s.msg} ELSE {})
  BY <1>3, <1>4
<1>6. \A q \in Queues : IsInjective(log'[q])
  BY <1>2, <1>3, <1>4
<1>7. QED
  BY <1>5, <1>6 DEF s

\* The logs only grow, by messages of the producer that takes the step.
Grows(p) ==
  \A q \in Queues : /\ ToSet(log[q]) \subseteq ToSet(log'[q])
                    /\ ToSet(log'[q]) \subseteq ToSet(log[q]) \cup {<<p, sent[p]>>}

LEMMA ProducerGrows ==
  ASSUME Types, SendsInOrder, LogsInOrder, NEW p \in Producers, Producer(p)
  PROVE  Grows(p)
<1>1. CASE SendPut(p)
  <2>1. send[p].msg = <<p, sent[p]>>
    BY <1>1, MessageType DEF SendPut
  <2>2. QED
    BY <1>1, <2>1, PutLogs DEF Grows
<1>2. CASE log' = log
  BY <1>2 DEF Grows
<1>3. SendPut(p) \/ log' = log
  BY DEF Producer, SendCall, SendAddDepth, SendAddEnqueued, SendSnapshot, SendNextSub,
     SendReturn, SendCancelled
<1>4. QED
  BY <1>1, <1>2, <1>3

\* The Sends of the others stay where they are in the order.
LEMMA OthersInOrder ==
  ASSUME NEW p \in Producers, NEW r \in Producers \ {p}, Grows(p),
         NEW s \in SendStates, NEW n \in 0..MaxSends, SendInOrder(s, r, n, log)
  PROVE  SendInOrder(s, r, n, log')
<1> SUFFICES ASSUME s.pc # "idle"
             PROVE  SendInOrder(s, r, n, log')
  BY DEF SendInOrder
<1>1. s.msg = <<r, n>> /\ s.msg # <<p, sent[p]>>
  BY DEF SendInOrder
<1>2. \A q \in Queues : s.msg \in ToSet(log'[q]) <=> s.msg \in ToSet(log[q])
  BY <1>1 DEF Grows
<1>3. s.at \in Queues /\ ToSet(s.todo) \subseteq Queues /\ Main \in Queues /\ Subs \subseteq Queues
  BY ToSetFacts DEF SendStates, Queues
<1>4. QED
  BY <1>2, <1>3 DEF SendInOrder

LEMMA OthersOwe ==
  ASSUME NEW p \in Producers, Grows(p), NEW s \in SendStates,
         CopiesOwed(s, log, subscribers),
         ToSet(subscribers) \subseteq ToSet(subscribers')
  PROVE  CopiesOwed(s, log', subscribers')
<1>1. \A q \in s.subs : q \in Queues
  BY DEF SendStates, Queues
<1>2. \A q \in s.subs : s.msg \in ToSet(log[q]) => s.msg \in ToSet(log'[q])
  BY <1>1 DEF Grows
<1>3. QED
  BY <1>2 DEF CopiesOwed

\* The Send that takes the step, in each of its steps.
LEMMA SenderInOrder ==
  ASSUME Types, IsInjective(subscribers), SendsInOrder, LogsInOrder,
         NEW p \in Producers, Producer(p)
  PROVE  SendInOrder(send'[p], p, sent'[p], log')
<1> DEFINE s == send[p]
<1>1. s \in SendStates /\ SendInOrder(s, p, sent[p], log)
  BY DEF Types, SendsInOrder
<1>2. send \in [Producers -> SendStates] /\ sent \in [Producers -> 0..MaxSends]
  BY DEF Types
<1>3. CASE SendCall(p)
  <2>1. /\ send'[p].pc = "put" /\ send'[p].at = Main /\ send'[p].todo = <<>>
        /\ send'[p].msg = <<p, sent[p] + 1>>
        /\ sent'[p] = sent[p] + 1 /\ log' = log
    BY <1>2, <1>3 DEF SendCall
  <2>2. sent[p] \in Nat /\ sent[p] + 1 \in 1..MaxSends /\ ~(sent[p] + 1 <= sent[p])
    BY <1>2, <1>3, QueueAssumption DEF SendCall
  <2>3. <<p, sent[p] + 1>> \notin ToSet(log[Main])
    BY <2>2 DEF LogsInOrder
  <2>4. \A q \in Queues : <<p, sent[p] + 1>> \notin ToSet(log[q])
    BY <2>3 DEF LogsInOrder
  <2>5. ToSet(<<>>) = {} /\ IsInjective(<<>>)
    BY DEF ToSet, IsInjective
  <2>6. sent'[p] >= 1
    BY <2>1, <2>2
  <2>7. QED
    BY <2>1, <2>4, <2>5, <2>6 DEF SendInOrder, Queues
<1>4. CASE SendPut(p)
  <2>1. /\ send'[p] = [s EXCEPT !.pc = "depth"] /\ sent' = sent /\ s.pc = "put"
    BY <1>2, <1>4 DEF SendPut
  <2>2. /\ send'[p].pc = "depth" /\ send'[p].at = s.at /\ send'[p].todo = s.todo
        /\ send'[p].msg = s.msg
    BY <1>1, <2>1 DEF SendStates
  <2>3. \A q \in Queues : ToSet(log'[q]) =
          ToSet(log[q]) \cup (IF q = s.at THEN {s.msg} ELSE {})
    BY <1>4, PutLogs
  <2>4. s.at \in Queues /\ ToSet(s.todo) \subseteq Queues /\ Main \in Queues /\ Main \notin Subs
        /\ Subs \subseteq Queues
    BY <1>1, ToSetFacts, QueueAssumption DEF SendStates, Queues
  <2> HIDE DEF s
  <2>5. s.msg \in ToSet(log'[Main])
    BY <1>1, <2>1, <2>3, <2>4 DEF SendInOrder
  <2>6. \A q \in ToSet(s.todo) : s.msg \notin ToSet(log'[q])
    BY <1>1, <2>1, <2>3, <2>4 DEF SendInOrder
  <2>7. s.at = Main => s.todo = <<>> /\ \A q \in Subs : s.msg \notin ToSet(log'[q])
    BY <1>1, <2>1, <2>3, <2>4 DEF SendInOrder, Opening
  <2>8. sent'[p] >= 1 /\ s.msg = <<p, sent'[p]>> /\ IsInjective(s.todo)
    BY <1>1, <2>1 DEF SendInOrder
  <2>9. QED
    BY <2>2, <2>5, <2>6, <2>7, <2>8 DEF SendInOrder, Opening
<1>5. CASE SendAddDepth(p)
  <2>1. /\ send'[p].pc = "enqueued" /\ send'[p].at = s.at /\ send'[p].todo = s.todo
        /\ send'[p].msg = s.msg /\ s.pc = "depth" /\ sent' = sent /\ log' = log
    BY <1>1, <1>2, <1>5 DEF SendAddDepth, SendStates
  <2> HIDE DEF s
  <2>2. QED
    BY <1>1, <2>1 DEF SendInOrder, Opening
<1>6. CASE SendAddEnqueued(p)
  <2>1. /\ send'[p].pc = (IF s.at = Main THEN "snapshot" ELSE "loop")
        /\ send'[p].at = s.at /\ send'[p].todo = s.todo
        /\ send'[p].msg = s.msg /\ s.pc = "enqueued" /\ sent' = sent /\ log' = log
    BY <1>1, <1>2, <1>6 DEF SendAddEnqueued, SendStates
  <2> HIDE DEF s
  <2>2. QED
    BY <1>1, <2>1 DEF SendInOrder, Opening
<1>7. CASE SendSnapshot(p)
  <2>1. /\ send'[p].pc = "loop" /\ send'[p].at = s.at /\ send'[p].todo = subscribers
        /\ send'[p].msg = s.msg /\ s.pc = "snapshot" /\ sent' = sent /\ log' = log
    BY <1>1, <1>2, <1>7 DEF SendSnapshot, SendStates
  <2>2. ToSet(subscribers) \subseteq Subs
    BY ToSetFacts DEF Types
  <2> HIDE DEF s
  <2>3. s.at = Main /\ \A q \in Subs : s.msg \notin ToSet(log[q])
    BY <1>1, <2>1 DEF SendInOrder, Opening
  <2>4. QED
    BY <1>1, <2>1, <2>2, <2>3 DEF SendInOrder, Opening
<1>8. CASE SendNextSub(p)
  <2>1. /\ send'[p].pc = "put" /\ send'[p].at = Head(s.todo) /\ send'[p].todo = Tail(s.todo)
        /\ send'[p].msg = s.msg /\ s.pc = "loop" /\ s.todo # <<>> /\ sent' = sent /\ log' = log
    BY <1>1, <1>2, <1>8 DEF SendNextSub, SendStates
  <2>2. s.todo \in Seq(Subs) /\ IsInjective(s.todo)
    BY <1>1, <2>1 DEF SendStates, SendInOrder
  <2> HIDE DEF s
  <2>3. /\ Head(s.todo) \in Subs /\ ToSet(s.todo) = ToSet(Tail(s.todo)) \cup {Head(s.todo)}
        /\ IsInjective(Tail(s.todo)) /\ Head(s.todo) \notin ToSet(Tail(s.todo))
    BY <2>1, <2>2, TailFacts
  <2>4. Head(s.todo) # Main
    BY <2>3, QueueAssumption
  <2>5. QED
    BY <1>1, <2>1, <2>3, <2>4 DEF SendInOrder, Opening
<1>9. CASE SendReturn(p)
  BY <1>2, <1>9 DEF SendReturn, Idle, SendInOrder
<1>10. CASE SendCancelled(p)
  <2>1. CASE s.at = Main
    BY <1>2, <1>10, <2>1 DEF SendCancelled, Idle, SendInOrder
  <2>2. CASE s.at # Main
    <3>1. /\ send'[p].pc = "loop" /\ send'[p].at = s.at /\ send'[p].todo = s.todo
          /\ send'[p].msg = s.msg /\ s.pc = "put" /\ sent' = sent /\ log' = log
      BY <1>1, <1>2, <1>10, <2>2 DEF SendCancelled, SendStates
    <3> HIDE DEF s
    <3>2. QED
      BY <1>1, <2>2, <3>1 DEF SendInOrder, Opening
  <2>3. QED
    BY <2>1, <2>2
<1>11. QED
  BY <1>3, <1>4, <1>5, <1>6, <1>7, <1>8, <1>9, <1>10 DEF Producer

LEMMA SenderOwes ==
  ASSUME Types, SendsInOrder, LogsInOrder, NEW p \in Producers, Producer(p),
         ~cancelled, CopiesOwed(send[p], log, subscribers)
  PROVE  CopiesOwed(send'[p], log', subscribers')
<1> DEFINE s == send[p]
<1>1. s \in SendStates /\ CopiesOwed(s, log, subscribers)
  BY DEF Types
<1>2. send \in [Producers -> SendStates]
  BY DEF Types
<1>3. CASE SendCall(p)
  <2>1. /\ send'[p].pc = "put" /\ send'[p].at = Main
        /\ send'[p].subs = ToSet(subscribers) /\ subscribers' = subscribers
    BY <1>2, <1>3 DEF SendCall
  <2>2. QED
    BY <2>1 DEF CopiesOwed, Opening
<1>4. CASE SendPut(p)
  <2>1. /\ send'[p].pc = "depth" /\ send'[p].at = s.at /\ send'[p].todo = s.todo
        /\ send'[p].msg = s.msg /\ send'[p].subs = s.subs /\ s.pc = "put"
        /\ subscribers' = subscribers
    BY <1>1, <1>2, <1>4 DEF SendPut, SendStates
  <2>2. \A q \in Queues : ToSet(log'[q]) =
          ToSet(log[q]) \cup (IF q = s.at THEN {s.msg} ELSE {})
    BY <1>4, PutLogs
  <2>3. s.subs \subseteq Queues
    BY <1>1 DEF SendStates, Queues
  <2> HIDE DEF s
  <2>4. QED
    BY <1>1, <2>1, <2>2, <2>3 DEF CopiesOwed, Opening
<1>5. CASE SendAddDepth(p)
  <2>1. /\ send'[p].pc = "enqueued" /\ send'[p].at = s.at /\ send'[p].todo = s.todo
        /\ send'[p].msg = s.msg /\ send'[p].subs = s.subs /\ s.pc = "depth"
        /\ subscribers' = subscribers /\ log' = log
    BY <1>1, <1>2, <1>5 DEF SendAddDepth, SendStates
  <2> HIDE DEF s
  <2>2. QED
    BY <1>1, <2>1 DEF CopiesOwed, Opening
<1>6. CASE SendAddEnqueued(p)
  <2>1. /\ send'[p].pc = (IF s.at = Main THEN "snapshot" ELSE "loop")
        /\ send'[p].at = s.at /\ send'[p].todo = s.todo
        /\ send'[p].msg = s.msg /\ send'[p].subs = s.subs /\ s.pc = "enqueued"
        /\ subscribers' = subscribers /\ log' = log
    BY <1>1, <1>2, <1>6 DEF SendAddEnqueued, SendStates
  <2> HIDE DEF s
  <2>2. QED
    BY <1>1, <2>1 DEF CopiesOwed, Opening
<1>7. CASE SendSnapshot(p)
  <2>1. /\ send'[p].pc = "loop" /\ send'[p].todo = subscribers
        /\ send'[p].subs = s.subs /\ s.pc = "snapshot"
        /\ subscribers' = subscribers /\ log' = log
    BY <1>1, <1>2, <1>7 DEF SendSnapshot, SendStates
  <2>2. s.at = Main
    BY <2>1 DEF SendsInOrder, SendInOrder
  <2> HIDE DEF s
  <2>3. QED
    BY <1>1, <2>1, <2>2 DEF CopiesOwed, Opening
<1>8. CASE SendNextSub(p)
  <2>1. /\ send'[p].pc = "put" /\ send'[p].at = Head(s.todo) /\ send'[p].todo = Tail(s.todo)
        /\ send'[p].msg = s.msg /\ send'[p].subs = s.subs /\ s.pc = "loop" /\ s.todo # <<>>
        /\ subscribers' = subscribers /\ log' = log
    BY <1>1, <1>2, <1>8 DEF SendNextSub, SendStates
  <2>2. s.todo \in Seq(Subs)
    BY <1>1 DEF SendStates
  <2> HIDE DEF s
  <2>3. Head(s.todo) \in Subs /\ ToSet(s.todo) = ToSet(Tail(s.todo)) \cup {Head(s.todo)}
    BY <2>1, <2>2, TailFacts
  <2>4. Head(s.todo) # Main
    BY <2>3, QueueAssumption
  <2>5. QED
    BY <1>1, <2>1, <2>3, <2>4 DEF CopiesOwed, Opening
<1>9. CASE SendReturn(p)
  BY <1>2, <1>9 DEF SendReturn, Idle, CopiesOwed
<1>10. CASE SendCancelled(p)
  BY <1>10 DEF SendCancelled
<1>11. QED
  BY <1>3, <1>4, <1>5, <1>6, <1>7, <1>8, <1>9, <1>10 DEF Producer

LEMMA OrderStep ==
  ASSUME Types, IsInjective(subscribers), SendsInOrder, LogsInOrder, NoCopyForgotten,
         [Next]_vars
  PROVE  SendsInOrder' /\ LogsInOrder' /\ NoCopyForgotten'
<1>1. CASE Cancel
  BY <1>1 DEF Cancel, SendsInOrder, LogsInOrder, NoCopyForgotten
<1>2. ASSUME NEW q \in Subs, Subscribe(q)
      PROVE  SendsInOrder' /\ LogsInOrder' /\ NoCopyForgotten'
  <2>1. SendsInOrder' /\ LogsInOrder'
    BY <1>2 DEF Subscribe, SendsInOrder, LogsInOrder
  <2>2. ToSet(subscribers) \subseteq ToSet(subscribers')
    <3>1. ToSet(Append(subscribers, q)) = ToSet(subscribers) \cup {q}
      BY ToSetFacts DEF Types
    <3>2. QED
      BY <1>2, <3>1 DEF Subscribe
  <2>3. NoCopyForgotten'
    <3> SUFFICES ASSUME ~cancelled', NEW p \in Producers
                 PROVE  CopiesOwed(send'[p], log', subscribers')
      BY DEF NoCopyForgotten
    <3>1. CopiesOwed(send[p], log, subscribers)
      BY <1>2 DEF Subscribe, NoCopyForgotten
    <3>2. CopiesOwed(send[p], log, subscribers')
      BY <2>2, <3>1 DEF CopiesOwed
    <3>3. QED
      BY <1>2, <3>2 DEF Subscribe
  <2>4. QED
    BY <2>1, <2>3
<1>3. ASSUME NEW p \in Producers, Producer(p)
      PROVE  SendsInOrder' /\ LogsInOrder' /\ NoCopyForgotten'
  <2>1. OnlySender(p) /\ send'[p] \in SendStates
    BY <1>3, SendTypes
  <2>2. Grows(p)
    BY <1>3, ProducerGrows
  <2>3. /\ \A r \in Producers \ {p} : sent'[r] = sent[r]
        /\ sent'[p] >= sent[p]
    <3>1. sent \in [Producers -> 0..MaxSends]
      BY DEF Types
    <3>2. sent' = [sent EXCEPT ![p] = @ + 1] \/ sent' = sent
      BY <1>3 DEF Producer, SendCall, SendPut, SendAddDepth, SendAddEnqueued, SendSnapshot,
         SendNextSub, SendReturn, SendCancelled
    <3>3. sent[p] \in Nat
      BY <3>1, QueueAssumption
    <3>4. QED
      BY <3>1, <3>2, <3>3
  <2>4. SendsInOrder'
    <3> SUFFICES ASSUME NEW r \in Producers PROVE SendInOrder(send'[r], r, sent'[r], log')
      BY DEF SendsInOrder
    <3>1. CASE r = p
      BY <1>3, <3>1, SenderInOrder
    <3>2. CASE r # p
      <4>1. send'[r] = send[r] /\ sent'[r] = sent[r]
        BY <2>1, <2>3, <3>2 DEF OnlySender
      <4>2. /\ send[r] \in SendStates /\ sent[r] \in 0..MaxSends
            /\ SendInOrder(send[r], r, sent[r], log)
        BY DEF Types, SendsInOrder
      <4>3. QED
        BY <2>2, <3>2, <4>1, <4>2, OthersInOrder
    <3>3. QED
      BY <3>1, <3>2
  <2>5. ASSUME NEW q \in Queues
        PROVE  IsInjective(log'[q]) /\ ToSet(log'[q]) \subseteq ToSet(log'[Main])
    <3>1. CASE SendPut(p)
      <4>1. /\ \A x \in Queues : ToSet(log'[x]) =
                 ToSet(log[x]) \cup (IF x = send[p].at THEN {send[p].msg} ELSE {})
            /\ IsInjective(log'[q])
        BY <3>1, PutLogs
      <4>2. send[p].at # Main => send[p].msg \in ToSet(log[Main])
        BY <3>1 DEF SendPut, SendsInOrder, SendInOrder
      <4>3. ToSet(log[q]) \subseteq ToSet(log[Main]) /\ Main \in Queues
        BY DEF LogsInOrder, Queues
      <4>4. QED
        BY <4>1, <4>2, <4>3
    <3>2. CASE log' = log
      BY <3>2 DEF LogsInOrder
    <3>3. SendPut(p) \/ log' = log
      BY <1>3 DEF Producer, SendCall, SendAddDepth, SendAddEnqueued, SendSnapshot,
         SendNextSub, SendReturn, SendCancelled
    <3>4. QED
      BY <3>1, <3>2, <3>3
  <2>6. ASSUME NEW r \in Producers, NEW k \in 1..MaxSends, <<r, k>> \in ToSet(log'[Main])
        PROVE  k <= sent'[r]
    <3>1. sent[r] \in Int /\ sent'[r] >= sent[r]
      <4>1. sent[r] \in Int
        BY QueueAssumption DEF Types
      <4>2. QED
        BY <2>3, <4>1
    <3>2. sent'[r] \in Int
      BY <1>3, TypesStep, QueueAssumption DEF Types, Next
    <3>3. CASE <<r, k>> \in ToSet(log[Main])
      <4>1. k <= sent[r]
        BY <3>3 DEF LogsInOrder
      <4>2. QED
        BY <3>1, <3>2, <4>1
    <3>4. CASE <<r, k>> = <<p, sent[p]>>
      BY <3>1, <3>4
    <3>5. Main \in Queues
      BY DEF Queues
    <3>6. QED
      BY <2>2, <2>6, <3>3, <3>4, <3>5 DEF Grows
  <2>7. LogsInOrder'
    BY <2>5, <2>6 DEF LogsInOrder
  <2>8. NoCopyForgotten'
    <3> SUFFICES ASSUME ~cancelled', NEW r \in Producers
                 PROVE  CopiesOwed(send'[r], log', subscribers')
      BY DEF NoCopyForgotten
    <3>1. ~cancelled /\ subscribers' = subscribers
      BY <1>3 DEF Producer, SendCall, SendPut, SendAddDepth, SendAddEnqueued, SendSnapshot,
         SendNextSub, SendReturn, SendCancelled
    <3>2. CopiesOwed(send[r], log, subscribers) /\ send[r] \in SendStates
      BY <3>1 DEF NoCopyForgotten, Types
    <3>3. CASE r = p
      BY <1>3, <3>1, <3>2, <3>3, SenderOwes
    <3>4. CASE r # p
      <4>1. send'[r] = send[r]
        BY <2>1, <3>4 DEF OnlySender
      <4>2. QED
        BY <2>2, <3>1, <3>2, <4>1, OthersOwe
    <3>5. QED
      BY <3>3, <3>4
  <2>9. QED
    BY <2>4, <2>7, <2>8
<1>4. ASSUME NEW c \in Consumers, Consumer(c)
      PROVE  SendsInOrder' /\ LogsInOrder' /\ NoCopyForgotten'
  BY <1>4 DEF Consumer, RecvTake, RecvSubDepth, RecvAddDequeued, SendsInOrder,
     LogsInOrder, NoCopyForgotten
<1>5. ASSUME NEW f \in Flushers, Flusher(f)
      PROVE  SendsInOrder' /\ LogsInOrder' /\ NoCopyForgotten'
  BY <1>5 DEF Flusher, FlushSwapEnqueued, FlushSwapDequeued, FlushLoadDepth, FlushInsert,
     SendsInOrder, LogsInOrder, NoCopyForgotten
<1>6. CASE UNCHANGED vars
  BY <1>6 DEF vars, SendsInOrder, LogsInOrder, NoCopyForgotten
<1>7. QED
  BY <1>1, <1>2, <1>3, <1>4, <1>5, <1>6 DEF Next

-----------------------------------------------------------------------------
\* Goroutines counted by their place, and what flushers hold, in explicit states.
Senders(sd, q, pcs) == Cardinality({p \in Producers : sd[p].at = q /\ sd[p].pc \in pcs})
Receivers(rv, q, pcs) == Cardinality({c \in Consumers : ConsumerOf[c] = q /\ rv[c] \in pcs})
FlushersOf(q) == {f \in Flushers : FlusherOf[f] = q}
InHand(fl, q, field) == SumFunctionOnSet([f \in Flushers |-> fl[f][field]], FlushersOf(q))

One(b) == IF b THEN 1 ELSE 0

\* The two invariants, queue by queue.
DepthIs(q, dp, c, sd, rv) ==
  dp = Len(c) - Senders(sd, q, {"depth"}) + Receivers(rv, q, {"depth"})
\* What the flushes of a queue that have ended took out of its counters: r in the rows, l
\* in rows that could not be inserted.
Ended(r, l) == [enq |-> r.enq + l.enq, deq |-> r.deq + l.deq]

EnqueuedIs(q, n, lg, sd, fl, rw) ==
  rw.enq + InHand(fl, q, "enq") + n + Senders(sd, q, {"depth", "enqueued"}) = Len(lg)
DequeuedIs(q, n, lg, c, rv, fl, rw) ==
  rw.deq + InHand(fl, q, "deq") + n + Receivers(rv, q, {"depth", "dequeued"})
    = Len(lg) - Len(c)

Books ==
  \A q \in Queues : /\ DepthIs(q, depth[q], ch[q], send, recv)
                    /\ EnqueuedIs(q, enqueued[q], log[q], send, flush, Ended(rows[q], lost[q]))
                    /\ DequeuedIs(q, dequeued[q], log[q], ch[q], recv, flush,
                                  Ended(rows[q], lost[q]))

LEMMA BooksAre == Books <=> DepthNeverDrifts /\ EveryMessageCountedOnce
BY DEF Books, DepthIs, EnqueuedIs, DequeuedIs, Senders, Receivers, InHand, FlushersOf,
   DepthNeverDrifts, EveryMessageCountedOnce, SendersAt, ReceiversAt, Flushed, Ended

\* The places that count: between the channel operation and the counter.
LEMMA SendersStep ==
  ASSUME NEW p \in Producers, OnlySender(p), NEW q \in Queues, NEW pcs
  PROVE  /\ Senders(send, q, pcs) \in Nat /\ Senders(send', q, pcs) \in Nat
         /\ Senders(send', q, pcs) = Senders(send, q, pcs)
              + One(send'[p].at = q /\ send'[p].pc \in pcs)
              - One(send[p].at = q /\ send[p].pc \in pcs)
<1> DEFINE T == {r \in Producers : send[r].at = q /\ send[r].pc \in pcs}
           U == {r \in Producers : send'[r].at = q /\ send'[r].pc \in pcs}
<1>1. \A r \in Producers \ {p} : r \in U <=> r \in T
  BY DEF OnlySender
<1>2. /\ T \in SUBSET Producers /\ U \in SUBSET Producers
      /\ p \in T <=> send[p].at = q /\ send[p].pc \in pcs
      /\ p \in U <=> send'[p].at = q /\ send'[p].pc \in pcs
  OBVIOUS
<1>3. Senders(send, q, pcs) = Cardinality(T) /\ Senders(send', q, pcs) = Cardinality(U)
  BY DEF Senders
<1> HIDE DEF T, U
<1>4. /\ Cardinality(T) \in Nat /\ Cardinality(U) \in Nat
      /\ Cardinality(U) = Cardinality(T) + One(p \in U) - One(p \in T)
  BY <1>1, <1>2, CountStep, QueueAssumption DEF One
<1>5. QED
  BY <1>2, <1>3, <1>4 DEF One

LEMMA ReceiversStep ==
  ASSUME NEW c \in Consumers, \A d \in Consumers \ {c} : recv'[d] = recv[d],
         NEW q \in Queues, NEW pcs
  PROVE  /\ Receivers(recv, q, pcs) \in Nat /\ Receivers(recv', q, pcs) \in Nat
         /\ Receivers(recv', q, pcs) = Receivers(recv, q, pcs)
              + One(ConsumerOf[c] = q /\ recv'[c] \in pcs)
              - One(ConsumerOf[c] = q /\ recv[c] \in pcs)
<1> DEFINE T == {d \in Consumers : ConsumerOf[d] = q /\ recv[d] \in pcs}
           U == {d \in Consumers : ConsumerOf[d] = q /\ recv'[d] \in pcs}
<1>1. \A d \in Consumers \ {c} : d \in U <=> d \in T
  OBVIOUS
<1>2. /\ T \in SUBSET Consumers /\ U \in SUBSET Consumers
      /\ c \in T <=> ConsumerOf[c] = q /\ recv[c] \in pcs
      /\ c \in U <=> ConsumerOf[c] = q /\ recv'[c] \in pcs
  OBVIOUS
<1>3. Receivers(recv, q, pcs) = Cardinality(T) /\ Receivers(recv', q, pcs) = Cardinality(U)
  BY DEF Receivers
<1> HIDE DEF T, U
<1>4. /\ Cardinality(T) \in Nat /\ Cardinality(U) \in Nat
      /\ Cardinality(U) = Cardinality(T) + One(c \in U) - One(c \in T)
  BY <1>1, <1>2, CountStep, QueueAssumption DEF One
<1>5. QED
  BY <1>2, <1>3, <1>4 DEF One

\* All of it is numbers.
LEMMA Numbers ==
  ASSUME Types, NEW q \in Queues
  PROVE  /\ depth[q] \in Int /\ enqueued[q] \in Nat /\ dequeued[q] \in Nat
         /\ Len(ch[q]) \in Nat /\ Len(log[q]) \in Nat
         /\ Ended(rows[q], lost[q]).enq \in Nat /\ Ended(rows[q], lost[q]).deq \in Nat
         /\ \A pcs : Senders(send, q, pcs) \in Nat /\ Receivers(recv, q, pcs) \in Nat
         /\ InHand(flush, q, "enq") \in Nat /\ InHand(flush, q, "deq") \in Nat
<1>1. /\ depth[q] \in Int /\ enqueued[q] \in Nat /\ dequeued[q] \in Nat
      /\ Ended(rows[q], lost[q]).enq \in Nat /\ Ended(rows[q], lost[q]).deq \in Nat
  BY DEF Types, Ended
<1>2. ch[q] \in Seq(Messages) /\ log[q] \in Seq(Messages)
  BY DEF Types
<1>3. ASSUME NEW pcs
      PROVE  Senders(send, q, pcs) \in Nat /\ Receivers(recv, q, pcs) \in Nat
  <2>1. /\ IsFiniteSet({p \in Producers : send[p].at = q /\ send[p].pc \in pcs})
        /\ IsFiniteSet({c \in Consumers : ConsumerOf[c] = q /\ recv[c] \in pcs})
    BY QueueAssumption, FS_Subset
  <2>2. QED
    BY <2>1, FS_CardinalityType DEF Senders, Receivers
<1>4. ASSUME NEW field \in {"enq", "deq"} PROVE InHand(flush, q, field) \in Nat
  <2> DEFINE g == [f \in Flushers |-> flush[f][field]]
  <2>1. \A f \in FlushersOf(q) : g[f] \in Nat
    BY DEF Types, FlushStates, FlushersOf
  <2>2. IsFiniteSet(FlushersOf(q))
    BY QueueAssumption, FS_Subset DEF FlushersOf
  <2> HIDE DEF g
  <2>3. SumFunctionOnSet(g, FlushersOf(q)) \in Nat
    BY <2>1, <2>2, SumTypeNat
  <2>4. QED
    BY <2>3 DEF InHand, g
<1>5. QED
  BY <1>1, <1>2, <1>3, <1>4

\* A step of a Send at queue q: a is what it adds to the channel, b to depth and d to
\* enqueued.
SendMoves(p, q, a, b, d) ==
  /\ Len(ch'[q]) = Len(ch[q]) + a /\ Len(log'[q]) = Len(log[q]) + a
  /\ depth'[q] = depth[q] + b /\ enqueued'[q] = enqueued[q] + d
  /\ One(send'[p].at = q /\ send'[p].pc \in {"depth"})
       = One(send[p].at = q /\ send[p].pc \in {"depth"}) + a - b
  /\ One(send'[p].at = q /\ send'[p].pc \in {"depth", "enqueued"})
       = One(send[p].at = q /\ send[p].pc \in {"depth", "enqueued"}) + a - d

LEMMA ProducerMoves ==
  ASSUME Types, SendsInOrder, NEW p \in Producers, Producer(p), NEW q \in Queues
  PROVE  \E a, b, d \in {0, 1} : SendMoves(p, q, a, b, d)
<1> DEFINE s == send[p]
<1>1. s \in SendStates /\ send \in [Producers -> SendStates]
  BY DEF Types
<1>2. depth[q] + 0 = depth[q] /\ enqueued[q] + 0 = enqueued[q]
      /\ Len(ch[q]) + 0 = Len(ch[q]) /\ Len(log[q]) + 0 = Len(log[q])
  BY Numbers
<1>3. CASE SendPut(p)
  <2>1. /\ s.pc = "put" /\ send'[p].pc = "depth" /\ send'[p].at = s.at
        /\ depth' = depth /\ enqueued' = enqueued
    BY <1>1, <1>3 DEF SendPut, SendStates
  <2>2. /\ ch' = [ch EXCEPT ![s.at] = Append(@, s.msg)]
        /\ log' = [log EXCEPT ![s.at] = Append(@, s.msg)]
        /\ ch \in [Queues -> Seq(Messages)] /\ log \in [Queues -> Seq(Messages)]
        /\ s.msg \in Messages
    BY <1>3, MessageType DEF SendPut, Types
  <2> HIDE DEF s
  <2>3. CASE s.at = q
    <3>1. Len(ch'[q]) = Len(ch[q]) + 1 /\ Len(log'[q]) = Len(log[q]) + 1
      BY <2>2, <2>3
    <3>2. SendMoves(p, q, 1, 0, 0)
      BY <1>2, <2>1, <2>3, <3>1 DEF SendMoves, One, s
    <3>3. QED
      BY <3>2
  <2>4. CASE s.at # q
    <3>1. ch'[q] = ch[q] /\ log'[q] = log[q]
      BY <2>2, <2>4
    <3>2. SendMoves(p, q, 0, 0, 0)
      BY <1>2, <2>1, <2>4, <3>1 DEF SendMoves, One, s
    <3>3. QED
      BY <3>2
  <2>5. QED
    BY <2>3, <2>4
<1>4. CASE SendAddDepth(p)
  <2>1. /\ s.pc = "depth" /\ send'[p].pc = "enqueued" /\ send'[p].at = s.at
        /\ ch' = ch /\ log' = log /\ enqueued' = enqueued
    BY <1>1, <1>4 DEF SendAddDepth, SendStates
  <2>2. depth' = [depth EXCEPT ![s.at] = @ + 1] /\ depth \in [Queues -> Int]
    BY <1>4 DEF SendAddDepth, Types
  <2> HIDE DEF s
  <2>3. CASE s.at = q
    <3>1. depth'[q] = depth[q] + 1
      BY <2>2, <2>3
    <3>2. SendMoves(p, q, 0, 1, 0)
      BY <1>2, <2>1, <2>3, <3>1 DEF SendMoves, One, s
    <3>3. QED
      BY <3>2
  <2>4. CASE s.at # q
    <3>1. depth'[q] = depth[q]
      BY <2>2, <2>4
    <3>2. SendMoves(p, q, 0, 0, 0)
      BY <1>2, <2>1, <2>4, <3>1 DEF SendMoves, One, s
    <3>3. QED
      BY <3>2
  <2>5. QED
    BY <2>3, <2>4
<1>5. CASE SendAddEnqueued(p)
  <2>1. /\ s.pc = "enqueued" /\ send'[p].pc \in {"snapshot", "loop"} /\ send'[p].at = s.at
        /\ ch' = ch /\ log' = log /\ depth' = depth
    BY <1>1, <1>5 DEF SendAddEnqueued, SendStates
  <2>2. enqueued' = [enqueued EXCEPT ![s.at] = @ + 1] /\ enqueued \in [Queues -> Nat]
    BY <1>5 DEF SendAddEnqueued, Types
  <2> HIDE DEF s
  <2>3. CASE s.at = q
    <3>1. enqueued'[q] = enqueued[q] + 1
      BY <2>2, <2>3
    <3>2. SendMoves(p, q, 0, 0, 1)
      BY <1>2, <2>1, <2>3, <3>1 DEF SendMoves, One, s
    <3>3. QED
      BY <3>2
  <2>4. CASE s.at # q
    <3>1. enqueued'[q] = enqueued[q]
      BY <2>2, <2>4
    <3>2. SendMoves(p, q, 0, 0, 0)
      BY <1>2, <2>1, <2>4, <3>1 DEF SendMoves, One, s
    <3>3. QED
      BY <3>2
  <2>5. QED
    BY <2>3, <2>4
<1>6. CASE \/ SendCall(p) \/ SendSnapshot(p) \/ SendNextSub(p) \/ SendReturn(p)
           \/ SendCancelled(p)
  <2>1. ch' = ch /\ log' = log /\ depth' = depth /\ enqueued' = enqueued
    BY <1>6 DEF SendCall, SendSnapshot, SendNextSub, SendReturn, SendCancelled
  <2>2. s.pc \notin {"depth", "enqueued"}
    BY <1>6 DEF SendCall, SendSnapshot, SendNextSub, SendReturn, SendCancelled
  <2>3. send'[p].pc \notin {"depth", "enqueued"}
    BY <1>1, <1>6 DEF SendCall, SendSnapshot, SendNextSub, SendReturn, SendCancelled, Idle,
       SendStates
  <2> HIDE DEF s
  <2>4. SendMoves(p, q, 0, 0, 0)
    BY <1>2, <2>1, <2>2, <2>3 DEF SendMoves, One, s
  <2>5. QED
    BY <2>4
<1>7. QED
  BY <1>3, <1>4, <1>5, <1>6 DEF Producer

LEMMA ProducerBooks ==
  ASSUME Types, SendsInOrder, Books, NEW p \in Producers, Producer(p)
  PROVE  Books'
<1> SUFFICES ASSUME NEW q \in Queues
             PROVE  /\ DepthIs(q, depth'[q], ch'[q], send', recv')
                    /\ EnqueuedIs(q, enqueued'[q], log'[q], send', flush',
                                  Ended(rows'[q], lost'[q]))
                    /\ DequeuedIs(q, dequeued'[q], log'[q], ch'[q], recv', flush',
                                  Ended(rows'[q], lost'[q]))
  BY DEF Books
<1>1. recv' = recv /\ flush' = flush /\ rows' = rows /\ lost' = lost /\ dequeued' = dequeued
  BY DEF Producer, SendCall, SendPut, SendAddDepth, SendAddEnqueued, SendSnapshot,
     SendNextSub, SendReturn, SendCancelled
<1>2. PICK a, b, d \in {0, 1} : SendMoves(p, q, a, b, d)
  BY ProducerMoves
<1>3. OnlySender(p)
  BY SendTypes
<1> DEFINE x == Senders(send, q, {"depth"})
           y == Senders(send, q, {"depth", "enqueued"})
           i == Receivers(recv, q, {"depth"})
           j == Receivers(recv, q, {"depth", "dequeued"})
           m == InHand(flush, q, "enq")
           n == InHand(flush, q, "deq")
<1>4. /\ Senders(send', q, {"depth"}) = x + a - b
      /\ Senders(send', q, {"depth", "enqueued"}) = y + a - d
      /\ x \in Nat /\ y \in Nat
  <2>1. /\ One(send'[p].at = q /\ send'[p].pc \in {"depth"}) \in Int
        /\ One(send[p].at = q /\ send[p].pc \in {"depth"}) \in Int
        /\ One(send'[p].at = q /\ send'[p].pc \in {"depth", "enqueued"}) \in Int
        /\ One(send[p].at = q /\ send[p].pc \in {"depth", "enqueued"}) \in Int
    BY DEF One
  <2>2. \A u, v, w, z, k \in Int : v = w + z - k => u + v - w = u + z - k
    OBVIOUS
  <2>3. x \in Nat /\ y \in Nat
    BY Numbers
  <2>4. /\ Senders(send', q, {"depth"}) = x + One(send'[p].at = q /\ send'[p].pc \in {"depth"})
                                          - One(send[p].at = q /\ send[p].pc \in {"depth"})
        /\ Senders(send', q, {"depth", "enqueued"}) =
             y + One(send'[p].at = q /\ send'[p].pc \in {"depth", "enqueued"})
               - One(send[p].at = q /\ send[p].pc \in {"depth", "enqueued"})
    BY <1>3, SendersStep
  <2> HIDE DEF x, y
  <2>5. Senders(send', q, {"depth"}) = x + a - b
    BY <1>2, <2>1, <2>2, <2>3, <2>4 DEF SendMoves
  <2>6. Senders(send', q, {"depth", "enqueued"}) = y + a - d
    BY <1>2, <2>1, <2>2, <2>3, <2>4 DEF SendMoves
  <2>7. QED
    BY <2>3, <2>5, <2>6
<1>5. /\ i \in Nat /\ j \in Nat /\ m \in Nat /\ n \in Nat
      /\ depth[q] \in Int /\ enqueued[q] \in Nat /\ dequeued[q] \in Nat
      /\ Len(ch[q]) \in Nat /\ Len(log[q]) \in Nat
      /\ Ended(rows[q], lost[q]).enq \in Nat /\ Ended(rows[q], lost[q]).deq \in Nat
  BY Numbers
<1>6. /\ depth[q] = Len(ch[q]) - x + i
      /\ Ended(rows[q], lost[q]).enq + m + enqueued[q] + y = Len(log[q])
      /\ Ended(rows[q], lost[q]).deq + n + dequeued[q] + j = Len(log[q]) - Len(ch[q])
  BY DEF Books, DepthIs, EnqueuedIs, DequeuedIs
<1>7. /\ Len(ch'[q]) = Len(ch[q]) + a /\ Len(log'[q]) = Len(log[q]) + a
      /\ depth'[q] = depth[q] + b /\ enqueued'[q] = enqueued[q] + d
  BY <1>2 DEF SendMoves
<1> HIDE DEF x, y, i, j, m, n
<1>8. depth'[q] = Len(ch'[q]) - (x + a - b) + i
  BY <1>4, <1>5, <1>6, <1>7
<1>9. Ended(rows[q], lost[q]).enq + m + enqueued'[q] + (y + a - d) = Len(log'[q])
  <2> DEFINE r == Ended(rows[q], lost[q]).enq
             e == enqueued[q]
             l == Len(log[q])
  <2>1. r \in Int /\ m \in Int /\ e \in Int /\ l \in Int /\ y \in Int /\ r + m + e + y = l
    BY <1>4, <1>5, <1>6
  <2> HIDE DEF r, e, l
  <2>2. r + m + (e + d) + (y + a - d) = l + a
    BY <2>1
  <2>3. QED
    BY <1>7, <2>2 DEF r, e, l
<1>10. Ended(rows[q], lost[q]).deq + n + dequeued[q] + j = Len(log'[q]) - Len(ch'[q])
  <2>1. \A l, k, h \in Int : (l + h) - (k + h) = l - k
    OBVIOUS
  <2>2. a \in Int
    OBVIOUS
  <2>3. Len(log'[q]) - Len(ch'[q]) = Len(log[q]) - Len(ch[q])
    BY <1>5, <1>7, <2>1, <2>2
  <2>4. QED
    BY <1>6, <2>3
<1>11. QED
  BY <1>1, <1>4, <1>8, <1>9, <1>10 DEF DepthIs, EnqueuedIs, DequeuedIs, i, j, m, n

LEMMA ConsumerBooks ==
  ASSUME Types, Books, NEW c \in Consumers, Consumer(c)
  PROVE  Books'
<1> SUFFICES ASSUME NEW q \in Queues
             PROVE  /\ DepthIs(q, depth'[q], ch'[q], send', recv')
                    /\ EnqueuedIs(q, enqueued'[q], log'[q], send', flush',
                                  Ended(rows'[q], lost'[q]))
                    /\ DequeuedIs(q, dequeued'[q], log'[q], ch'[q], recv', flush',
                                  Ended(rows'[q], lost'[q]))
  BY DEF Books
<1> DEFINE x == Senders(send, q, {"depth"})
           i == Receivers(recv, q, {"depth"})
           j == Receivers(recv, q, {"depth", "dequeued"})
           n == InHand(flush, q, "deq")
           at == ConsumerOf[c] = q
<1>1. /\ send' = send /\ flush' = flush /\ rows' = rows /\ lost' = lost /\ log' = log
      /\ enqueued' = enqueued
  BY DEF Consumer, RecvTake, RecvSubDepth, RecvAddDequeued
<1>2. EnqueuedIs(q, enqueued'[q], log'[q], send', flush', Ended(rows'[q], lost'[q]))
  BY <1>1 DEF Books
<1>3. /\ recv \in [Consumers -> {"idle", "depth", "dequeued"}]
      /\ depth \in [Queues -> Int] /\ dequeued \in [Queues -> Nat]
      /\ ch \in [Queues -> Seq(Messages)] /\ ConsumerOf[c] \in Queues
  BY QueueAssumption DEF Types
<1>4. \A d \in Consumers \ {c} : recv'[d] = recv[d]
  BY <1>3 DEF Consumer, RecvTake, RecvSubDepth, RecvAddDequeued
<1>5. /\ Receivers(recv', q, {"depth"}) = i + One(at /\ recv'[c] \in {"depth"})
                                            - One(at /\ recv[c] \in {"depth"})
      /\ Receivers(recv', q, {"depth", "dequeued"}) =
           j + One(at /\ recv'[c] \in {"depth", "dequeued"})
             - One(at /\ recv[c] \in {"depth", "dequeued"})
  BY <1>4, ReceiversStep
<1>6. /\ x \in Int /\ i \in Int /\ j \in Int /\ n \in Int
      /\ depth[q] \in Int /\ dequeued[q] \in Int
      /\ Len(ch[q]) \in Int /\ Len(log[q]) \in Int /\ Ended(rows[q], lost[q]).deq \in Int
  <2>1. /\ x \in Nat /\ i \in Nat /\ j \in Nat /\ n \in Nat
        /\ depth[q] \in Int /\ dequeued[q] \in Nat
        /\ Len(ch[q]) \in Nat /\ Len(log[q]) \in Nat /\ Ended(rows[q], lost[q]).deq \in Nat
    BY Numbers
  <2> HIDE DEF x, i, j, n
  <2>2. QED
    BY <2>1
<1>7. /\ depth[q] = Len(ch[q]) - x + i
      /\ Ended(rows[q], lost[q]).deq + n + dequeued[q] + j = Len(log[q]) - Len(ch[q])
  BY DEF Books, DepthIs, DequeuedIs
<1>8. /\ DepthIs(q, depth'[q], ch'[q], send', recv') <=>
           depth'[q] = Len(ch'[q]) - x + Receivers(recv', q, {"depth"})
      /\ DequeuedIs(q, dequeued'[q], log'[q], ch'[q], recv', flush', Ended(rows'[q], lost'[q])) <=>
           Ended(rows[q], lost[q]).deq + n + dequeued'[q]
             + Receivers(recv', q, {"depth", "dequeued"})
             = Len(log[q]) - Len(ch'[q])
  BY <1>1 DEF DepthIs, DequeuedIs
<1> HIDE DEF x, i, j, n
<1>9. CASE ~at
  <2>1. depth'[q] = depth[q] /\ ch'[q] = ch[q] /\ dequeued'[q] = dequeued[q]
    BY <1>3, <1>9 DEF Consumer, RecvTake, RecvSubDepth, RecvAddDequeued
  <2>2. /\ Receivers(recv', q, {"depth"}) = i
        /\ Receivers(recv', q, {"depth", "dequeued"}) = j
    BY <1>5, <1>6, <1>9 DEF One
  <2>3. QED
    BY <1>2, <1>7, <1>8, <2>1, <2>2
<1>10. CASE at /\ RecvTake(c)
  <2>1. depth'[q] = depth[q] /\ dequeued'[q] = dequeued[q]
    BY <1>10 DEF RecvTake
  <2>2. Len(ch'[q]) = Len(ch[q]) - 1
    <3>1. ch[q] # <<>> /\ ch'[q] = Tail(ch[q]) /\ ch[q] \in Seq(Messages)
      BY <1>3, <1>10 DEF RecvTake
    <3>2. QED
      BY <3>1
  <2>3. recv[c] = "idle" /\ recv'[c] = "depth"
    BY <1>3, <1>10 DEF RecvTake
  <2>4. /\ Receivers(recv', q, {"depth"}) = i + 1
        /\ Receivers(recv', q, {"depth", "dequeued"}) = j + 1
    BY <1>5, <1>6, <1>10, <2>3 DEF One
  <2>5. depth[q] = (Len(ch[q]) - 1) - x + (i + 1)
    <3> DEFINE k == Len(ch[q])
               d == depth[q]
    <3>1. k \in Int /\ d \in Int /\ d = k - x + i
      BY <1>6, <1>7
    <3> HIDE DEF k, d
    <3>2. d = (k - 1) - x + (i + 1)
      BY <1>6, <3>1
    <3>3. QED
      BY <3>2 DEF k, d
  <2>6. Ended(rows[q], lost[q]).deq + n + dequeued[q] + (j + 1) = Len(log[q]) - (Len(ch[q]) - 1)
    <3> DEFINE r == Ended(rows[q], lost[q]).deq
               e == dequeued[q]
               l == Len(log[q])
               k == Len(ch[q])
    <3>1. r \in Int /\ e \in Int /\ l \in Int /\ k \in Int /\ r + n + e + j = l - k
      BY <1>6, <1>7
    <3> HIDE DEF r, e, l, k
    <3>2. r + n + e + (j + 1) = l - (k - 1)
      BY <1>6, <3>1
    <3>3. QED
      BY <3>2 DEF r, e, l, k
  <2>7. QED
    BY <1>2, <1>8, <2>1, <2>2, <2>4, <2>5, <2>6
<1>11. CASE at /\ RecvSubDepth(c)
  <2>1. ch'[q] = ch[q] /\ dequeued'[q] = dequeued[q] /\ depth'[q] = depth[q] - 1
    BY <1>3, <1>11 DEF RecvSubDepth
  <2>2. recv[c] = "depth" /\ recv'[c] = "dequeued"
    BY <1>3, <1>11 DEF RecvSubDepth
  <2>3. /\ Receivers(recv', q, {"depth"}) = i - 1
        /\ Receivers(recv', q, {"depth", "dequeued"}) = j
    BY <1>5, <1>6, <1>11, <2>2 DEF One
  <2>4. depth[q] - 1 = Len(ch[q]) - x + (i - 1)
    BY <1>6, <1>7
  <2>5. QED
    BY <1>2, <1>7, <1>8, <2>1, <2>3, <2>4
<1>12. CASE at /\ RecvAddDequeued(c)
  <2>1. ch'[q] = ch[q] /\ depth'[q] = depth[q] /\ dequeued'[q] = dequeued[q] + 1
    BY <1>3, <1>12 DEF RecvAddDequeued
  <2>2. recv[c] = "dequeued" /\ recv'[c] = "idle"
    BY <1>3, <1>12 DEF RecvAddDequeued
  <2>3. /\ Receivers(recv', q, {"depth"}) = i
        /\ Receivers(recv', q, {"depth", "dequeued"}) = j - 1
    BY <1>5, <1>6, <1>12, <2>2 DEF One
  <2>4. Ended(rows[q], lost[q]).deq + n + (dequeued[q] + 1) + (j - 1) = Len(log[q]) - Len(ch[q])
    <3> DEFINE r == Ended(rows[q], lost[q]).deq
               e == dequeued[q]
               l == Len(log[q])
               k == Len(ch[q])
    <3>1. r \in Int /\ e \in Int /\ l \in Int /\ k \in Int /\ r + n + e + j = l - k
      BY <1>6, <1>7
    <3> HIDE DEF r, e, l, k
    <3>2. r + n + (e + 1) + (j - 1) = l - k
      BY <1>6, <3>1
    <3>3. QED
      BY <3>2 DEF r, e, l, k
  <2>5. QED
    BY <1>2, <1>7, <1>8, <2>1, <2>3, <2>4
<1>13. QED
  BY <1>9, <1>10, <1>11, <1>12 DEF Consumer

\* A flusher's step changes what is in its hands, of its queue.
LEMMA InHandStep ==
  ASSUME Types, NEW f \in Flushers, flush' \in [Flushers -> FlushStates],
         \A g \in Flushers \ {f} : flush'[g] = flush[g],
         NEW q \in Queues, NEW field \in {"enq", "deq"}
  PROVE  InHand(flush', q, field) =
           IF FlusherOf[f] = q
           THEN InHand(flush, q, field) - flush[f][field] + flush'[f][field]
           ELSE InHand(flush, q, field)
<1> DEFINE a == [g \in Flushers |-> flush[g][field]]
           b == [g \in Flushers |-> flush'[g][field]]
<1>1. IsFiniteSet(FlushersOf(q)) /\ FlushersOf(q) \subseteq Flushers
  BY QueueAssumption, FS_Subset DEF FlushersOf
<1>2. /\ \A g \in FlushersOf(q) : a[g] \in Int /\ b[g] \in Int
      /\ \A g \in FlushersOf(q) \ {f} : b[g] = a[g]
      /\ a[f] = flush[f][field] /\ b[f] = flush'[f][field]
  BY <1>1, SMTT(30) DEF Types, FlushStates
<1>3. /\ InHand(flush, q, field) = SumFunctionOnSet(a, FlushersOf(q))
      /\ InHand(flush', q, field) = SumFunctionOnSet(b, FlushersOf(q))
  BY DEF InHand
<1> HIDE DEF a, b
<1>4. CASE f \in FlushersOf(q)
  <2>1. SumFunctionOnSet(b, FlushersOf(q)) = SumFunctionOnSet(a, FlushersOf(q)) - a[f] + b[f]
    BY <1>1, <1>2, <1>4, SumChange
  <2>2. FlusherOf[f] = q
    BY <1>4 DEF FlushersOf
  <2>3. QED
    BY <1>2, <1>3, <2>1, <2>2
<1>5. CASE f \notin FlushersOf(q)
  <2>1. \A g \in FlushersOf(q) : a[g] = b[g]
    BY <1>2, <1>5
  <2>2. SumFunctionOnSet(a, FlushersOf(q)) = SumFunctionOnSet(b, FlushersOf(q))
    BY <1>1, <2>1, SumSame
  <2>3. FlusherOf[f] # q
    BY <1>5 DEF FlushersOf
  <2>4. QED
    BY <1>3, <2>2, <2>3
<1>6. QED
  BY <1>4, <1>5

LEMMA FlusherBooks ==
  ASSUME Types, HandsEmpty, Books, NEW f \in Flushers, Flusher(f), Types'
  PROVE  Books'
<1> SUFFICES ASSUME NEW q \in Queues
             PROVE  /\ DepthIs(q, depth'[q], ch'[q], send', recv')
                    /\ EnqueuedIs(q, enqueued'[q], log'[q], send', flush',
                                  Ended(rows'[q], lost'[q]))
                    /\ DequeuedIs(q, dequeued'[q], log'[q], ch'[q], recv', flush',
                                  Ended(rows'[q], lost'[q]))
  BY DEF Books
<1>1. send' = send /\ recv' = recv /\ ch' = ch /\ log' = log /\ depth' = depth
  BY DEF Flusher, FlushSwapEnqueued, FlushSwapDequeued, FlushLoadDepth, FlushInsert
<1>2. DepthIs(q, depth'[q], ch'[q], send', recv')
  BY <1>1 DEF Books
<1> DEFINE m == InHand(flush, q, "enq")
           n == InHand(flush, q, "deq")
           y == Senders(send, q, {"depth", "enqueued"})
           j == Receivers(recv, q, {"depth", "dequeued"})
           l == Len(log[q])
           k == Len(ch[q])
           e == enqueued[q]
           d == dequeued[q]
           re == Ended(rows[q], lost[q]).enq
           rd == Ended(rows[q], lost[q]).deq
           fe == flush[f].enq
           fd == flush[f].deq
<1>3. /\ flush \in [Flushers -> FlushStates] /\ flush' \in [Flushers -> FlushStates]
      /\ rows \in [Queues -> [enq : Nat, deq : Nat]] /\ lost \in [Queues -> [enq : Nat, deq : Nat]]
      /\ enqueued \in [Queues -> Nat] /\ dequeued \in [Queues -> Nat]
      /\ FlusherOf[f] \in Queues
  BY QueueAssumption DEF Types
<1>4. \A g \in Flushers \ {f} : flush'[g] = flush[g]
  BY <1>3 DEF Flusher, FlushSwapEnqueued, FlushSwapDequeued, FlushLoadDepth, FlushInsert
<1>5. /\ InHand(flush', q, "enq") = IF FlusherOf[f] = q THEN m - fe + flush'[f].enq ELSE m
      /\ InHand(flush', q, "deq") = IF FlusherOf[f] = q THEN n - fd + flush'[f].deq ELSE n
  BY <1>3, <1>4, InHandStep
<1>6. /\ m \in Int /\ n \in Int /\ y \in Int /\ j \in Int /\ l \in Int /\ k \in Int
      /\ e \in Int /\ d \in Int /\ re \in Int /\ rd \in Int
  <2>1. /\ m \in Nat /\ n \in Nat /\ y \in Nat /\ j \in Nat /\ l \in Nat /\ k \in Nat
        /\ e \in Nat /\ d \in Nat /\ re \in Nat /\ rd \in Nat
    BY Numbers
  <2> HIDE DEF m, n, y, j, l, k, e, d, re, rd
  <2>2. QED
    BY <2>1
<1>7. fe \in Int /\ fd \in Int
  BY <1>3 DEF FlushStates
<1>8. re + m + e + y = l /\ rd + n + d + j = l - k
  BY DEF Books, EnqueuedIs, DequeuedIs
<1>9. /\ EnqueuedIs(q, enqueued'[q], log'[q], send', flush', Ended(rows'[q], lost'[q])) <=>
           Ended(rows'[q], lost'[q]).enq + InHand(flush', q, "enq") + enqueued'[q] + y = l
      /\ DequeuedIs(q, dequeued'[q], log'[q], ch'[q], recv', flush', Ended(rows'[q], lost'[q])) <=>
           Ended(rows'[q], lost'[q]).deq + InHand(flush', q, "deq") + dequeued'[q] + j = l - k
  BY <1>1 DEF EnqueuedIs, DequeuedIs
<1>10. CASE FlusherOf[f] # q
  <2>1. rows'[q] = rows[q] /\ lost'[q] = lost[q] /\ enqueued'[q] = e /\ dequeued'[q] = d
    BY <1>3, <1>10 DEF Flusher, FlushSwapEnqueued, FlushSwapDequeued, FlushLoadDepth, FlushInsert,
       AddFlush
  <2>2. QED
    BY <1>2, <1>5, <1>8, <1>9, <1>10, <2>1
<1>11. CASE FlusherOf[f] = q /\ FlushSwapEnqueued(f)
  <2>1. /\ rows'[q] = rows[q] /\ lost'[q] = lost[q] /\ enqueued'[q] = 0 /\ dequeued'[q] = d
        /\ flush'[f].enq = e /\ flush'[f].deq = 0 /\ fe = 0 /\ fd = 0
    BY <1>3, <1>11 DEF FlushSwapEnqueued, HandsEmpty
  <2>2. Ended(rows'[q], lost'[q]).enq = re /\ Ended(rows'[q], lost'[q]).deq = rd
    BY <2>1
  <2> HIDE DEF m, n, y, j, l, k, e, d, re, rd, fe, fd
  <2>3. InHand(flush', q, "enq") = m + e /\ InHand(flush', q, "deq") = n
    BY <1>5, <1>6, <1>11, <2>1
  <2>4. re + (m + e) + 0 + y = l
    BY <1>6, <1>8
  <2>5. QED
    BY <1>2, <1>8, <1>9, <2>1, <2>2, <2>3, <2>4
<1>12. CASE FlusherOf[f] = q /\ FlushSwapDequeued(f)
  <2>1. /\ rows'[q] = rows[q] /\ lost'[q] = lost[q] /\ enqueued'[q] = e /\ dequeued'[q] = 0
        /\ flush'[f].enq = fe /\ flush'[f].deq = d /\ fd = 0
    BY <1>3, <1>12 DEF FlushSwapDequeued, HandsEmpty, FlushStates
  <2>2. Ended(rows'[q], lost'[q]).enq = re /\ Ended(rows'[q], lost'[q]).deq = rd
    BY <2>1
  <2> HIDE DEF m, n, y, j, l, k, e, d, re, rd, fe, fd
  <2>3. InHand(flush', q, "enq") = m /\ InHand(flush', q, "deq") = n + d
    BY <1>5, <1>6, <1>7, <1>12, <2>1
  <2>4. rd + (n + d) + 0 + j = l - k
    BY <1>6, <1>8
  <2>5. QED
    BY <1>2, <1>8, <1>9, <2>1, <2>2, <2>3, <2>4
<1>13. CASE FlusherOf[f] = q /\ FlushLoadDepth(f)
  <2>1. /\ rows'[q] = rows[q] /\ lost'[q] = lost[q] /\ enqueued'[q] = e /\ dequeued'[q] = d
        /\ flush'[f].enq = fe /\ flush'[f].deq = fd
    BY <1>3, <1>13 DEF FlushLoadDepth, FlushStates
  <2>2. Ended(rows'[q], lost'[q]).enq = re /\ Ended(rows'[q], lost'[q]).deq = rd
    BY <2>1
  <2> HIDE DEF m, n, y, j, l, k, e, d, re, rd, fe, fd
  <2>3. InHand(flush', q, "enq") = m /\ InHand(flush', q, "deq") = n
    BY <1>5, <1>6, <1>7, <1>13, <2>1
  <2>4. QED
    BY <1>2, <1>8, <1>9, <2>1, <2>2, <2>3
<1>14. CASE FlusherOf[f] = q /\ FlushInsert(f)
  <2>1. /\ Ended(rows'[q], lost'[q]).enq = re + fe /\ Ended(rows'[q], lost'[q]).deq = rd + fd
        /\ enqueued'[q] = e /\ dequeued'[q] = d
        /\ flush'[f].enq = 0 /\ flush'[f].deq = 0
    <3>1. /\ enqueued'[q] = e /\ dequeued'[q] = d
          /\ flush'[f].enq = 0 /\ flush'[f].deq = 0
      BY <1>3, <1>14 DEF FlushInsert, FlushStates
    <3>2. /\ rows[q].enq \in Nat /\ rows[q].deq \in Nat
          /\ lost[q].enq \in Nat /\ lost[q].deq \in Nat
      BY <1>3
    <3>3. ASSUME NEW t \in [Queues -> [enq : Nat, deq : Nat]]
          PROVE  AddFlush(t, f)[q].enq = t[q].enq + fe /\ AddFlush(t, f)[q].deq = t[q].deq + fd
      BY <1>3, <1>14 DEF AddFlush
    <3>4. CASE rows' = AddFlush(rows, f) /\ lost' = lost
      <4>1. /\ rows'[q].enq = rows[q].enq + fe /\ rows'[q].deq = rows[q].deq + fd
            /\ lost'[q].enq = lost[q].enq /\ lost'[q].deq = lost[q].deq
        BY <1>3, <3>3, <3>4
      <4>2. QED
        BY <1>7, <3>1, <3>2, <4>1 DEF Ended
    <3>5. CASE lost' = AddFlush(lost, f) /\ rows' = rows
      <4>1. /\ lost'[q].enq = lost[q].enq + fe /\ lost'[q].deq = lost[q].deq + fd
            /\ rows'[q].enq = rows[q].enq /\ rows'[q].deq = rows[q].deq
        BY <1>3, <3>3, <3>5
      <4>2. QED
        BY <1>7, <3>1, <3>2, <4>1 DEF Ended
    <3>6. QED
      BY <1>14, <3>4, <3>5 DEF FlushInsert
  <2> HIDE DEF m, n, y, j, l, k, e, d, re, rd, fe, fd
  <2>2. InHand(flush', q, "enq") = m - fe /\ InHand(flush', q, "deq") = n - fd
    BY <1>5, <1>6, <1>7, <1>14, <2>1
  <2>3. (re + fe) + (m - fe) + e + y = l
    BY <1>6, <1>7, <1>8
  <2>4. (rd + fd) + (n - fd) + d + j = l - k
    BY <1>6, <1>7, <1>8
  <2>5. QED
    BY <1>2, <1>9, <2>1, <2>2, <2>3, <2>4
<1>15. QED
  BY <1>10, <1>11, <1>12, <1>13, <1>14 DEF Flusher

LEMMA BooksInit == Init => Books
<1> SUFFICES ASSUME Init, NEW q \in Queues
             PROVE  /\ DepthIs(q, depth[q], ch[q], send, recv)
                    /\ EnqueuedIs(q, enqueued[q], log[q], send, flush, Ended(rows[q], lost[q]))
                    /\ DequeuedIs(q, dequeued[q], log[q], ch[q], recv, flush,
                                  Ended(rows[q], lost[q]))
  BY DEF Books
<1>1. /\ depth[q] = 0 /\ enqueued[q] = 0 /\ dequeued[q] = 0
      /\ Ended(rows[q], lost[q]).enq = 0 /\ Ended(rows[q], lost[q]).deq = 0
      /\ ch[q] = <<>> /\ log[q] = <<>>
  BY DEF Init, Ended
<1>2. Len(<<>>) = 0
  OBVIOUS
<1>3. \A pcs \in SUBSET {"depth", "enqueued", "dequeued"} :
        Senders(send, q, pcs) = 0 /\ Receivers(recv, q, pcs) = 0
  <2> SUFFICES ASSUME NEW pcs \in SUBSET {"depth", "enqueued", "dequeued"}
               PROVE  Senders(send, q, pcs) = 0 /\ Receivers(recv, q, pcs) = 0
    OBVIOUS
  <2>1. {p \in Producers : send[p].at = q /\ send[p].pc \in pcs} = {}
    BY DEF Init, Idle
  <2>2. {c \in Consumers : ConsumerOf[c] = q /\ recv[c] \in pcs} = {}
    BY DEF Init
  <2>3. QED
    BY <2>1, <2>2, FS_EmptySet DEF Senders, Receivers
<1>4. ASSUME NEW field \in {"enq", "deq"} PROVE InHand(flush, q, field) = 0
  <2> DEFINE g == [f \in Flushers |-> flush[f][field]]
  <2>1. \A f \in FlushersOf(q) : g[f] = 0
    BY DEF Init, FlushersOf
  <2>2. IsFiniteSet(FlushersOf(q))
    BY QueueAssumption, FS_Subset DEF FlushersOf
  <2> HIDE DEF g
  <2>3. SumFunctionOnSet(g, FlushersOf(q)) = 0
    BY <2>1, <2>2, SumZero
  <2>4. QED
    BY <2>3 DEF InHand, g
<1>5. /\ Senders(send, q, {"depth"}) = 0 /\ Receivers(recv, q, {"depth"}) = 0
      /\ Senders(send, q, {"depth", "enqueued"}) = 0
      /\ Receivers(recv, q, {"depth", "dequeued"}) = 0
      /\ InHand(flush, q, "enq") = 0 /\ InHand(flush, q, "deq") = 0
  BY <1>3, <1>4
<1>6. QED
  BY <1>1, <1>2, <1>5 DEF DepthIs, EnqueuedIs, DequeuedIs

LEMMA BooksStep ==
  ASSUME Types, HandsEmpty, SendsInOrder, Books, [Next]_vars, Types'
  PROVE  Books' /\ HandsEmpty'
<1>1. CASE Cancel
  BY <1>1 DEF Cancel, Books, HandsEmpty
<1>2. ASSUME NEW q \in Subs, Subscribe(q) PROVE Books' /\ HandsEmpty'
  BY <1>2 DEF Subscribe, Books, HandsEmpty
<1>3. ASSUME NEW p \in Producers, Producer(p) PROVE Books' /\ HandsEmpty'
  <2>1. flush' = flush
    BY <1>3 DEF Producer, SendCall, SendPut, SendAddDepth, SendAddEnqueued, SendSnapshot,
       SendNextSub, SendReturn, SendCancelled
  <2>2. QED
    BY <1>3, <2>1, ProducerBooks DEF HandsEmpty
<1>4. ASSUME NEW c \in Consumers, Consumer(c) PROVE Books' /\ HandsEmpty'
  <2>1. flush' = flush
    BY <1>4 DEF Consumer, RecvTake, RecvSubDepth, RecvAddDequeued
  <2>2. QED
    BY <1>4, <2>1, ConsumerBooks DEF HandsEmpty
<1>5. ASSUME NEW f \in Flushers, Flusher(f) PROVE Books' /\ HandsEmpty'
  <2>1. flush \in [Flushers -> FlushStates]
    BY DEF Types
  <2>2. HandsEmpty'
    BY <1>5, <2>1 DEF Flusher, FlushSwapEnqueued, FlushSwapDequeued, FlushLoadDepth,
       FlushInsert, HandsEmpty, FlushStates
  <2>3. QED
    BY <1>5, <2>2, FlusherBooks
<1>6. CASE UNCHANGED vars
  BY <1>6 DEF vars, Books, HandsEmpty
<1>7. QED
  BY <1>1, <1>2, <1>3, <1>4, <1>5, <1>6 DEF Next

-----------------------------------------------------------------------------
\* A log of messages that are all different is no longer than there are messages.
LEMMA LogBound ==
  ASSUME Types, LogsInOrder, NEW q \in Queues
  PROVE  Cardinality(Messages) \in Nat /\ Len(log[q]) <= Cardinality(Messages)
<1>1. IsFiniteSet(Messages)
  <2>1. IsFiniteSet(1..MaxSends)
    BY QueueAssumption, FS_Interval
  <2>2. IsFiniteSet(Producers \X (1..MaxSends))
    BY <2>1, QueueAssumption, FS_Product
  <2>3. Messages = Producers \X (1..MaxSends)
    BY DEF Messages
  <2>4. QED
    BY <2>2, <2>3
<1>2. log[q] \in Seq(Messages) /\ IsInjective(log[q])
  BY DEF Types, LogsInOrder
<1>3. Len(log[q]) \in Nat /\ log[q] \in [1..Len(log[q]) -> Messages]
  BY <1>2
<1>4. log[q] \in Injection(1..Len(log[q]), Messages)
  BY <1>2, <1>3 DEF Injection, IsInjective
<1>5. Cardinality(1..Len(log[q])) <= Cardinality(Messages)
  BY <1>1, <1>4, FS_Injection
<1>6. Cardinality(1..Len(log[q])) = Len(log[q])
  <2>1. ASSUME NEW n \in Nat PROVE Cardinality(1..n) = n
    <3>1. Cardinality(1..n) = IF 1 > n THEN 0 ELSE n - 1 + 1
      BY FS_Interval
    <3>2. QED
      BY <3>1
  <2>2. QED
    BY <1>3, <2>1
<1>7. QED
  BY <1>1, <1>5, <1>6, FS_CardinalityType

\* What TypeOK says of the counters follows from the accounts.
LEMMA CounterBounds ==
  ASSUME Types, LogsInOrder, Books, NEW q \in Queues
  PROVE  /\ depth[q] \in Counts
         /\ enqueued[q] \in 0..Cardinality(Messages)
         /\ dequeued[q] \in 0..Cardinality(Messages)
<1> DEFINE x == Senders(send, q, {"depth"})
           y == Senders(send, q, {"depth", "enqueued"})
           i == Receivers(recv, q, {"depth"})
           j == Receivers(recv, q, {"depth", "dequeued"})
           m == InHand(flush, q, "enq")
           n == InHand(flush, q, "deq")
           l == Len(log[q])
           k == Len(ch[q])
           dp == depth[q]
           e == enqueued[q]
           d == dequeued[q]
           re == Ended(rows[q], lost[q]).enq
           rd == Ended(rows[q], lost[q]).deq
           P == Cardinality(Producers)
           M == Cardinality(Messages)
<1>1. /\ m \in Nat /\ n \in Nat /\ x \in Nat /\ y \in Nat /\ i \in Nat /\ j \in Nat
      /\ l \in Nat /\ k \in Nat /\ dp \in Int /\ e \in Nat /\ d \in Nat
      /\ re \in Nat /\ rd \in Nat
  BY Numbers
<1>2. x <= P /\ P \in Nat
  <2>1. {p \in Producers : send[p].at = q /\ send[p].pc \in {"depth"}} \in SUBSET Producers
    OBVIOUS
  <2>2. QED
    BY <2>1, QueueAssumption, FS_Subset, FS_CardinalityType DEF Senders
<1>3. i <= j
  <2> DEFINE T == {c \in Consumers : ConsumerOf[c] = q /\ recv[c] \in {"depth"}}
             U == {c \in Consumers : ConsumerOf[c] = q /\ recv[c] \in {"depth", "dequeued"}}
  <2>1. T \in SUBSET U /\ U \in SUBSET Consumers
    OBVIOUS
  <2>2. i = Cardinality(T) /\ j = Cardinality(U)
    BY DEF Receivers
  <2> HIDE DEF T, U, i, j
  <2>3. IsFiniteSet(U)
    BY <2>1, QueueAssumption, FS_Subset
  <2>4. QED
    BY <2>1, <2>2, <2>3, FS_Subset
<1>4. l <= M /\ M \in Nat
  BY LogBound
<1>5. dp = k - x + i /\ re + m + e + y = l /\ rd + n + d + j = l - k
  BY DEF Books, DepthIs, EnqueuedIs, DequeuedIs
<1>6. Counts = -P..M
  BY DEF Counts
<1> HIDE DEF x, y, i, j, m, n, l, k, dp, e, d, re, rd, P, M
<1>7. dp \in -P..M
  BY <1>1, <1>2, <1>3, <1>4, <1>5
<1>8. e \in 0..M
  BY <1>1, <1>4, <1>5
<1>9. d \in 0..M
  BY <1>1, <1>4, <1>5
<1>10. QED
  BY <1>6, <1>7, <1>8, <1>9 DEF dp, e, d, M

-----------------------------------------------------------------------------
LEMMA Initially == Init => IInv
<1> SUFFICES ASSUME Init PROVE IInv
  OBVIOUS
<1>1. Types /\ IsInjective(subscribers)
  BY TypesInit
<1>2. HandsEmpty
  BY DEF Init, HandsEmpty
<1>3. DepthNeverDrifts /\ EveryMessageCountedOnce
  BY BooksInit, BooksAre
<1>4. ToSet(<<>>) = {} /\ IsInjective(<<>>)
  BY DEF ToSet, IsInjective
<1>5. LogsInOrder
  BY <1>4 DEF Init, LogsInOrder, Queues
<1>6. SendsInOrder /\ NoCopyForgotten
  BY DEF Init, SendsInOrder, SendInOrder, NoCopyForgotten, CopiesOwed, Idle
<1>7. QED
  BY <1>1, <1>2, <1>3, <1>5, <1>6 DEF IInv

LEMMA Inductive == IInv /\ [Next]_vars => IInv'
<1> SUFFICES ASSUME IInv, [Next]_vars PROVE IInv'
  OBVIOUS
<1>1. /\ Types /\ IsInjective(subscribers) /\ HandsEmpty /\ Books
      /\ LogsInOrder /\ SendsInOrder /\ NoCopyForgotten
  BY BooksAre DEF IInv
<1>2. Types' /\ IsInjective(subscribers')
  BY <1>1, TypesStep
<1>3. SendsInOrder' /\ LogsInOrder' /\ NoCopyForgotten'
  BY <1>1, OrderStep
<1>4. Books' /\ HandsEmpty'
  BY <1>1, <1>2, BooksStep
<1>5. DepthNeverDrifts' /\ EveryMessageCountedOnce'
  BY <1>4, BooksAre, PTL
<1>6. QED
  BY <1>2, <1>3, <1>4, <1>5 DEF IInv

LEMMA Always == Spec => []IInv
BY Initially, Inductive, PTL DEF Spec

LEMMA TypesFollow == IInv => TypeOK
<1> SUFFICES ASSUME IInv PROVE TypeOK
  OBVIOUS
<1>1. Types /\ LogsInOrder /\ Books
  BY BooksAre DEF IInv
<1>2. \A q \in Queues : ToSet(ch[q]) \subseteq Messages /\ Len(ch[q]) <= QueueBufferSize
  BY <1>1, ToSetFacts DEF Types
<1>3. \A q \in Queues : /\ depth[q] \in Counts
                        /\ enqueued[q] \in 0..Cardinality(Messages)
                        /\ dequeued[q] \in 0..Cardinality(Messages)
  BY <1>1, CounterBounds
<1>4. ToSet(subscribers) \subseteq Subs
  BY <1>1, ToSetFacts DEF Types
<1>5. /\ \A p \in Producers :
           send[p].pc \in {"idle", "put", "depth", "enqueued", "snapshot", "loop"}
      /\ \A c \in Consumers : recv[c] \in {"idle", "depth", "dequeued"}
      /\ \A f \in Flushers : flush[f].pc \in {"idle", "dequeued", "depth", "insert"}
      /\ cancelled \in BOOLEAN
  BY <1>1 DEF Types, SendStates, FlushStates
<1>6. QED
  BY <1>2, <1>3, <1>4, <1>5 DEF TypeOK

LEMMA FanOutFollows == IInv => FanOutComplete
<1> SUFFICES ASSUME IInv PROVE FanOutComplete
  OBVIOUS
<1>1. \A q \in Subs : IsInjective(log[q]) /\ ToSet(log[q]) \subseteq ToSet(log[Main])
  BY DEF IInv, LogsInOrder, Queues
<1>2. ASSUME ~cancelled, NEW p \in Producers, send[p].pc = "loop", NEW q \in send[p].subs
      PROVE  send[p].msg \in ToSet(log[q]) \/ q \in ToSet(send[p].todo)
  <2>1. CopiesOwed(send[p], log, subscribers)
    BY <1>2 DEF IInv, NoCopyForgotten
  <2>2. QED
    BY <1>2, <2>1 DEF CopiesOwed, Opening
<1>3. QED
  BY <1>1, <1>2 DEF FanOutComplete

\* The counters stay within what was sent, a channel within its buffer (the int64s
\* of Queue and queueBufferSize).
THEOREM TypesHold == Spec => []TypeOK
BY Always, TypesFollow, PTL

\* depth is the length of the channel but for goroutines on their way (Depth).
THEOREM DepthIsTheLength == Spec => []DepthNeverDrifts
<1>1. IInv => DepthNeverDrifts
  BY DEF IInv
<1>2. QED
  BY <1>1, Always, PTL

\* queue_metrics count each message once, however many goroutines flush (writeMetrics).
THEOREM RowsCountEachMessage == Spec => []EveryMessageCountedOnce
<1>1. IInv => EveryMessageCountedOnce
  BY DEF IInv
<1>2. QED
  BY <1>1, Always, PTL

\* A subscription has every message sent to Main since, and none twice (Send, Subscribe).
THEOREM SubscribersGetEverything == Spec => []FanOutComplete
BY Always, FanOutFollows, PTL
=============================================================================
