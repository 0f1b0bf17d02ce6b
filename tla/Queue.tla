------------------------------- MODULE Queue -------------------------------
(***************************************************************************)
(* The in-memory queue of internal/simulator/queue.go, one atomic step at  *)
(* a time: the channel operation and the three atomic counters that follow *)
(* it, the fan-out to subscribers, and the metrics writers that swap the   *)
(* counters out. Queue Main is the one that is sent to; the others are     *)
(* subscriptions it may get while messages are under way.                  *)
(***************************************************************************)
EXTENDS Integers, Sequences, FiniteSets, SequencesExt

CONSTANTS
  Main,             \* the queue producers send to
  Subs,             \* names of the queues Subscribe may create
  Producers,        \* goroutines that call Main.Send
  Consumers,        \* goroutines that receive ...
  ConsumerOf,       \*   ... each from one queue
  Flushers,         \* goroutines in writeMetrics: runMetricsWriter, ForceWriteMetrics
  FlusherOf,
  QueueBufferSize,  \* queueBufferSize
  MaxSends          \* bound: messages per producer

Queues == {Main} \cup Subs

ASSUME QueueAssumption ==
  /\ Main \notin Subs
  /\ ConsumerOf \in [Consumers -> Queues]
  /\ FlusherOf \in [Flushers -> Queues]
  /\ IsFiniteSet(Producers) /\ IsFiniteSet(Consumers) /\ IsFiniteSet(Flushers)
  /\ QueueBufferSize \in Nat \ {0}
  /\ MaxSends \in Nat

VARIABLES
  cancelled,    \* ctx is done
  ch,           \* the channel of each queue
  depth, enqueued, dequeued,  \* its atomic counters
  subscribers,  \* Main.subscribers
  sent,         \* messages each producer has begun to send
  send,         \* each producer's place in Send
  recv,         \* each consumer's place in TryReceive or Receive
  flush,        \* each flusher's place in writeMetrics
  rows,         \* what the metrics rows of each queue add up to
  lost,         \* history: the same of the rows whose INSERT failed
  log           \* history: every message ever put on each channel, in order

vars == <<cancelled, ch, depth, enqueued, dequeued, subscribers, sent, send,
          recv, flush, rows, lost, log>>

\* The k-th message of producer p; subs is the list of subscribers there was
\* when its Send began (history), todo the copies Send has still to make.
Idle == [pc |-> "idle", at |-> Main, msg |-> <<>>, todo |-> <<>>, subs |-> {}]

Init ==
  /\ cancelled = FALSE
  /\ ch = [q \in Queues |-> <<>>]
  /\ depth = [q \in Queues |-> 0]
  /\ enqueued = [q \in Queues |-> 0]
  /\ dequeued = [q \in Queues |-> 0]
  /\ subscribers = <<>>
  /\ sent = [p \in Producers |-> 0]
  /\ send = [p \in Producers |-> Idle]
  /\ recv = [c \in Consumers |-> "idle"]
  /\ flush = [f \in Flushers |-> [pc |-> "idle", enq |-> 0, deq |-> 0]]
  /\ rows = [q \in Queues |-> [enq |-> 0, deq |-> 0]]
  /\ lost = [q \in Queues |-> [enq |-> 0, deq |-> 0]]
  /\ log = [q \in Queues |-> <<>>]

Cancel ==
  /\ ~cancelled
  /\ cancelled' = TRUE
  /\ UNCHANGED <<ch, depth, enqueued, dequeued, subscribers, sent, send, recv, flush, rows, lost, log>>

\* Subscribe makes a new queue and appends it under subsMu.
Subscribe(q) ==
  /\ q \notin ToSet(subscribers)
  /\ subscribers' = Append(subscribers, q)
  /\ UNCHANGED <<cancelled, ch, depth, enqueued, dequeued, sent, send, recv, flush, rows, lost, log>>

-----------------------------------------------------------------------------
\* Send. A Send on a subscription is the same code with no subscribers of its own,
\* called in turn for each queue of the snapshot.
SendCall(p) ==
  /\ send[p].pc = "idle"
  /\ sent[p] < MaxSends
  /\ sent' = [sent EXCEPT ![p] = @ + 1]
  /\ send' = [send EXCEPT ![p] = [pc |-> "put", at |-> Main, msg |-> <<p, sent[p] + 1>>,
                                  todo |-> <<>>, subs |-> ToSet(subscribers)]]
  /\ UNCHANGED <<cancelled, ch, depth, enqueued, dequeued, subscribers, recv, flush, rows, lost, log>>

\* Mutant: room is checked with <=.
SendPutOverfills(p) ==
  LET q == send[p].at IN
  /\ send[p].pc = "put"
  /\ Len(ch[q]) <= QueueBufferSize
  /\ ch' = [ch EXCEPT ![q] = Append(@, send[p].msg)]
  /\ log' = [log EXCEPT ![q] = Append(@, send[p].msg)]
  /\ send' = [send EXCEPT ![p].pc = "depth"]
  /\ UNCHANGED <<cancelled, depth, enqueued, dequeued, subscribers, sent, recv, flush, rows, lost>>

SendPut(p) ==
  LET q == send[p].at IN
  /\ send[p].pc = "put"
  /\ Len(ch[q]) < QueueBufferSize
  /\ ch' = [ch EXCEPT ![q] = Append(@, send[p].msg)]
  /\ log' = [log EXCEPT ![q] = Append(@, send[p].msg)]
  /\ send' = [send EXCEPT ![p].pc = "depth"]
  /\ UNCHANGED <<cancelled, depth, enqueued, dequeued, subscribers, sent, recv, flush, rows, lost>>

SendAddDepth(p) ==
  /\ send[p].pc = "depth"
  /\ depth' = [depth EXCEPT ![send[p].at] = @ + 1]
  /\ send' = [send EXCEPT ![p].pc = "enqueued"]
  /\ UNCHANGED <<cancelled, ch, enqueued, dequeued, subscribers, sent, recv, flush, rows, lost, log>>

SendAddEnqueued(p) ==
  /\ send[p].pc = "enqueued"
  /\ enqueued' = [enqueued EXCEPT ![send[p].at] = @ + 1]
  /\ send' = [send EXCEPT ![p].pc = IF send[p].at = Main THEN "snapshot" ELSE "loop"]
  /\ UNCHANGED <<cancelled, ch, depth, dequeued, subscribers, sent, recv, flush, rows, lost, log>>

\* Mutant: copy into a slice of length 0, which copies nothing.
SendSnapshotEmpty(p) ==
  /\ send[p].pc = "snapshot"
  /\ send' = [send EXCEPT ![p].pc = "loop", ![p].todo = <<>>]
  /\ UNCHANGED <<cancelled, ch, depth, enqueued, dequeued, subscribers, sent, recv, flush, rows, lost, log>>

SendSnapshot(p) ==
  /\ send[p].pc = "snapshot"
  /\ send' = [send EXCEPT ![p].pc = "loop", ![p].todo = subscribers]
  /\ UNCHANGED <<cancelled, ch, depth, enqueued, dequeued, subscribers, sent, recv, flush, rows, lost, log>>

SendNextSub(p) ==
  /\ send[p].pc = "loop"
  /\ send[p].todo # <<>>
  /\ send' = [send EXCEPT ![p].pc = "put", ![p].at = Head(send[p].todo),
                          ![p].todo = Tail(@)]
  /\ UNCHANGED <<cancelled, ch, depth, enqueued, dequeued, subscribers, sent, recv, flush, rows, lost, log>>

SendReturn(p) ==
  /\ send[p].pc = "loop"
  /\ send[p].todo = <<>>
  /\ send' = [send EXCEPT ![p] = Idle]
  /\ UNCHANGED <<cancelled, ch, depth, enqueued, dequeued, subscribers, sent, recv, flush, rows, lost, log>>

\* Mutant: depth is counted although nothing was sent.
SendCancelledCounts(p) ==
  /\ cancelled
  /\ send[p].pc = "put"
  /\ send' = [send EXCEPT ![p] = IF send[p].at = Main THEN Idle
                                 ELSE [send[p] EXCEPT !.pc = "loop"]]
  /\ depth' = [depth EXCEPT ![send[p].at] = @ + 1]
  /\ UNCHANGED <<cancelled, ch, enqueued, dequeued, subscribers, sent, recv, flush, rows, lost, log>>

\* The select takes ctx.Done: Send on Main returns at once, before any copy; on a
\* subscription it returns to the loop.
SendCancelled(p) ==
  /\ cancelled
  /\ send[p].pc = "put"
  /\ send' = [send EXCEPT ![p] = IF send[p].at = Main THEN Idle
                                 ELSE [send[p] EXCEPT !.pc = "loop"]]
  /\ UNCHANGED <<cancelled, ch, depth, enqueued, dequeued, subscribers, sent, recv, flush, rows, lost, log>>

-----------------------------------------------------------------------------
\* TryReceive and the two receiving branches of Receive; a call that finds
\* nothing changes nothing.
RecvTake(c) ==
  LET q == ConsumerOf[c] IN
  /\ recv[c] = "idle"
  /\ ch[q] # <<>>
  /\ ch' = [ch EXCEPT ![q] = Tail(@)]
  /\ recv' = [recv EXCEPT ![c] = "depth"]
  /\ UNCHANGED <<cancelled, depth, enqueued, dequeued, subscribers, sent, send, flush, rows, lost, log>>

RecvSubDepth(c) ==
  /\ recv[c] = "depth"
  /\ depth' = [depth EXCEPT ![ConsumerOf[c]] = @ - 1]
  /\ recv' = [recv EXCEPT ![c] = "dequeued"]
  /\ UNCHANGED <<cancelled, ch, enqueued, dequeued, subscribers, sent, send, flush, rows, lost, log>>

RecvAddDequeued(c) ==
  /\ recv[c] = "dequeued"
  /\ dequeued' = [dequeued EXCEPT ![ConsumerOf[c]] = @ + 1]
  /\ recv' = [recv EXCEPT ![c] = "idle"]
  /\ UNCHANGED <<cancelled, ch, depth, enqueued, subscribers, sent, send, flush, rows, lost, log>>

-----------------------------------------------------------------------------
\* writeMetrics: two swaps, one load, one INSERT. It may run in two goroutines at
\* once (runMetricsWriter and ForceWriteMetrics).

\* Mutant: Load instead of Swap(0).
FlushLoadEnqueued(f) ==
  LET q == FlusherOf[f] IN
  /\ flush[f].pc = "idle"
  /\ flush' = [flush EXCEPT ![f] = [pc |-> "dequeued", enq |-> enqueued[q], deq |-> 0]]
  /\ UNCHANGED <<cancelled, ch, depth, enqueued, dequeued, subscribers, sent, send, recv, rows, lost, log>>

FlushSwapEnqueued(f) ==
  LET q == FlusherOf[f] IN
  /\ flush[f].pc = "idle"
  /\ flush' = [flush EXCEPT ![f] = [pc |-> "dequeued", enq |-> enqueued[q], deq |-> 0]]
  /\ enqueued' = [enqueued EXCEPT ![q] = 0]
  /\ UNCHANGED <<cancelled, ch, depth, dequeued, subscribers, sent, send, recv, rows, lost, log>>

FlushSwapDequeued(f) ==
  LET q == FlusherOf[f] IN
  /\ flush[f].pc = "dequeued"
  /\ flush' = [flush EXCEPT ![f].pc = "depth", ![f].deq = dequeued[q]]
  /\ dequeued' = [dequeued EXCEPT ![q] = 0]
  /\ UNCHANGED <<cancelled, ch, depth, enqueued, subscribers, sent, send, recv, rows, lost, log>>

\* depth is loaded for a third column, a gauge that no account here adds up: its value
\* is left out, the step that reads it is not.
FlushLoadDepth(f) ==
  /\ flush[f].pc = "depth"
  /\ flush' = [flush EXCEPT ![f].pc = "insert"]
  /\ UNCHANGED <<cancelled, ch, depth, enqueued, dequeued, subscribers, sent, send, recv, rows, lost, log>>

\* What the flush f took out of the counters of its queue, added to the sums t.
AddFlush(t, f) ==
  [t EXCEPT ![FlusherOf[f]] = [enq |-> @.enq + flush[f].enq, deq |-> @.deq + flush[f].deq]]

\* The INSERT's error is ignored: a row that cannot be written is gone, with the
\* counts the swaps have already taken out of the counters.
FlushInsert(f) ==
  /\ flush[f].pc = "insert"
  /\ \/ rows' = AddFlush(rows, f) /\ UNCHANGED lost
     \/ lost' = AddFlush(lost, f) /\ UNCHANGED rows
  /\ flush' = [flush EXCEPT ![f] = [pc |-> "idle", enq |-> 0, deq |-> 0]]
  /\ UNCHANGED <<cancelled, ch, depth, enqueued, dequeued, subscribers, sent, send, recv, log>>

-----------------------------------------------------------------------------
Producer(p) ==
  \/ SendCall(p) \/ SendPut(p) \/ SendAddDepth(p) \/ SendAddEnqueued(p)
  \/ SendSnapshot(p) \/ SendNextSub(p) \/ SendReturn(p) \/ SendCancelled(p)

Consumer(c) == RecvTake(c) \/ RecvSubDepth(c) \/ RecvAddDequeued(c)

Flusher(f) ==
  FlushSwapEnqueued(f) \/ FlushSwapDequeued(f) \/ FlushLoadDepth(f) \/ FlushInsert(f)

Next ==
  \/ Cancel
  \/ \E q \in Subs : Subscribe(q)
  \/ \E p \in Producers : Producer(p)
  \/ \E c \in Consumers : Consumer(c)
  \/ \E f \in Flushers : Flusher(f)

Spec == Init /\ [][Next]_vars

-----------------------------------------------------------------------------
Messages == {<<p, k>> : p \in Producers, k \in 1..MaxSends}
Counts == -Cardinality(Producers)..Cardinality(Messages)

TypeOK ==
  /\ cancelled \in BOOLEAN
  /\ \A q \in Queues : /\ ToSet(ch[q]) \subseteq Messages
                       /\ Len(ch[q]) <= QueueBufferSize
                       /\ depth[q] \in Counts
                       /\ enqueued[q] \in 0..Cardinality(Messages)
                       /\ dequeued[q] \in 0..Cardinality(Messages)
  /\ ToSet(subscribers) \subseteq Subs
  /\ \A p \in Producers :
       send[p].pc \in {"idle", "put", "depth", "enqueued", "snapshot", "loop"}
  /\ \A c \in Consumers : recv[c] \in {"idle", "depth", "dequeued"}
  /\ \A f \in Flushers : flush[f].pc \in {"idle", "dequeued", "depth", "insert"}

SendersAt(q, pcs) == Cardinality({p \in Producers : send[p].at = q /\ send[p].pc \in pcs})
ReceiversAt(q, pcs) == Cardinality({c \in Consumers : ConsumerOf[c] = q /\ recv[c] \in pcs})

\* depth is the channel's length except for the goroutines between their channel
\* operation and their counter: once these have finished the two agree, so depth
\* does not drift however sends, receives and cancellations interleave.
DepthNeverDrifts ==
  \A q \in Queues :
    depth[q] = Len(ch[q]) - SendersAt(q, {"depth"}) + ReceiversAt(q, {"depth"})

\* What the swaps have taken out of a queue's counters: it is in its rows, lost with a
\* row that could not be inserted, or in the hands of a flusher.
Flushed(q, field) ==
  rows[q][field] + lost[q][field]
    + SumFunctionOnSet([f \in Flushers |-> flush[f][field]],
                       {f \in Flushers : FlusherOf[f] = q})

\* Every message in and out of a queue is counted exactly once: by a metrics row, by a
\* row whose INSERT failed, by a flusher under way, or by a counter still to be swapped.
\* So the rows never count one twice, and miss only what a failed INSERT (queue.go:174)
\* dropped, though several flushers swap the counters while goroutines add to them.
EveryMessageCountedOnce ==
  \A q \in Queues :
    /\ Flushed(q, "enq") + enqueued[q] + SendersAt(q, {"depth", "enqueued"}) = Len(log[q])
    /\ Flushed(q, "deq") + dequeued[q] + ReceiversAt(q, {"depth", "dequeued"})
         = Len(log[q]) - Len(ch[q])

\* A subscription gets no message twice and none that is not on Main; and until
\* cancellation it has, when Send returns, every message whose Send began after
\* Subscribe ("receives a copy of every message sent to q", queue.go:75).
FanOutComplete ==
  /\ \A q \in Subs : IsInjective(log[q]) /\ ToSet(log[q]) \subseteq ToSet(log[Main])
  /\ ~cancelled =>
       \A p \in Producers : send[p].pc = "loop" =>
         \A q \in send[p].subs : send[p].msg \in ToSet(log[q]) \/ q \in ToSet(send[p].todo)
=============================================================================
