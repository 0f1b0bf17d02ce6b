--------------------------- MODULE ServiceMetrics ---------------------------
(***************************************************************************)
(* The counters of the four services and the goroutines that flush them to *)
(* service_metrics (order_service.go, payment_service.go,                  *)
(* fulfillment_service.go and notification_service.go). Each locked        *)
(* section is a step. Which outcomes occur is left open: Pipeline says.    *)
(*                                                                         *)
(* good stands for enqueued or processed, total for totalReqs or           *)
(* totalMsgs. Latencies, and the time a window lasted, are data. At        *)
(* ctx.Done the writers return and leave what is counted unreported: a     *)
(* behaviour that ends.                                                    *)
(***************************************************************************)
EXTENDS Integers, FiniteSets, Functions

CONSTANTS
  Metered,      \* the services
  Flushers,     \* goroutines in writeMetrics: runMetricsWriter, ForceWriteMetrics
  FlusherOf,    \*   and the service of each
  MaxRequests   \* bound: requests counted per service

ASSUME ServiceMetricsAssumption ==
  /\ Metered \subseteq {"order", "payment", "fulfillment", "notification"}
  /\ FlusherOf \in [Flushers -> Metered]
  /\ IsFiniteSet(Flushers)
  /\ MaxRequests \in Nat

VARIABLES
  counters,   \* good, errors and total of each service
  pending,    \* orders counted in totalReqs whose outcome is not: 0 or 1
  flush,      \* per flusher, the counts it has taken and not yet inserted
  reported,   \* what the rows of each service add up to
  lost,       \* history: the same of the rows that could not be inserted
  happened    \* history: the requests begun and the outcomes there were

vars == <<counters, pending, flush, reported, lost, happened>>

Zero == [good |-> 0, errors |-> 0, total |-> 0]
Kinds == {"good", "errors"}
Plus(a, b) == [field \in DOMAIN Zero |-> a[field] + b[field]]

Idle == [pc |-> "idle", taken |-> Zero]

Init ==
  /\ counters = [s \in Metered |-> Zero]
  /\ pending = 0
  /\ flush = [f \in Flushers |-> Idle]
  /\ reported = [s \in Metered |-> Zero]
  /\ lost = [s \in Metered |-> Zero]
  /\ happened = [s \in Metered |-> Zero]

-----------------------------------------------------------------------------
\* OrderService.processTick counts the request in one locked section ...
OrderBegins ==
  /\ "order" \in Metered
  /\ pending = 0
  /\ happened["order"].total < MaxRequests
  /\ pending' = 1
  /\ counters' = [counters EXCEPT !["order"].total = @ + 1]
  /\ happened' = [happened EXCEPT !["order"].total = @ + 1]
  /\ UNCHANGED <<flush, reported, lost>>

\* ... and, perhaps after a Send that waited for long, its outcome in another.
\* A Send that was cancelled counts as well.
OrderEnds(kind) ==
  /\ pending = 1
  /\ pending' = 0
  /\ counters' = [counters EXCEPT !["order"][kind] = @ + 1]
  /\ happened' = [happened EXCEPT !["order"][kind] = @ + 1]
  /\ UNCHANGED <<flush, reported, lost>>

\* Mutant: the outcome is counted twice, by the caller and by the callee.
OutcomeTwice(s, kind) ==
  /\ s # "order"
  /\ happened[s].total < MaxRequests
  /\ counters' = [counters EXCEPT ![s][kind] = @ + 2, ![s].total = @ + 1]
  /\ happened' = [happened EXCEPT ![s][kind] = @ + 1, ![s].total = @ + 1]
  /\ UNCHANGED <<pending, flush, reported, lost>>

\* The other services count an outcome and its total together.
Outcome(s, kind) ==
  /\ s # "order"
  /\ happened[s].total < MaxRequests
  /\ counters' = [counters EXCEPT ![s][kind] = @ + 1, ![s].total = @ + 1]
  /\ happened' = [happened EXCEPT ![s][kind] = @ + 1, ![s].total = @ + 1]
  /\ UNCHANGED <<pending, flush, reported, lost>>

-----------------------------------------------------------------------------
\* Mutant: errors are not reset.
FlushTakeKeepsErrors(f) ==
  LET s == FlusherOf[f] IN
  /\ flush[f].pc = "idle"
  /\ flush' = [flush EXCEPT ![f] = [pc |-> "insert", taken |-> counters[s]]]
  /\ counters' = [counters EXCEPT ![s] = [Zero EXCEPT !.errors = counters[s].errors]]
  /\ UNCHANGED <<pending, reported, lost, happened>>

\* writeMetrics: the counters are taken and reset in one locked section, ...
FlushTake(f) ==
  LET s == FlusherOf[f] IN
  /\ flush[f].pc = "idle"
  /\ flush' = [flush EXCEPT ![f] = [pc |-> "insert", taken |-> counters[s]]]
  /\ counters' = [counters EXCEPT ![s] = Zero]
  /\ UNCHANGED <<pending, reported, lost, happened>>

\* Mutant: the counters are reset again when the row is in the database.
FlushInsertResets(f) ==
  LET s == FlusherOf[f] IN
  /\ flush[f].pc = "insert"
  /\ reported' = [reported EXCEPT ![s] = Plus(@, flush[f].taken)]
  /\ flush' = [flush EXCEPT ![f] = Idle]
  /\ counters' = [counters EXCEPT ![s] = Zero]
  /\ UNCHANGED <<pending, lost, happened>>

\* ... the row is inserted later. An INSERT that fails is not noticed.
FlushInsert(f) ==
  LET s == FlusherOf[f] IN
  /\ flush[f].pc = "insert"
  /\ \/ /\ reported' = [reported EXCEPT ![s] = Plus(@, flush[f].taken)]
        /\ UNCHANGED lost
     \/ /\ lost' = [lost EXCEPT ![s] = Plus(@, flush[f].taken)]
        /\ UNCHANGED reported
  /\ flush' = [flush EXCEPT ![f] = Idle]
  /\ UNCHANGED <<counters, pending, happened>>

Next ==
  \/ OrderBegins
  \/ \E kind \in Kinds : OrderEnds(kind) \/ \E s \in Metered : Outcome(s, kind)
  \/ \E f \in Flushers : FlushTake(f) \/ FlushInsert(f)

Spec == Init /\ [][Next]_vars

-----------------------------------------------------------------------------
Counts == [good : 0..MaxRequests, errors : 0..MaxRequests, total : 0..MaxRequests]

TypeOK ==
  /\ pending \in 0..1
  /\ counters \in [Metered -> Counts]
  /\ reported \in [Metered -> Counts]
  /\ lost \in [Metered -> Counts]
  /\ happened \in [Metered -> Counts]
  /\ \A f \in Flushers : /\ flush[f].pc \in {"idle", "insert"}
                         /\ flush[f].taken \in Counts

Flushing(s) == {f \in Flushers : FlusherOf[f] = s}

\* Each request and each outcome reaches service_metrics once: it is in a row, or in
\* the hands of one flusher, or still counted, or went with a row that could not be
\* inserted; several flushers racing with the goroutines of the service neither lose
\* nor double one otherwise (writeMetrics).
OutcomesReportedOnce ==
  \A s \in Metered : \A field \in DOMAIN Zero :
    happened[s][field] = reported[s][field] + lost[s][field] + counters[s][field]
                           + SumFunctionOnSet([f \in Flushers |-> flush[f].taken[field]],
                                              Flushing(s))

Unbalanced(counts) == counts.total - counts.good - counts.errors

\* A row's error rate is a fraction, 0.0-1.0 (docs/architecture.md:99), because a window
\* holds a total for each outcome: always in payment, fulfillment and notification.
\* The order service counts in two sections, so a window may hold an outcome whose
\* request the one before it reported, and its rate may exceed 1.0, by one error
\* and no more.
WindowsBalance ==
  \A f \in Flushers :
    LET s == FlusherOf[f] IN
    IF s # "order" THEN Unbalanced(flush[f].taken) = 0
    ELSE Unbalanced(flush[f].taken) \in -1..1
=============================================================================
