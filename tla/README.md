# Monitower: TLA+ specifications, checks and proofs

Monitower is a simulated order pipeline that can be broken on purpose, a monitor
that watches its metrics in SQLite and turns anomalies into incidents, and a
dashboard that shows them. This directory holds TLA+ models of the parts whose
correctness depends on the order in which things happen, the TLC configurations
that check them, and proofs, checked by TLAPS, of all their safety properties and of the
pipeline's refinement of an abstract order flow.

To run everything, in this directory:

    tlc -workers 2 -config Pipeline.cfg MCPipeline.tla      # one line per run
    for m in SumTheorems *Proofs.tla; do tlapm ${m%.tla}.tla; done

## 1. Inventory

Paths are relative to `src/`.

| Component | State | Operations | Talks to |
|---|---|---|---|
| Message queue (`internal/simulator/queue.go`) | a channel of 1000, atomics `depth`, `enqueued`, `dequeued`, the `subscribers` slice | `Send`, `Subscribe`, `Receive`, `TryReceive`, `writeMetrics` | services; rows in `queue_metrics` |
| Order service (`order_service.go`) | counters under `mu` | a tick every 200 ms builds one order and sends it | fault engine, `order-queue` |
| Payment service (`payment_service.go`) | `crashed`, `inFlight`, counters | a tick every 100 ms polls 5 messages, one goroutine each: schema check, up to 3 attempts, back-off, send or dead-letter; `Restart` | `order-queue`, `payment-queue`, `payment-dlq` |
| Fulfillment service (`fulfillment_service.go`) | counters | polls 3 messages, up to 3 attempts, then discards | `payment-queue` |
| Notification service (`notification_service.go`) | counters | polls its subscription, 2 attempts, then dead-letters | a subscription of `payment-queue`, `notification-dlq` |
| Fault engine (`fault_engine.go`) | the `active` map under a RWMutex | `Activate`, `Deactivate`, `GetActiveFaults`, `GetFaultContext` | rows in `fault_events` |
| Simulator API (`api.go`) and process (`cmd/simulator/main.go`) | none | inject, stop, reset; wiring; SIGINT cancels the context of all services | fault engine |
| Poll loop (`internal/monitor/poller.go`) | `lastSnapshot`, the length of the last cycle | a cycle every 2 s: read metrics, detect, correlate, reconcile, resolve, broadcast | everything in the monitor |
| Baselines and anomaly detection (`anomaly.go`) | a sliding window of samples for each service or queue and metric | `Add…Metric`, `…Stats`, `Detect…Anomalies` | poll loop |
| Correlator (`correlator.go`) | `activeSignals` | `AddSignals`, `Correlate` | `fault_events` rows |
| Incident store and resolution (`incidents.go`) | `incidents` rows, `ResolutionTracker.counts` | `Reconcile`, `Check`, `MarkResolved`, `ListActive` | SQLite |
| SSE broadcaster (`sse.go`) | the set of clients, a channel of 8 each | connect, broadcast, disconnect | dashboard |
| Monitor API (`internal/monitor/api.go`) | none | read-only queries and the snapshot | poll loop, SQLite |
| Dashboard (`dashboard/`) | `useMonitowerState`: the last snapshot; `FaultInjector`: request in progress | show, inject, stop | monitor stream, simulator API |
| Database (`internal/db`) | schema | open, create tables | all |

The simulator and the monitor are two processes that share only the SQLite file:
the simulator writes `service_metrics`, `queue_metrics` and `fault_events`, the
monitor reads these and owns `incidents`.

What makes each part correct, and what makes it hard:

* **Pipeline.** Every order has one owner at a time; none is lost, doubled or
  dead-lettered wrongly; every order gets somewhere; a shutdown leaves no goroutine
  behind. Hard, because there are four tickers and up to three goroutines for an
  order, `Send` blocks in the middle of processing, faults change between two attempts,
  and every wait races with cancellation.
* **Queue.** The counters agree with the channel, no message is reported twice or missed but with
  a row that could not be written, a subscriber misses nothing. Hard, because each of these is several atomic steps and
  senders, receivers, subscribers and two metrics writers interleave between them.
* **Faults.** A stop really stops, an activation has no second start or stop row, and lacks one only
  if an INSERT failed. Hard, because rows are written after the lock is released, that an INSERT failed is not noticed, stop works from
  a snapshot, and a service's context depends on the iteration order of a Go map.
* **Monitor.** Whatever is anomalous has an open incident; an incident closes only when
  it is calm, and then does close; no cause has two. Hard, because groups of signals
  form and regroup by age from cycle to cycle, two functions judge independently
  what a signal says about a service, any database call may fail and is at most logged, and a
  restart keeps the incidents but forgets the signals and counts.
* **Anomaly detection.** What goes wrong is seen at once, what is normal raises no signal, and no
  baseline grows. Hard, because rows are added to the baseline before they are judged by it and again by
  each cycle that reads them, so that a fault changes the measure it is found by, and because a
  restart or a gap in the rows leaves any mixture of old and new samples behind.
* **Metrics.** Each request and outcome is reported once. Hard, because counters are taken
  and reset while goroutines count, the row is inserted later, and the order service counts a request
  and its outcome apart.
* **Stream and dashboard.** The page ends up showing the faults that are active and never goes back
  in time. Hard, because a fault passes through a row, a snapshot, a channel that drops
  the newest message and a connection that may be one of two, any of which may be out of date or
  vanish; and its buttons are driven by state seconds old.

`PROJECT.json` lists each hazard at its line with the properties that cover it.

## 2. The modules

    Faults ------> Pipeline --> PipelineProperties --> MCPipeline        PipelineProofs
      |                        INSTANCE OrderFlow
      |----------> FaultEngine -----------------> MCFaultEngine     FaultEngineProofs (S)
      \----------> Correlator --> Incidents -----> MCIncidents       IncidentsProofs
    Queue ---------------------------------------> MCQueue           QueueProofs (S)
    Anomaly -------------------------------------> MCAnomaly         AnomalyProofs (S)
    ServiceMetrics ------------------------------> MCServiceMetrics  ServiceMetricsProofs (S)
    Stream --------------------------------------> MCStream          StreamProofs
                                                   (TLC)             (TLAPS; S: with SumTheorems)

The MC module and the Proofs module of a line both extend the last module before them: what TLC
checks on small instances and what is proved for all is one specification.

**Faults** holds the fault constants, what each does to a service, and `faultOrigins`.
A draw such as `rand.Float64() < p` becomes `MayFail`/`MayPass`, evaluated over every
probability the map order of `GetFaultContext` can produce.

**Pipeline** is the four services with their queues. Correspondence:

| Code | Model |
|---|---|
| a channel | a sequence of message ids (`orderQueue`, `paymentQueue`, `notifSub`) or of dead letters (`paymentDLQ`, `notifDLQ`), at most `QueueBufferSize` long |
| the order ticker, which blocks in `Send` | `orderSending` |
| `processTick` of payment: crash test, then the polling loop | `PaymentTick`, then `PaymentPoll` up to `polls` times, or `PaymentPollEmpty` |
| the goroutine of one message | a pc per message and service: `payPc`, `fulPc`, `notifPc`, with the attempt number beside it |
| a sleep | the state between two actions: `attempt` (processing), `backoff` |
| a `select` with `ctx.Done` | `…Cancelled`, enabled at that pc when `cancelled` |
| `runTicker` returning | `StopTicker` |
| inject/stop through the engine | `Inject`, `Clear` at any moment |

`PaymentTick` tests `crashed` and the fault context in one step. They are separate steps in the code,
but only this ticker sets the flag: a `Restart` or a change of faults that falls between
them gives the state it would give just before or after the tick. One step of
`FulfillmentPoll` is one `TryReceive`: a tick's three calls look at no other state.
`Send` on `payment-queue` is two steps (`PaymentSend`, `PaymentFanOut`), because the
copy for the notification service may block after the first is visible. Inside these
steps the queue is atomic; Queue examines its interior.

**OrderFlow** is the pipeline without queues, goroutines, attempts and faults: an order is accepted,
then paid, dead-lettered or, after a stop, lost; a paid one is owed a shipment and a notification, each
settled once and lost only after a stop.

**PipelineProperties** states what the pipeline promises, its refinement of OrderFlow
(`ImplementsOrderFlow`), and the inductive invariant. The refinement mapping reads the stage of an order
off its goroutines: it is *paid* from the moment its copy is visible on `payment-queue`, while its goroutine
may still wait to copy it to the notification service; it is *lost* when its goroutine returned with
neither outcome, or the ticker dropped it. A shipment is lost when its goroutine was
cancelled, a notification also when payment was cancelled between the two copies. That
payment accepts no order twice, pays none it must refuse and takes nothing back is then the
statement that every step is a step of OrderFlow or changes nothing it can see.

**Queue** takes `Send`, `Receive`/`TryReceive`, `Subscribe` and `writeMetrics` apart
into their atomic operations, each goroutine with a pc. `log` is a history
variable (all that ever entered a channel), `rows` the sum of the rows written. The INSERT may fail, and its error
is dropped (`queue.go:174`); the history variable `lost` is the sum of the rows it should have written. A row also
has the depth loaded before it, a gauge no account adds up: the step is there, the value is not.

**FaultEngine** runs concurrent inject and stop/reset requests: the locked section and
the row written after it are separate steps. That INSERT may fail as well (`fault_engine.go:141`); the history variable
`lost` counts, by fault and action, the rows that are missing for it. `Apply` and `GetFaultContexts` compute
the context for every iteration order of the map. `since` is a history variable.

**Correlator** is the correlation engine as pure operators on signals whose timestamp
is an *age*. Where the code's unstable sort, or equal timestamps, leave the order
open, an operator returns the set of possible results (`NominateRoot`,
`MatchFaultType`, `Correlate`).

**Incidents** is the poll cycle: `Merge` (read, detect, `AddSignals`), then `Confirm`
(`Reconcile`, `Check`, `MarkResolved` for some), `ReconcileFails` (after any number of rows
written) or `Abandon` (the fault events cannot be read); `Miss` for a skipped or failed
cycle, `MonitorRestart`. Time is one unit per cycle. Which rows are anomalous
is open: any signal of any age in the window may be detected in any cycle, a superset of what
any statistics could find. `quiet` is a history variable.

**Anomaly** is one metric of one service or queue from its rows to its active signal (keys share
nothing, so one at a time is enough):

| Code | Model |
|---|---|
| the rows of one key in SQLite, as far as they are read | `rows`, by age in cycles |
| `baseline.values` and `baseline.add` | `values`, `Add` |
| `baseline.stats` | `Stats`: the number, the sum and n² times the variance |
| the rules of `Detect…Anomalies`, by metric | `PastFloor`, `Sigmas`, `Anomalous` |
| the most extreme row of a cycle; `AddSignals` for this key | `Detect`; `signal`, `AddSignal` |
| steps 1 to 4 of `tick`; a skipped or failed one; a new process | `Tick`; `Miss`; `MonitorRestart` |

Values are whole multiples of a unit, so `v > mean + k·stddev` is decided on integers by squaring,
and what holds does not depend on rounding. Incidents leaves open which rows are anomalous; what
Anomaly finds is among what Incidents allows.

**ServiceMetrics** is the counters of the four services under their mutex: `OrderBegins` and
`OrderEnds` for the order service, `Outcome` for the other three, and for each goroutine in
`writeMetrics` the locked `FlushTake` and the `FlushInsert` after it, which may fail
unnoticed. Which outcomes occur is open. `happened`, `reported` and `lost` are history variables.

**Stream** follows a fault from the engine to the page:

| Code | Model |
|---|---|
| the `active` map; `activate`, `deactivate` through the API | `active`; `Inject`, `Stop` |
| `writeMetrics`: `activeFaultNames`, then INSERT | `NameFaults`, then `InsertRow` or `InsertFails` |
| the latest row of a service among those of the last 30 s | `latest`; `RowTooOld` when its writer is gone |
| `buildSnapshot`, then `BroadcastState` | `PollRead`, then `PollBroadcast` |
| `ServeHTTP` of one connection and its channel of 8 | `conn[c]`: `Connect`, `Unregister` |
| `EventSource` and the `state` listener | `Disconnect`, `Receive` |
| a JavaScript exception while rendering | `page = "broken"`, until `Reload` |

What TCP and the Next.js proxy buffer is a first-in first-out extension of the channel. A restart of the
monitor is, to the page, its connections lost and a snapshot that never came. `version`
and `started` are history variables: rows carry the version so that *older* can be said.

## 3. The runs

| Run | Checks | Result |
|---|---|---|
| `Pipeline` | `TypeOK`, `OneOwner`, `NothingLostWhileRunning`, `DeadLettersAccounted`, `OnlyPaidOrdersShip`, `CrashStopsIntake` | hold |
| `PipelineLive` | `EveryOrderSettles`: each order is delivered or dead-lettered, or is in front of a full dead-letter queue; `ImplementsOrderFlow` while the process runs: nothing is lost | hold |
| `PipelineShutdown` | `ShutdownQuiesces`: after cancellation every goroutine returns; `ImplementsOrderFlow` with cancellation: what is settled stays settled | hold |
| `Queue` | `TypeOK`, `DepthNeverDrifts`, `EveryMessageCountedOnce`, `FanOutComplete` | hold |
| `FaultEngine` | `TypeOK`, `EventsAccountForFaults`, `StopClears`, `ContextsAreLastWriter` | hold |
| `Incidents` | `TypeOK`, `AnomaliesCovered`, `ResolvedWhenCalm`, `NoSecondIncident` | hold |
| `IncidentsLive` | `IncidentsResolve` | holds |
| `Anomaly` | `TypeOK`, `WindowBounded`, `AnomaliesAreRare`, `FreshFaultIsSeen`, `DeadLettersAreSignalled`, `SettledIsForgotten` | hold |
| `ServiceMetrics` | `TypeOK`, `OutcomesReportedOnce`, `WindowsBalance` | hold |
| `Stream` | `TypeOK`, `ClientsAreServed`, `NeverOlder`, `DashboardConverges` | hold |
| `IncidentsDuplicate` | `OneIncidentPerCause` | **violated** (finding 1) |
| `StreamNoMetrics` | `PageSurvives` | **violated** (finding 2) |

Deadlock is checked except in `Queue` and `FaultEngine`, whose bounded producers and
requests run out.

### Bounds

* `Pipeline`: two orders, buffers of one message, 3/2/2 attempts. One slot with two orders makes
  every queue full while another order needs it, so each `Send` blocks in some
  behaviour and a full dead-letter queue is reached. Three payment attempts give a
  first, a middle and a last one. The faults are the ones that act in
  different ways: rejection, crash, random failure. The downstream timeout and the
  traffic spike change only how long things take; notification failure makes certain
  a failure that intermittent errors make possible.
* `PipelineLive`, `PipelineShutdown`: 2/1/1 attempts, the same buffers; liveness is expensive, and the
  retry loops of the three services have the same shape. The shutdown run keeps only the fault that
  causes errors: the others no longer matter to a goroutine that must end.
* The refinement is checked in these two runs and not in `Pipeline`, whose third payment attempt
  adds states and nothing OrderFlow can see.
* `Queue`: two producers with one message each, one slot, one late subscription that nobody
  drains, a receiver, two metrics writers on the same queue, whose INSERTs may fail. Each pair of operations meets; two messages
  fill the slot of the subscription and block the second copy.
* `FaultEngine`: two concurrent requests, four in all, each INSERT failing or not, four faults in pairs that
  compete for a field of the context. Four requests are two injects and two stops that overlap in pairs, so that a
  stop works from a snapshot that the other has dealt with, and a fault is injected again after its stop. All four
  faults can be active at once.
* `Incidents`: three signals (an upstream service, its dead-letter queue, a service
  downstream of it) and one fault of the downstream service, so that the three rules for the
  root disagree; a signal window of 2 cycles (15 in the code), groups of 1 (5 in the code); up to
  three incidents. `CountCap` bounds the quiet count one beyond the threshold. The ages, not the
  length of the windows, decide which cases arise: a group splits, merges and
  loses its oldest member within these.
* `Anomaly`: rows are read for 2 cycles (15 in the code), the window is 4 (30), a signal lasts 2 (15), in the
  same proportions; `minSamples` is the 10 of the code, because the factors 2 and 3 make 5 and 10 the
  numbers of samples at which an outlier begins to count. A row is read in three cycles, so
  ten samples are reached within the window and windows of 12 to 18 occur. One metric of each rule
  (p99 latency follows that of the error rate) with values on both sides of its floor, and one on it. Rows may be missing,
  one cycle may be missed and the monitor restarted at any moment.
* `ServiceMetrics`: the order service with two concurrent flushes and payment with one; three
  requests each, so that a request can be open, counted in one window and reported in another at once.
* `Stream`: one service and one fault, which comes and goes with restarts up to three times; a channel of two
  messages, so that it is full while one more is dropped; two connections, one
  of which may be on its way out. Services write and are read independently, and the page takes
  the union of their faults: a second one adds states and no new order of events.
* `MaxRequests`, `MaxMisses`, `MaxSends`, `MaxActive`, `MaxChanges`, `CountCap` and the ids guard `HasIdsFor` are bounds of the
  model; each is marked as one where it is declared.

### Fairness

Nothing is assumed about operators, faults or cancellation. Tickers fire for ever,
timers expire and Go schedules every runnable goroutine, so each ticker and each message's
goroutine gets weak fairness as a whole: a goroutine that is blocked on a full queue is not enabled and owes
nothing. `StopTicker` gets strong fairness: when a tick and `ctx.Done` are both ready,
`select` picks at random, so a ticker that is again and again between ticks returns in
the end. `RunningSpec` is the process that is not told to stop. In the monitor, the loop of
`Poller.Start` never returns (weak fairness of `Merge`) and its database calls do not fail
for ever (strong fairness of `Confirm({})`); in Anomaly that loop is the weak fairness of `Tick`. `IncidentsResolve` also assumes that, from some
time on, the monitor is not restarted and `Reconcile` does not fail: a failing one hands `Check` an
empty list, which forgets every quiet count, so failures in every second cycle would keep an incident
open for ever. `Miss` and `Abandon` may go on. In Stream the metrics writers, the poll loop and the
handlers of connections run (weak fairness) and the database does not refuse every INSERT (strong
fairness of `InsertRow`); nobody has to inject, stop, start, reload or connect, so
`DashboardConverges` says itself that the simulator and the connection stay.

### Findings

1. **Two incidents for one cause.** `docs/build-monitor.md:46` says there is at most one active
   incident for a root and fault type. `Reconcile` compares every event of a batch with the list it read
   before the batch: two groups of the same root open two.
2. **No metrics break the page.** `dashboard/types/monitower.ts:39` says a snapshot has an array of
   services. `buildSnapshot` leaves the slice nil when no row is recent, JSON makes that `null`, and
   `useMonitowerState` calls `forEach` on it: a dashboard that is open while the simulator has
   written no row yet, or 30 s after it stops, loses its page until it is reloaded.
3. **Faults do not add up.** The comment on `GetFaultContext` (`fault_engine.go:97`) says "Faults compose additively: if
   multiple faults affect the same service, all context fields from each fault are applied", and the table at
   `docs/architecture.md:217` has payment fail every message under poison-pill. `apply` assigns, in the order of a Go map: while
   intermittent-errors is active too, payment fails all of its messages or 15% of them, by chance, and anew at
   each call. `ContextsAreLastWriter` states what the code does, so the run `FaultEngine` passes; its conjunct
   `ComposeAdditively(s) <=> ~Contend(s)` is the disagreement: the comment holds exactly in the states in which no two
   active faults set different probabilities for the service, and fails in all others. The theorem `LastWriterWins` says so for every set of faults.

Met while modelling, without a run of their own:

* A dead-letter queue holds 1000 messages. `docs/build-payment-service.md:113` and
  `docs/build-notification-service.md:143` say they accumulate until a reset. The
  queue is an ordinary one with nobody reading it: the goroutine of the next message waits in
  `Send` until shutdown and its message is never dead-lettered. `EveryOrderSettles` names this case.
* For the same reason the depth of a dead-letter queue never falls, so its signal never ends
  (`DeadLettersAreSignalled` says that each tick signals a queue that is not empty; that it never empties is Pipeline's, in which no
  action takes from a dead-letter queue) and an incident it belongs to stays open when its fault is
  stopped, where `docs/build-dashboard.md:284` expects it to resolve.
* A fault that lasts is taken into the baseline and is no anomaly any more; the signal of its first bad row
  expires after 30 s and the incident is resolved while the fault stands (`AnomaliesAreRare`,
  `SettledIsForgotten`). `docs/architecture.md:274` and `docs/build-monitor.md:171` make resolution
  depend on a return to within 1.5σ of the baseline; `Check` only looks for the absence of signals.
* The ten samples of a valid baseline are not "about 20 seconds of data" (`docs/build-monitor.md:64`):
  every cycle adds all rows of the last 30 s again, so four rows give ten samples in the fourth cycle. With
  exactly ten a single outlier sits on the 3σ threshold (`FreshFaultIsSeen` asks for more).
* The window of 60 s may hold samples of 90 s (`WindowBounded`), and every row of the last 30 s is judged, not
  only the most recent one (`docs/build-monitor.md:42`).
* The inject button goes by the faults of the last snapshot, so a page may inject a second fault
  (`docs/build-dashboard.md:228` has the button disabled); the API allows it, and `Inject` in FaultEngine and Stream does.
* `main` of the simulator returns as soon as the context is cancelled and waits for no goroutine. `ShutdownQuiesces`
  shows what they would do with the time; what the process may lose is what `Cancel` allows to be lost.

* The downstream timeout dead-letters nothing: `docs/build-payment-service.md:92` says its
  messages time out, are retried and go to the DLQ, but `processMessage` has no deadline. The attempt sleeps
  8 s and passes.
* A `fault_events` stop row may be stamped and written before its start row, for both happen after
  the lock is released, though `docs/architecture.md:223` calls these timestamps the anchor of causal order.
  FaultEngine has such behaviours; `EventsAccountForFaults` counts rows and does not order them, so nothing here
  would notice if the order became worse.
* The errors of both INSERTs are dropped: of `queue_metrics` (`queue.go:174`) after the counters were swapped to 0, so that
  the messages of that window are in no row, and of `fault_events` (`fault_engine.go:141`), so that an activation may have no
  start or stop row although `Activate` and `Deactivate` are said to write one (`fault_engine.go:54`, `:68`).
  `EveryMessageCountedOnce` and `EventsAccountForFaults` say that nothing *else* is ever missing.
* A failing `Reconcile` gives `Check` an empty list and thereby wipes every quiet count (`incidents.go:226`), so failures in
  every second cycle keep an incident open for ever. `IncidentsResolve` excludes this by its hypothesis.
* `AddSignals` replaces a signal only by one at least as extreme. The models have this rule, but no property would
  notice another one: `SettledIsForgotten` holds for both.
* The error rate of the order service may exceed 1.0 (`docs/architecture.md:99`): a window may hold an
  outcome whose request the previous one reported. `WindowsBalance` bounds it by one.
* `docs/build-monitor.md:183` says the dashboard calls `GET /api/state` on load and on each
  reconnect. It never does, which is why Stream has no such step.

## 4. The proofs

Every invariant, every action property and the refinement that the passing runs check is also a theorem
of the same specification, for every value of the constants that the module's named assumption allows.
Where an invariant is not inductive, `IInv` strengthens it; each module proves
`Init => IInv` and `IInv /\ [Next]_vars => IInv'`, with one step per action. The theorems rest on nothing
but the assumptions: there is no unproved lemma.

| Module | Theorem | States |
|---|---|---|
| `PipelineProofs` | `PipelineTyped`, `PipelineOneOwner`, `PipelineNothingLost`, `PipelineDeadLetters`, `PipelineOnlyPaidShip` | `Spec => []` of `TypeOK`, `OneOwner`, `NothingLostWhileRunning`, `DeadLettersAccounted`, `OnlyPaidOrdersShip` |
| | `PipelineCrashStopsIntake`, `PipelineImplementsOrderFlow` | `Spec =>` `CrashStopsIntake`, `ImplementsOrderFlow` |
| `QueueProofs` | `TypesHold`, `DepthIsTheLength`, `RowsCountEachMessage`, `SubscribersGetEverything` | `Spec => []` of `TypeOK`, `DepthNeverDrifts`, `EveryMessageCountedOnce`, `FanOutComplete` |
| `FaultEngineProofs` | `TypesHold`, `EventsAreAccountedFor`, `StopLeavesNothingOn`, `LastWriterWins` | `Spec => []` of `TypeOK`, `EventsAccountForFaults`, `StopClears`, `ContextsAreLastWriter` |
| `ServiceMetricsProofs` | `TypesHold`, `RowsCountEachOutcome`, `WindowsAreBalanced` | `Spec => []` of `TypeOK`, `OutcomesReportedOnce`, `WindowsBalance` |
| `IncidentsProofs` | `TypesHold`, `EveryGroupHasAnIncident` | `Spec => []` of `TypeOK`, `AnomaliesCovered` |
| | `ResolvedOnlyWhenCalm`, `NoSecondIsOpened` | `Spec =>` `ResolvedWhenCalm`, `NoSecondIncident` |
| `AnomalyProofs` | `TypesHold`, `WindowIsBounded`, `AnomaliesStayRare`, `FreshFaultsAreSeen` | `Spec => []` of `TypeOK`, `WindowBounded`, `AnomaliesAreRare`, `FreshFaultIsSeen` |
| | `DeadLettersAlwaysSignalled` | `Spec => DeadLettersAreSignalled` |
| `StreamProofs` | `TypesHold`, `ClientsServed` | `Spec => []` of `TypeOK`, `ClientsAreServed` |
| | `PageNeverGoesBack` | `Spec => NeverOlder` |

### Pipeline

For every number of orders, every buffer size, number of attempts and set of faults.

None of the four promises is inductive alone. `IInv` is their conjunction with
`TypeOK` and `Stages`. To show that a poll gives no order a second goroutine one needs
`OneOwner` (an order in a queue has no goroutine behind it); to show that *that* is kept when payment
sends, one needs `OnlyPaidOrdersShip` (an order that has not reached `sending`
is not downstream). For a dead letter to tell the truth one needs `Stages`: a poisoned message never
gets past the schema check, `exhausted` means the attempt number is the maximum, and
a service that is still polling has not crashed. `NothingLostWhileRunning` follows each
message from one place to the next and rests on all of them.

The proof is one lemma per conjunct of `IInv` for the steps that touch it. Lemmas on
sequences without duplicates (`Append`, `Tail`, their elements) are
stated once and cited. `TypeOK` is proved inductive first and assumed by the rest.

In the refinement, `Mapping` says, by the invariant, which stage each place in the pipeline stands for; `OneMoves`
that a step which leaves all other orders where they are changes the mapping at one order only. Then there is one lemma
for each actor, each action of which is shown to be the matching step of OrderFlow or to change nothing it
sees. `IInv` is needed throughout: that a send finds no shipment yet rests on `OnlyPaidOrdersShip`, that
it pays no tainted order on `Stages`, and that the ticker's dropped order is in no queue on `OneOwner`.

### Sums and induction (`SumTheorems`)

`Queue`, `FaultEngine` and `ServiceMetrics` promise that something is neither lost nor counted twice, however many
goroutines are under way: their invariants add up over goroutines, or count them. The installed
provers cannot instantiate the library's induction theorems, which take a predicate as a parameter. `NatInductionOnSet` and
`SubsetInductionOnSet` state induction with a *set* in its place, and from them follows
that `SumFunctionOnSet` of a finite set does not depend on the order in which it adds
(`SumRemove`), is changed by a step of one goroutine by as much as that goroutine's value (`SumChange`), and is
0 when all of them are (`SumZero`); `CountStep` is the same for `Cardinality`. `AnomalyProofs` uses the sums
for the statistics of a window, and `FaultEngineProofs` the induction for the iteration of a map.

### Queue

For any finite sets of producers, consumers and metrics writers, any subscriptions and buffer size, and INSERTs that fail
at will: a flush moves from the hands of its writer to `rows` or to `lost`, whose sum is what the proof adds up. `IInv` is
`DepthNeverDrifts` and `EveryMessageCountedOnce` with

* `HandsEmpty`: a metrics writer that is not between `Swap` and the row holds no counts, so that what it takes
  is not added to something;
* `LogsInOrder`, `SendsInOrder`: a channel gets a message at most once, the main queue first, and a `Send` in
  progress has reached exactly the queues it is past;
* `NoCopyForgotten`: what a `Send` owes to the subscriptions that existed when it began is in their log, in its list, or in its
  hands.

`FanOutComplete` speaks of a `Send` only between two copies and is not inductive; it follows from `NoCopyForgotten`, which
speaks of every step of it. That `subscribers` lists no subscription twice is needed for a `Send` to copy a message to none twice.

### FaultEngine

For any finite set of clients and any set of the six faults. `EventsAccountForFaults` and `StopClears`
are inductive together with the types: the set that a stop works from, and the row each request still owes, are part of what
they say. A row with an origin that a request owes is written or lost (`WriteStep`), and `Begun` is the same either way. `LastWriterWins` is about a pure operator. By induction along one order of the
map (`WrittenBy`, `OneMore`), the context after the last fault has the probability of the last
fault that writes one, and a crash or delay as soon as one fault causes it. Every order
visits every active fault, and for every fault there is an order that ends with it; so
`GetFaultContexts` yields the probabilities that *some* active fault writes, all of them and no other. So if two of
them differ, the lower one is among the contexts and contexts are not additive; if none differ, they are.

### ServiceMetrics

For any finite number of concurrent flushes. `IInv` is the two promises with `HandsEmpty` and

* `RequestsHaveOutcomes`: a request has one outcome, or none while it is pending;
* `CountersBalance`: the counters under the mutex hold a total for each outcome, except that those of the order service may lack
  the total of the first outcome (the previous window reported it) and the outcome of the last total.

`WindowsBalance` bounds one row by one; without `CountersBalance` nothing would stop two rows from
drifting the same way.

### Incidents

For every set of signal keys, faults, windows and number of open incidents. The assumption asks for two things of the code: a signal names
a service or a queue, and `ResolutionRequired` is at least 2 (it is 2), for with 1 an
incident would be closed by the first quiet cycle. `IInv` is `AnomaliesCovered` with the types and
`CountedAreQuiet`: an incident that has been counted at all had no signal in the last `Check`. This is the link between
the count, which is all that `Check` keeps, and the two calm cycles that `ResolvedWhenCalm`
demands. `NoSecondIncident` holds because `Reconcile` compares with every open incident it has read;
that it does not compare within a batch is finding 1. The groups are not computed in the proofs: what is
used of `Correlate` (`BatchCoversGroups`) is that a group is made of active signals, however they are cut, that each group worth an event has
one, and that its root is one that `nominateRoot` allows and that `Check` finds anomalous.

### Anomaly

For every set of values, all windows with `ReadWindow` at most `BaselineWindow` and `SignalWindow` (both hold in
the code), and at least ten samples. `IInv` is the types, in which rows are ordered by age,
`FreshFaultIsSeen`, and the two halves of the window's discipline, each needed for the other: `Trails` (a
sample is older than one added before it by at most the read window, since only rows of that age are added) and
`Begins` (the first sample is within the baseline window of the last). The bound of 90 s
in `WindowBounded` is their sum.

* `AnomaliesStayRare` is Cantelli's inequality for the samples of a window, for all windows. The squares of the samples past the threshold
  and those of the rest are summed apart (`FewAreAsFar`): if m of n samples lie as far
  above the mean as a value that is more than k standard deviations above it, then m·(1 + k²) < n. All is on integers, by squaring, like `Stats` itself.
* `FreshFaultsAreSeen` is the opposite bound (`LastIsFar`): one sample above n − 1 equal ones is more than k
  standard deviations away as soon as n > 1 + k², which is where ten samples come in.
* `DeadLettersAlwaysSignalled` follows each case of `AddSignals`.

### Stream

For every number of services, connections, faults and buffer size. `ClientsAreServed` needs no strengthening. `NeverOlder`
does: the page does not go back in time because nothing on the way to it does.
`IInv` says so stage by stage: `RowsInOrder` (what a service will report is not older than its latest row),
`TakenInOrder` (nor than the snapshot in the hands of the poll loop), `QueuedInOrder` (nor than those in the channel of the open connection,
which are in order themselves and before that snapshot) and `ShownFirst` (and the page is not newer than any of these).
`OneOpen` (a page listens to one connection at a time) and `FreeIsEmpty` (a new connection's channel has
nothing of an old one) make a reconnection keep the order. An order is compared only where both snapshots have a row of
the service: it may be absent in between, and what comes after is compared with what came before (`Behind`).

### Only model-checked

The five liveness properties `EveryOrderSettles`, `ShutdownQuiesces`, `IncidentsResolve`, `DashboardConverges` and
`SettledIsForgotten` rest on fairness and ENABLED, which are outside what the prover does. The two
violations (findings 1 and 2; finding 3 is a passing run and a theorem) are counterexamples, which TLC shows. What `Groups` computes for a given set of signals is checked only
through the runs of Incidents.

## 5. Not modelled

* Payload contents, delays in milliseconds, JSON, logging, colours and layout: nothing the
  properties speak of.
* The `inFlight` map of payment: written, never read for a decision.
* Severity, reasoning texts and the timeline of an incident: no control depends on them.
  `detectStarvation` always returns the empty string.
* Floating point: the statistics are exact in Anomaly, so a value that lies on a threshold in real arithmetic may
  fall on either side of it in the program.
* Which rows the simulator writes under which fault: Anomaly takes any sequence of values.
* What a snapshot says of queues and incidents; `lastSnapshot`, which only `GET /api/state` reads;
  `BroadcastIncident`, which nobody calls. An error of `ListActive` before the snapshot shows an empty list for a cycle.
* The buttons of `FaultInjector`: the API accepts any inject or stop at any moment, and the models have them
  all; a page that sends only some of them adds no behaviour.
* `incidents` reads of the monitor API; the pages and proxies of the dashboard; opening
  the database and creating tables.

## 6. Plan

Done: Faults, Pipeline, OrderFlow and its refinement, Queue, FaultEngine, Correlator, Incidents, Anomaly, ServiceMetrics,
Stream, and proofs of the safety properties of all of them.

Next, in this order:

1. Two abstractions that the models rest on and that so far are argued in this file: the steps of Queue implement the
   atomic queue that Pipeline uses, and the signals Anomaly finds are among those Incidents allows.
2. The claim that an incident resolves within four cycles of the return of its signals to baseline
   (`docs/build-monitor.md:265`) against the 30 s for which a signal stays active.
