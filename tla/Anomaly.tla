------------------------------- MODULE Anomaly -------------------------------
(***************************************************************************)
(* Baselines and anomaly detection of the monitor (internal/monitor/       *)
(* anomaly.go), for one metric of one service or queue, as the poll loop   *)
(* drives them (poller.go, tick) up to the correlator's active signal.     *)
(*                                                                         *)
(* Time is one unit per poll cycle, a timestamp is an age. Values are      *)
(* whole multiples of a unit (10 % of errors, 100 ms, 0.5 messages per     *)
(* second, 20 messages), so that comparisons with mean and standard        *)
(* deviation are exact: v > mean + k*stddev is decided on integers by      *)
(* squaring. The rounding of floating point is left out.                   *)
(***************************************************************************)
EXTENDS Integers, SequencesExt

CONSTANTS
  Metrics,         \* the metrics to look at, one in each behaviour
  Levels,          \* the values a row may have, per metric
  ReadWindow,      \* metricReadWindow: 15 cycles of 2 s in the code
  BaselineWindow,  \* baselineWindow: 30 cycles in the code
  SignalWindow,    \* Correlator.signalWindow: 15 cycles in the code
  MinSamples,      \* minSamples, 10 in the code
  MaxMisses        \* bound of the model: cycles that fail or are skipped

ASSUME AnomalyAssumption ==
  /\ Metrics \subseteq {"error_rate", "p99_latency", "throughput", "queue_depth", "dlq_depth"}
  /\ Levels \in [Metrics -> SUBSET Nat]
  /\ ReadWindow \in Nat /\ BaselineWindow \in Nat /\ SignalWindow \in Nat
  /\ ReadWindow <= BaselineWindow /\ ReadWindow <= SignalWindow
  /\ MinSamples \in Nat \ 0..9 /\ MaxMisses \in Nat

VARIABLES
  metric,   \* the metric of this behaviour
  rows,     \* its rows in the database, oldest first, as far as they are read
  values,   \* baseline.values: every sample added, in the order of adding
  signal,   \* its entry of Correlator.activeSignals, or NoSignal
  misses    \* cycles missed so far

vars == <<metric, rows, values, signal, misses>>

\* Nothing compares an age beyond this one with anything but smaller ages.
Old == BaselineWindow + ReadWindow + 1
Older(r) == [r EXCEPT !.age = IF @ < Old THEN @ + 1 ELSE Old]
Aged(s) == [i \in DOMAIN s |-> Older(s[i])]

NoSignal == [age |-> 0, value |-> 0, num |-> 0, den |-> 0]

\* A sequence from its first element of at most this age on.
Since(s, age) ==
  LET kept == {i \in DOMAIN s : s[i].age <= age}
  IN  IF kept = {} THEN <<>> ELSE SubSeq(s, Min(kept), Len(s))

-----------------------------------------------------------------------------
\* Mutant: the window is never pruned.
AddNeverPrunes(samples, read) == samples \o read

\* baseline.add for each row read, oldest first: append, then prune the front up to
\* the first sample in the window, behind which older ones stay. The cutoff moves on
\* with each row, so pruning once, with that of the last, drops the same prefix.
Add(samples, read) ==
  IF read = <<>> THEN samples
  ELSE Since(samples \o read, Last(read).age + BaselineWindow)

\* baseline.stats, as sums: mean = sum / n and stddev = Sqrt(spread) / n.
Total(s) ==
  LET sum[i \in 0..Len(s)] == IF i = 0 THEN 0 ELSE sum[i - 1] + s[i] IN sum[Len(s)]
Plain(samples) == [i \in DOMAIN samples |-> samples[i].value]
Squares(samples) == [i \in DOMAIN samples |-> samples[i].value * samples[i].value]

Stats(samples) ==
  LET n   == Len(samples)
      sum == Total(Plain(samples))
  IN  [n |-> n, sum |-> sum, spread |-> n * Total(Squares(samples)) - sum * sum]

Valid(stats) == stats.n >= MinSamples

\* The distance of a value from the mean, times n; its square over the spread is
\* the square of the code's deviation.
Distance(v, stats) == stats.n * v - stats.sum
\* Mutant: the square root is missing, so thresholds are in variances.
BeyondNoRoot(k, v, stats) ==
  stats.n * Distance(v, stats) > k * stats.spread

Beyond(k, v, stats) == Distance(v, stats) * Distance(v, stats) > k * k * stats.spread
Above(k, v, stats) == Distance(v, stats) > 0 /\ Beyond(k, v, stats)
Below(k, v, stats) == Distance(v, stats) < 0 /\ Beyond(k, v, stats)

\* The thresholds and floors of DetectServiceAnomalies and DetectQueueAnomalies.
PastFloor(m, v) ==
  CASE m = "error_rate"  -> v >= 1
    [] m = "p99_latency" -> v >= 5
    [] m = "throughput"  -> v < 1
    [] m = "queue_depth" -> v >= 1
    [] m = "dlq_depth"   -> v > 0
Sigmas(m) == IF m \in {"error_rate", "p99_latency"} THEN 3 ELSE 2

\* Mutant: a dead-letter queue is judged by its baseline like any other.
AnomalousByBaseline(m, v, stats) ==
  /\ PastFloor(m, v)
  /\ Valid(stats) /\ Above(Sigmas(m), v, stats)

\* Mutant: the floor alone decides.
AnomalousPastFloor(m, v, stats) == PastFloor(m, v) /\ (m # "dlq_depth" => Valid(stats))

Anomalous(m, v, stats) ==
  /\ PastFloor(m, v)
  /\ CASE m = "dlq_depth"  -> TRUE
       [] m = "throughput" -> Valid(stats) /\ Below(Sigmas(m), v, stats)
       [] OTHER            -> Valid(stats) /\ Above(Sigmas(m), v, stats)

\* deviation, squared, as a fraction; for a dead-letter queue it is the depth.
Signal(m, row, stats) ==
  LET d == Distance(row.value, stats) IN
  [age |-> row.age, value |-> row.value,
   num |-> CASE m = "dlq_depth" -> row.value * row.value
             [] stats.spread = 0 /\ m # "dlq_depth" -> 0
             [] OTHER -> d * d,
   den |-> IF m = "dlq_depth" \/ stats.spread = 0 THEN 1 ELSE stats.spread]

AtLeastAsExtreme(s, t) == s.num * t.den >= t.num * s.den

\* The most extreme anomalous row; the map keeps the first, hence oldest, of equals.
\* All are judged by the same baseline, so their deviations have one denominator.
Detect(m, read, samples) ==
  LET stats == Stats(samples)
      found == {Signal(m, r, stats) : r \in {r \in Range(read) : Anomalous(m, r.value, stats)}}
      worst == {s \in found : \A t \in found : t.num <= s.num}
  IN  IF found = {} THEN NoSignal ELSE CHOOSE s \in worst : \A t \in worst : t.age <= s.age

\* Correlator.AddSignals for one key: prune, then replace or add.
AddSignal(active, new) ==
  LET kept == IF active.age > SignalWindow THEN NoSignal ELSE active
  IN  IF new # NoSignal /\ (kept = NoSignal \/ AtLeastAsExtreme(new, kept)) THEN new ELSE kept

-----------------------------------------------------------------------------
Init ==
  /\ metric \in Metrics
  /\ rows = <<>> /\ values = <<>> /\ signal = NoSignal /\ misses = 0

OlderSignal == IF signal = NoSignal THEN NoSignal ELSE Older(signal)

\* Mutant: the query does not restrict ts.
RowsWithoutCutoff(new) == Aged(rows) \o new

\* Between two cycles the writer inserts a row, or none; the query leaves out rows
\* older than the read window, which nothing else reads. They are in the order of ts.
Rows(new) == Since(Aged(rows), ReadWindow) \o new
NewRows == {<<>>} \cup {<<[age |-> 0, value |-> v]>> : v \in Levels[metric]}

\* Poller.tick, steps 1 to 4: every row of the read window is added to the baseline,
\* again in every cycle that reads it, and then judged against that baseline.
Tick(new) ==
  /\ rows' = Rows(new)
  /\ values' = Add(Aged(values), rows')
  /\ signal' = AddSignal(OlderSignal, Detect(metric, rows', values'))
  /\ UNCHANGED <<metric, misses>>

\* A query fails and tick returns, or a long cycle made the ticker drop one.
Miss(new) ==
  /\ misses < MaxMisses
  /\ misses' = misses + 1
  /\ rows' = Rows(new)
  /\ values' = Aged(values)
  /\ signal' = OlderSignal
  /\ UNCHANGED metric

\* A new process: NewPoller starts with empty baselines and no signals.
MonitorRestart ==
  /\ values' = <<>>
  /\ signal' = NoSignal
  /\ UNCHANGED <<metric, rows, misses>>

Next ==
  \/ \E new \in NewRows : Tick(new) \/ Miss(new)
  \/ MonitorRestart

Spec == Init /\ [][Next]_vars

\* The loop of Poller.Start never returns.
FairSpec == Spec /\ WF_vars(\E new \in NewRows : Tick(new))

-----------------------------------------------------------------------------
Samples == [age : 0..Old, value : Levels[metric]]

TypeOK ==
  /\ metric \in Metrics
  /\ rows \in Seq([age : 0..ReadWindow, value : Levels[metric]])
  /\ values \in Seq(Samples)
  /\ \A i \in 1..(Len(rows) - 1) : rows[i].age > rows[i + 1].age
  /\ signal = NoSignal \/ (signal.age <= SignalWindow + MaxMisses /\ PastFloor(metric, signal.value))

\* A window of 60 s holds samples of up to 90 s: pruning stops at the first recent
\* one and the rows read again later are older than it. It never holds more than
\* that, whatever rows are missing and cycles skipped, so neither its size nor its
\* memory of the past grows (baseline.add).
WindowBounded ==
  \A i \in DOMAIN values :
    /\ values[i].age <= values[Len(values)].age + BaselineWindow + ReadWindow
    /\ i = 1 => values[1].age <= values[Len(values)].age + BaselineWindow

\* A tick has just judged these rows by these samples.
Judged == rows # <<>> /\ values # <<>> /\ Last(rows) = Last(values)
Found == IF Judged THEN Detect(metric, rows, values) ELSE NoSignal

AsExtreme(v) ==
  {i \in DOMAIN values : IF metric = "throughput" THEN values[i].value <= v
                                                   ELSE values[i].value >= v}

\* An anomaly is rare in its own window: fewer than one sample in ten is as extreme
\* for the three-sigma metrics, one in five for the others. A row is added again by
\* every cycle that reads it, so a fault that lasts soon is no anomaly any more
\* (stats and the thresholds, for whatever mixture of old and new samples).
AnomaliesAreRare ==
  metric # "dlq_depth" /\ Found # NoSignal =>
    Cardinality(AsExtreme(Found.value)) * (Sigmas(metric) * Sigmas(metric) + 1) < Len(values)

\* The first bad row after a steady time is an anomaly at once: when all samples but
\* that of the newest row agree and there are more than MinSamples of them, it is
\* signalled in the same cycle, although it is itself a part of the baseline. (With
\* exactly MinSamples it lies on the three-sigma threshold and is missed.)
FreshFaultIsSeen ==
  LET n == Len(values) IN
  /\ metric # "dlq_depth" /\ n > MinSamples
  /\ values[n].age = 0 /\ PastFloor(metric, values[n].value)
  /\ \A i, j \in 1..(n - 1) : values[i].value = values[j].value
  /\ IF metric = "throughput" THEN values[n].value < values[1].value
                              ELSE values[n].value > values[1].value
  => signal # NoSignal

\* A dead-letter queue that was not empty in a row just read is signalled, with no
\* baseline to get used to it (build-payment-service.md: "any positive depth is
\* flagged"). Nothing drains these queues, so this signal never ends.
DeadLettersAreSignalled ==
  [][metric = "dlq_depth" /\ (\E new \in NewRows : Tick(new)) =>
       ((\E i \in DOMAIN rows' : rows'[i].value > 0) => signal' # NoSignal)]_vars

\* A metric that stays at one value, however bad, ends up without a signal: the
\* baseline takes it in and the old signal expires (DetectServiceAnomalies,
\* AddSignals). This is what lets incidents resolve, those of lasting faults too.
SettledIsForgotten ==
  metric # "dlq_depth" =>
    \A v \in UNION {Levels[m] : m \in Metrics} :
      <>[](\A i \in DOMAIN rows : rows[i].value = v) => <>[](signal = NoSignal)
=============================================================================
