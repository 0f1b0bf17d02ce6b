----------------------------- MODULE Correlator -----------------------------
(***************************************************************************)
(* The correlation engine of the monitor (internal/monitor/correlator.go)  *)
(* as operators on the set of active signals and the fault_events rows.    *)
(*                                                                         *)
(* A timestamp is an age: how many units before now. A signal is           *)
(*   [service, queue, metric, age]   (service or queue is "")              *)
(* and a start row of fault_events is [fault, age]; stop rows are read     *)
(* and ignored. Values and deviations are abstracted.                      *)
(***************************************************************************)
EXTENDS Faults, Integers, FiniteSets, FiniteSetsExt, SequencesExt, TLC

CONSTANTS
  SignalWindow,   \* signals are pruned when older: 30 s
  GroupWindow,    \* how far a signal may be from the first of its group: 10 s
  FaultLookback,  \* a fault explains a group if it started so long before: 5 s
  FaultSlack      \*   ... or, to name the group's fault type, so long after: 2 s

ASSUME CorrelatorAssumption ==
  {SignalWindow, GroupWindow, FaultLookback, FaultSlack} \subseteq Nat

topologyDepth ==
  [s \in Services |-> CASE s = "api-gateway" -> 0
                        [] s = "order"       -> 1
                        [] s = "payment"     -> 2
                        [] OTHER             -> 3]

queueOwner ==
  [q \in {"order-queue", "payment-queue", "payment-dlq", "notification-dlq"} |->
     CASE q = "order-queue"      -> "order"
       [] q = "notification-dlq" -> "notification"
       [] OTHER                  -> "payment"]

downstreamOf(service) ==
  {s \in DOMAIN topologyDepth :
     service \in DOMAIN topologyDepth /\ topologyDepth[s] > topologyDepth[service]}

serviceForSignal(sig) ==
  IF sig.service # "" THEN sig.service
  ELSE IF sig.queue \in DOMAIN queueOwner THEN queueOwner[sig.queue] ELSE sig.queue

isDLQSignal(sig) == sig.metric = "dlq_depth"

\* signalKey: a signal without its time.
signalKey(sig) == [service |-> sig.service, queue |-> sig.queue, metric |-> sig.metric]
Signal(key, age) ==
  [service |-> key.service, queue |-> key.queue, metric |-> key.metric, age |-> age]

-----------------------------------------------------------------------------
\* AddSignals: what is too old is pruned; then a new signal replaces the one of its
\* key unless that deviates more, which the model leaves open.
AddSignals(signals, detected) ==
  LET pruned == {s \in signals : s.age <= SignalWindow}
      fresh  == {d \in detected : \A s \in pruned : signalKey(s) # signalKey(d)}
  IN  {{s \in pruned : \A d \in winners : signalKey(s) # signalKey(d)} \cup winners \cup fresh :
         winners \in SUBSET (detected \ fresh)}

\* Correlate sorts the signals and cuts them greedily into groups, oldest first.
Groups(signals) ==
  LET ages == SetToSortSeq({s.age : s \in signals}, LAMBDA a, b : a > b)
      starts == FoldLeft(LAMBDA acc, a :
                           IF acc # <<>> /\ Last(acc) - a <= GroupWindow
                             THEN acc ELSE Append(acc, a),
                         <<>>, ages)
  IN  [i \in DOMAIN starts |->
         {s \in signals : s.age \in (starts[i] - GroupWindow)..starts[i]}]

\* A single signal is not worth an event unless a dead-letter queue sent it.
Promoted(group) == Cardinality(group) > 1 \/ \E s \in group : isDLQSignal(s)

Oldest(things) == {x \in things : \A y \in things : y.age <= x.age}

GroupStart(group) == Max({s.age : s \in group})

\* nominateRoot. Signals and rows of the same age come in an order nobody chose
\* (an unstable sort over Go map order), so there may be several answers.
NominateRoot(group, rows) ==
  LET start    == GroupStart(group)
      services == {serviceForSignal(s) : s \in group}
      evidence == {r \in rows : /\ r.age \in start..(start + FaultLookback)
                                /\ faultOrigins[r.fault] \in services}
      owned    == {s \in group : s.queue \in DOMAIN queueOwner}
      depth(s) == IF serviceForSignal(s) \in DOMAIN topologyDepth
                    THEN topologyDepth[serviceForSignal(s)] ELSE 999
      highest  == {s \in group : \A t \in group : depth(s) <= depth(t)}
  IN  IF evidence # {} THEN {faultOrigins[r.fault] : r \in Oldest(evidence)}
      ELSE IF (\A s \in group : s.service = "") /\ owned # {}
             THEN {serviceForSignal(s) : s \in Oldest(owned)}
      ELSE {serviceForSignal(s) : s \in Oldest(highest)}

\* Mutant: the root itself is forgotten.
BuildAffectedWithoutRoot(root, group) ==
  {serviceForSignal(s) : s \in group} \cap downstreamOf(root)

\* The root, and what is downstream of it among the services of the group.
BuildAffected(root, group) ==
  {root} \cup ({serviceForSignal(s) : s \in group} \cap downstreamOf(root))

MatchFaultType(root, group, rows) ==
  LET start == GroupStart(group)
      close == {r \in rows : /\ faultOrigins[r.fault] = root
                             /\ r.age \in (start - FaultSlack)..(start + FaultLookback)}
  IN  IF close = {} THEN {""} ELSE {r.fault : r \in Oldest(close)}

\* buildCorrelatedEvent, for each of the outcomes the orders allow.
BuildCorrelatedEvents(group, rows) ==
  UNION {{[root |-> root, fault |-> fault, affected |-> BuildAffected(root, group)] :
            fault \in MatchFaultType(root, group, rows)} :
         root \in NominateRoot(group, rows)}

\* Correlate: the possible batches of events, one for each promoted group.
Correlate(signals, rows) ==
  LET groups   == Groups(signals)
      promoted == {i \in DOMAIN groups : Promoted(groups[i])}
      events   == [i \in promoted |-> BuildCorrelatedEvents(groups[i], rows)]
  IN  {batch \in [promoted -> UNION {events[i] : i \in promoted}] :
         \A i \in promoted : batch[i] \in events[i]}
=============================================================================
