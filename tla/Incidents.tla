------------------------------ MODULE Incidents ------------------------------
(***************************************************************************)
(* The monitor's poll cycle (internal/monitor/poller.go) and the incidents *)
(* it opens and resolves (incidents.go) from what the correlator makes of  *)
(* the active signals. Every database call of a cycle may fail, and the    *)
(* monitor may be restarted: its incidents are in SQLite, the rest is not. *)
(*                                                                         *)
(* Which rows are anomalous is left open (any signal of any age in the     *)
(* read window may be detected in any cycle). Time advances by one unit    *)
(* per cycle, as its metrics are read.                                     *)
(***************************************************************************)
EXTENDS Correlator

CONSTANTS
  SignalKeys,          \* the signals the detectors may raise
  InjectedFaults,      \* the faults that may be started
  FaultHorizon,        \* fault_events rows older are not read: 10 s
  ResolutionRequired,  \* quiet cycles before an incident is resolved: 2
  MaxActive            \* bound: incident ids in use at a time

ASSUME IncidentsAssumption ==
  /\ SignalKeys \subseteq [service : Services \cup {""}, queue : STRING, metric : STRING]
  /\ \A k \in SignalKeys : k.service # "" \/ k.queue # ""
  /\ InjectedFaults \subseteq AllFaults
  /\ FaultHorizon \in Nat
  /\ ResolutionRequired \in Nat \ {0, 1}
  /\ MaxActive \in Nat

VARIABLES
  signals,    \* Correlator.activeSignals
  faultRows,  \* the start rows of fault_events that are recent enough
  incidents,  \* the incidents with status 'active': id -> correlated event
  counts,     \* ResolutionTracker.counts, up to CountCap
  quiet,      \* history: the incidents the last Check found without a signal
  phase       \* of the poll loop: "idle", "merged" (signals, but not yet incidents),
              \* or "confirmed" (idle after a cycle whose Reconcile succeeded)

vars == <<signals, faultRows, incidents, counts, quiet, phase>>

CountCap == ResolutionRequired + 1  \* bound: beyond it a count means the same

Ids == 1..MaxActive

Init ==
  /\ signals = {} /\ faultRows = {}
  /\ incidents = <<>> /\ counts = <<>>
  /\ quiet = {} /\ phase = "idle"

-----------------------------------------------------------------------------
\* A cycle later everything is a unit older, and some faults have been started.
Aged(things) == {[x EXCEPT !.age = @ + 1] : x \in things}

FaultRowsAfter(started) ==
  {r \in Aged(faultRows) : r.age <= FaultHorizon} \cup {[fault |-> f, age |-> 0] : f \in started}

Detections == {{Signal(k, age[k]) : k \in {k \in SignalKeys : age[k] <= SignalWindow}} :
                 age \in [SignalKeys -> 0..(SignalWindow + 1)]}

-----------------------------------------------------------------------------
\* Mutant: an incident without a fault type matches nothing.
MatchesNullOnly(incident, event) ==
  incident.root = event.root /\ incident.fault = event.fault /\ incident.fault # ""

\* findMatchingIncident.
Matches(incident, event) ==
  incident.root = event.root /\ incident.fault = event.fault

\* The events of a batch Reconcile creates an incident for, if it gets through those
\* of done: it compares each with the incidents listed when it began.
Creates(batch, done) ==
  {i \in done : \A id \in DOMAIN incidents : ~Matches(incidents[id], batch[i])}

\* AUTOINCREMENT ids are only ever compared with the ids in use, so any that is
\* not in use is as good as the next one.
FreeIds == Ids \ (DOMAIN incidents \cup DOMAIN counts)

NewIds(batch, done) == Injection(Creates(batch, done), FreeIds)

HasIdsFor(batch) == NewIds(batch, DOMAIN batch) # {}

\* The rows after creating them.
Created(batch, done) ==
  LET idOf  == CHOOSE f \in NewIds(batch, done) : TRUE
      event == AntiFunction(idOf)
  IN  [id \in DOMAIN incidents \cup Range(idOf) |->
         IF id \in Range(idOf) THEN batch[event[id]] ELSE incidents[id]]

\* ResolutionTracker.Check: a queue's signal speaks for its owner as well.
\* Mutant: it does not.
AnomalousNamesNoOwner(active) ==
  {s.service : s \in {s \in active : s.service # ""}}
    \cup {s.queue : s \in {s \in active : s.queue # ""}}

AnomalousNames(active) ==
  {s.service : s \in {s \in active : s.service # ""}}
    \cup {s.queue : s \in {s \in active : s.queue # ""}}
    \cup {queueOwner[s.queue] : s \in {s \in active : s.queue \in DOMAIN queueOwner}}

\* Mutant: a signal stops the counting but does not start it again.
CheckCountsKept(actives, active) ==
  [id \in DOMAIN actives |->
     LET n == IF id \in DOMAIN counts THEN counts[id] ELSE 0
     IN  IF actives[id].affected \cap AnomalousNames(active) # {}
           THEN n ELSE Min({n + 1, CountCap})]

\* The counts after Check: those of the active incidents only.
CheckCounts(actives, active) ==
  [id \in DOMAIN actives |->
     LET n == IF id \in DOMAIN counts THEN counts[id] ELSE 0
     IN  IF actives[id].affected \cap AnomalousNames(active) # {}
           THEN 0 ELSE Min({n + 1, CountCap})]

\* Mutant: resolves only when the count is exactly reached.
ToResolveOnce(checked) == {id \in DOMAIN checked : checked[id] = ResolutionRequired}

ToResolve(checked) == {id \in DOMAIN checked : checked[id] >= ResolutionRequired}

\* History: no signal of a service the incident affects (not as Check computes it).
Calm(incident, active) ==
  \A s \in active : serviceForSignal(s) \notin incident.affected

-----------------------------------------------------------------------------
\* Poller.tick up to AddSignals: the metrics are read and the anomalies merged.
Merge ==
  /\ phase # "merged"
  /\ \E started \in SUBSET InjectedFaults : faultRows' = FaultRowsAfter(started)
  /\ signals' \in UNION {AddSignals(Aged(signals), detected) : detected \in Detections}
  /\ phase' = "merged"
  /\ UNCHANGED <<incidents, counts, quiet>>

\* The metrics cannot be read, or Start skips the cycle after a slow one.
Miss ==
  /\ phase # "merged"
  /\ \E started \in SUBSET InjectedFaults : faultRows' = FaultRowsAfter(started)
  /\ signals' = {s \in Aged(signals) : s.age <= SignalWindow}
  /\ phase' = "idle"
  /\ UNCHANGED <<incidents, counts, quiet>>

\* The rest of the tick, Reconcile with the rows of the events of done written.
\* If it fails, Check gets no incident and forgets every count. failed is the set
\* of incidents whose MarkResolved fails.
Finish(batch, done, reconciled, failed) ==
  LET rows    == Created(batch, done)
      actives == IF reconciled THEN rows ELSE <<>>
      checked == CheckCounts(actives, signals)
  IN  /\ failed \subseteq ToResolve(checked)
      /\ counts' = checked
      /\ incidents' = [id \in DOMAIN rows \ (ToResolve(checked) \ failed) |-> rows[id]]
      /\ quiet' = {id \in DOMAIN actives : Calm(actives[id], signals)}
      /\ phase' = IF reconciled THEN "confirmed" ELSE "idle"
      /\ UNCHANGED <<signals, faultRows>>

\* MarkResolved may fail for some of the incidents; it is logged.
Confirm(failed) ==
  /\ phase = "merged"
  /\ \E batch \in Correlate(signals, faultRows) :
       HasIdsFor(batch) /\ Finish(batch, DOMAIN batch, TRUE, failed)

\* Reconcile fails: listing the incidents, at an event, or listing them again.
ReconcileFails ==
  /\ phase = "merged"
  /\ \E batch \in Correlate(signals, faultRows) : \E last \in {0} \cup DOMAIN batch :
       HasIdsFor(batch) /\ Finish(batch, {i \in DOMAIN batch : i <= last}, FALSE, {})

\* queryRecentFaultEvents fails: the tick ends here.
Abandon ==
  /\ phase = "merged"
  /\ phase' = "idle"
  /\ UNCHANGED <<signals, faultRows, incidents, counts, quiet>>

\* The monitor process is restarted: NewCorrelator, NewResolutionTracker.
MonitorRestart ==
  /\ signals' = {} /\ counts' = <<>> /\ quiet' = {} /\ phase' = "idle"
  /\ UNCHANGED <<faultRows, incidents>>

Next ==
  \/ Merge \/ Miss \/ Abandon \/ ReconcileFails \/ MonitorRestart
  \/ \E failed \in SUBSET Ids : Confirm(failed)

Spec == Init /\ [][Next]_vars

\* The poll loop never returns, and neither its queries nor its updates fail for ever.
FairSpec == Spec /\ WF_vars(Merge) /\ SF_vars(Confirm({}))

-----------------------------------------------------------------------------
TypeOK ==
  /\ signals \subseteq {Signal(k, age) : k \in SignalKeys, age \in 0..SignalWindow}
  /\ \A s, t \in signals : signalKey(s) = signalKey(t) => s = t
  /\ faultRows \subseteq [fault : InjectedFaults, age : 0..FaultHorizon]
  /\ DOMAIN incidents \subseteq Ids
  /\ \A id \in DOMAIN incidents :
       /\ incidents[id].root \in incidents[id].affected
       /\ incidents[id].affected \subseteq Services \cup {k.queue : k \in SignalKeys}
       /\ incidents[id].fault \in InjectedFaults \cup {""}
  /\ DOMAIN counts \subseteq Ids
  /\ \A id \in DOMAIN counts : counts[id] \in 0..CountCap
  /\ quiet \subseteq Ids
  /\ phase \in {"idle", "merged", "confirmed"}

\* After a cycle whose Reconcile succeeded, every group of signals worth an event
\* has an open incident on a service that may be its root, with that service still
\* anomalous: no incident is lost between groups, nor resolved in the very cycle
\* that confirms it (Reconcile and Check of Poller.tick see different things).
AnomaliesCovered ==
  phase = "confirmed" =>
    \A i \in DOMAIN Groups(signals) :
      LET group == Groups(signals)[i] IN
      Promoted(group) =>
        \E id \in DOMAIN incidents : incidents[id].root \in NominateRoot(group, faultRows)

\* An incident is resolved only when two Checks in a row of one process have found
\* no signal of a service it affects, the owner of a dead-letter queue included
\* ("so that a DLQ-backed incident doesn't resolve prematurely", incidents.go:187);
\* whatever calls failed, cycles were missed or restarts happened in between.
ResolvedWhenCalm ==
  [][\A id \in DOMAIN incidents \ DOMAIN incidents' :
       id \in quiet /\ id \in quiet' /\ Calm(incidents[id], signals')]_vars

\* A cycle opens no incident for a root and fault type that already has one open
\* (Reconcile and findMatchingIncident).
NoSecondIncident ==
  [][\A new \in DOMAIN incidents' \ DOMAIN incidents, old \in DOMAIN incidents :
       <<incidents'[new].root, incidents'[new].fault>>
         # <<incidents[old].root, incidents[old].fault>>]_vars

\* Once no signal is raised any more every incident gets resolved, whichever calls
\* to resolve it have failed and however many cycles are missed or abandoned. Only a
\* restart or a failing Reconcile starts the counting again, so neither may go on.
IncidentsResolve ==
  <>[](signals = {}) /\ <>[][~MonitorRestart /\ ~ReconcileFails]_vars
    => <>[](DOMAIN incidents = {})

\* "check whether an active incident already exists (by matching `root_service` and
\* `fault_type`). If not, create a new `incidents` row. If yes, update the
\* `timeline`" (docs/build-monitor.md:46): at most one is open for each.
OneIncidentPerCause ==
  \A a, b \in DOMAIN incidents :
    incidents[a].root = incidents[b].root /\ incidents[a].fault = incidents[b].fault => a = b
=============================================================================
