-------------------------- MODULE IncidentsProofs --------------------------
(***************************************************************************)
(* What Incidents promises, for every set of signals, every window of the  *)
(* correlator and every number of quiet cycles from two on.                *)
(***************************************************************************)
EXTENDS Incidents, TLAPS

-----------------------------------------------------------------------------
(* Signals and the services they speak for.                                *)

AllSignals == {Signal(k, age) : k \in SignalKeys, age \in 0..SignalWindow}

OnePerKey(some) == \A s, t \in some : signalKey(s) = signalKey(t) => s = t

Names == Services \cup {k.queue : k \in SignalKeys}

\* The owner of a queue is one of the services.
LEMMA OwnersAreServices ==
  \A q \in DOMAIN queueOwner : queueOwner[q] \in Services
BY DEF queueOwner, Services

\* A signal is its key and its age.
LEMMA SignalParts ==
  ASSUME NEW k \in SignalKeys, NEW age
  PROVE  /\ signalKey(Signal(k, age)) = k
         /\ Signal(k, age).age = age
         /\ Signal(k, age).service = k.service
         /\ Signal(k, age).queue = k.queue
BY IncidentsAssumption DEF signalKey, Signal

\* Whichever field of a signal names its service, Check counts that service among
\* the anomalous ones.
LEMMA ServiceIsAnomalous ==
  ASSUME NEW active \in SUBSET AllSignals, NEW s \in active
  PROVE  /\ serviceForSignal(s) \in AnomalousNames(active)
         /\ serviceForSignal(s) \in Names
<1>1. PICK k \in SignalKeys, age \in 0..SignalWindow : s = Signal(k, age)
  BY DEF AllSignals
<1>2. s.service = k.service /\ s.queue = k.queue
  BY <1>1, SignalParts
<1>3. /\ k.service \in Services \cup {""}
      /\ k.service # "" \/ k.queue # ""
  BY IncidentsAssumption
<1>4. CASE s.service # ""
  <2>1. serviceForSignal(s) = s.service
    BY <1>4 DEF serviceForSignal
  <2>2. s.service \in AnomalousNames(active)
    BY <1>4 DEF AnomalousNames
  <2> QED BY <1>2, <1>3, <1>4, <2>1, <2>2 DEF Names
<1>5. CASE s.service = "" /\ s.queue \in DOMAIN queueOwner
  <2>1. serviceForSignal(s) = queueOwner[s.queue]
    BY <1>5 DEF serviceForSignal
  <2>2. queueOwner[s.queue] \in AnomalousNames(active)
    BY <1>5 DEF AnomalousNames
  <2> QED BY <1>5, <2>1, <2>2, OwnersAreServices DEF Names
<1>6. CASE s.service = "" /\ s.queue \notin DOMAIN queueOwner
  <2>1. serviceForSignal(s) = s.queue
    BY <1>6 DEF serviceForSignal
  <2>2. s.queue \in AnomalousNames(active)
    BY <1>2, <1>3, <1>6 DEF AnomalousNames
  <2> QED BY <1>2, <2>1, <2>2 DEF Names
<1> QED BY <1>4, <1>5, <1>6

-----------------------------------------------------------------------------
(* The correlator: where the root, the affected services and the fault of  *)
(* an event come from.                                                     *)

\* Each group is made of active signals, however they are cut.
LEMMA GroupsOfSignals ==
  ASSUME NEW active, NEW i \in DOMAIN Groups(active)
  PROVE  Groups(active)[i] \subseteq active
BY DEF Groups

LEMMA OldestAreThings ==
  ASSUME NEW things
  PROVE  Oldest(things) \subseteq things
BY DEF Oldest

\* By every rule of nominateRoot the root is the service of a signal of the group.
LEMMA RootIsOfTheGroup ==
  ASSUME NEW group, NEW rows, NEW root \in NominateRoot(group, rows)
  PROVE  \E s \in group : root = serviceForSignal(s)
BY OldestAreThings, ZenonT(40) DEF NominateRoot

LEMMA FaultIsOfTheRows ==
  ASSUME NEW root, NEW group, NEW rows
  PROVE  MatchFaultType(root, group, rows) \subseteq {""} \cup {r.fault : r \in rows}
BY OldestAreThings DEF MatchFaultType

\* A batch has one event for each promoted group: its root is one the rules allow,
\* and Check finds the root anomalous.
LEMMA BatchCoversGroups ==
  ASSUME NEW active \in SUBSET AllSignals, NEW rows, NEW batch \in Correlate(active, rows)
  PROVE  /\ DOMAIN batch = {i \in DOMAIN Groups(active) : Promoted(Groups(active)[i])}
         /\ \A i \in DOMAIN batch :
              /\ batch[i].root \in NominateRoot(Groups(active)[i], rows)
              /\ batch[i].root \in batch[i].affected
              /\ batch[i].root \in AnomalousNames(active)
              /\ batch[i].affected \subseteq Names
              /\ batch[i].fault \in {""} \cup {r.fault : r \in rows}
<1> DEFINE promoted == {i \in DOMAIN Groups(active) : Promoted(Groups(active)[i])}
           events   == [i \in promoted |-> BuildCorrelatedEvents(Groups(active)[i], rows)]
<1>1. /\ batch \in [promoted -> UNION {events[i] : i \in promoted}]
      /\ \A i \in promoted : batch[i] \in events[i]
  BY DEF Correlate
<1>2. DOMAIN batch = promoted
  BY <1>1
<1>3. ASSUME NEW i \in DOMAIN batch
      PROVE  /\ batch[i].root \in NominateRoot(Groups(active)[i], rows)
             /\ batch[i].root \in batch[i].affected
             /\ batch[i].root \in AnomalousNames(active)
             /\ batch[i].affected \subseteq Names
             /\ batch[i].fault \in {""} \cup {r.fault : r \in rows}
  <2> DEFINE group == Groups(active)[i]
  <2>1. group \subseteq active
    BY <1>2, GroupsOfSignals
  <2>2. batch[i] \in BuildCorrelatedEvents(group, rows)
    BY <1>1, <1>2
  <2> HIDE DEF group, promoted, events
  <2>3. PICK root \in NominateRoot(group, rows) :
          \E fault \in MatchFaultType(root, group, rows) :
            batch[i] = [root |-> root, fault |-> fault, affected |-> BuildAffected(root, group)]
    BY <2>2 DEF BuildCorrelatedEvents
  <2>4. PICK fault \in MatchFaultType(root, group, rows) :
          batch[i] = [root |-> root, fault |-> fault, affected |-> BuildAffected(root, group)]
    BY <2>3
  <2>5. /\ batch[i].root = root
        /\ batch[i].fault = fault
        /\ batch[i].affected = BuildAffected(root, group)
    BY <2>4
  <2>6. PICK s \in group : root = serviceForSignal(s)
    BY <2>3, RootIsOfTheGroup
  <2>7. \A t \in group : serviceForSignal(t) \in AnomalousNames(active)
                           /\ serviceForSignal(t) \in Names
    BY <2>1, ServiceIsAnomalous
  <2>8. root \in BuildAffected(root, group) /\ BuildAffected(root, group) \subseteq Names
    BY <2>6, <2>7 DEF BuildAffected
  <2>9. fault \in {""} \cup {r.fault : r \in rows}
    BY <2>4, FaultIsOfTheRows
  <2>10. batch[i].root \in NominateRoot(group, rows)
    BY <2>3, <2>5
  <2>11. batch[i].root \in AnomalousNames(active)
    BY <2>5, <2>6, <2>7
  <2> QED BY <2>5, <2>8, <2>9, <2>10, <2>11 DEF group
<1> QED BY <1>2, <1>3

-----------------------------------------------------------------------------
(* Reconcile: the rows after creating the incidents of some events.        *)

\* Ids for a whole batch are ids for the part of it that is reached.
LEMMA IdsForAPart ==
  ASSUME NEW batch, HasIdsFor(batch), NEW done \in SUBSET DOMAIN batch
  PROVE  NewIds(batch, done) # {}
<1>1. PICK f : f \in NewIds(batch, DOMAIN batch)
  BY DEF HasIdsFor
<1> DEFINE g == [i \in Creates(batch, done) |-> f[i]]
<1>2. Creates(batch, done) \subseteq Creates(batch, DOMAIN batch)
  BY DEF Creates
<1>3. /\ f \in [Creates(batch, DOMAIN batch) -> FreeIds]
      /\ \A a, b \in Creates(batch, DOMAIN batch) : f[a] = f[b] => a = b
  BY <1>1 DEF NewIds, Injection, IsInjective
<1>4. /\ g \in [Creates(batch, done) -> FreeIds]
      /\ \A a, b \in DOMAIN g : g[a] = g[b] => a = b
  BY <1>2, <1>3
<1>5. g \in NewIds(batch, done)
  BY <1>4 DEF NewIds, Injection, IsInjective
<1> QED BY <1>5

\* The rows that were there are left alone, and the others are the events of the
\* batch that match none of those, each under an id that nothing uses.
LEMMA CreatedRows ==
  ASSUME NEW batch, HasIdsFor(batch), NEW done \in SUBSET DOMAIN batch
  PROVE  /\ DOMAIN incidents \subseteq DOMAIN Created(batch, done)
         /\ \A id \in DOMAIN incidents : Created(batch, done)[id] = incidents[id]
         /\ \A id \in DOMAIN Created(batch, done) \ DOMAIN incidents :
              /\ id \in FreeIds
              /\ \E i \in Creates(batch, done) : Created(batch, done)[id] = batch[i]
         /\ \A i \in Creates(batch, done) : \E id \in DOMAIN Created(batch, done) :
              Created(batch, done)[id] = batch[i]
<1> DEFINE new   == Creates(batch, done)
           idOf  == CHOOSE f \in NewIds(batch, done) : TRUE
           event == AntiFunction(idOf)
           rows  == Created(batch, done)
<1>1. idOf \in NewIds(batch, done)
  BY IdsForAPart
<1>2. rows = [id \in DOMAIN incidents \cup Range(idOf) |->
                IF id \in Range(idOf) THEN batch[event[id]] ELSE incidents[id]]
  BY DEF Created
<1> HIDE DEF idOf, rows
<1>3. /\ idOf \in [new -> FreeIds]
      /\ \A a, b \in new : idOf[a] = idOf[b] => a = b
  BY <1>1 DEF NewIds, Injection, IsInjective
<1>4. Range(idOf) \subseteq FreeIds /\ \A i \in new : idOf[i] \in Range(idOf)
  BY <1>3 DEF Range
<1>5. \A id \in Range(idOf) : event[id] \in new /\ idOf[event[id]] = id
  <2> SUFFICES ASSUME NEW id \in Range(idOf)
               PROVE  event[id] \in new /\ idOf[event[id]] = id
    OBVIOUS
  <2>1. \E i \in new : idOf[i] = id
    BY <1>3 DEF Range
  <2>2. event[id] = CHOOSE i \in DOMAIN idOf : id \in Range(idOf) => idOf[i] = id
    BY DEF AntiFunction, Inverse
  <2> HIDE DEF event, new
  <2>3. DOMAIN idOf = new
    BY <1>3
  <2> QED BY <2>1, <2>2, <2>3
<1> HIDE DEF event, new
<1>6. FreeIds \cap DOMAIN incidents = {}
  BY DEF FreeIds
<1>7. /\ DOMAIN rows = DOMAIN incidents \cup Range(idOf)
      /\ \A id \in Range(idOf) : rows[id] = batch[event[id]]
      /\ \A id \in DOMAIN incidents : rows[id] = incidents[id]
  BY <1>2, <1>4, <1>6
<1>8. \A id \in DOMAIN rows \ DOMAIN incidents :
        id \in FreeIds /\ \E i \in new : rows[id] = batch[i]
  BY <1>4, <1>5, <1>7
<1>9. ASSUME NEW i \in new
      PROVE  \E id \in DOMAIN rows : rows[id] = batch[i]
  <2>1. idOf[i] \in Range(idOf)
    BY <1>4
  <2>2. event[idOf[i]] = i
    BY <1>3, <1>5, <2>1
  <2> QED BY <1>7, <2>1, <2>2
<1> QED BY <1>7, <1>8, <1>9 DEF rows, new

-----------------------------------------------------------------------------
(* Check: the counts.                                                      *)

LEMMA MinOfTwo ==
  ASSUME NEW a \in Nat, NEW b \in Nat
  PROVE  Min({a, b}) \in Nat /\ Min({a, b}) <= a /\ Min({a, b}) <= b
<1>1. \E x \in {a, b} : \A y \in {a, b} : x <= y
  <2>1. CASE a <= b
    BY <2>1
  <2>2. CASE b <= a
    BY <2>2
  <2> QED BY <2>1, <2>2
<1>2. /\ Min({a, b}) \in {a, b}
      /\ \A y \in {a, b} : Min({a, b}) <= y
  BY <1>1 DEF Min
<1> QED BY <1>2

CountsOK ==
  /\ DOMAIN counts \subseteq Ids
  /\ \A id \in DOMAIN counts : counts[id] \in 0..CountCap

\* A count that is not zero is of an incident with no anomalous name, and one that
\* is high enough to resolve was not zero before: two Checks are needed.
LEMMA CountsAreOfQuiet ==
  ASSUME CountsOK, NEW actives, NEW active, NEW id \in DOMAIN actives
  PROVE  LET count == CheckCounts(actives, active)[id] IN
         /\ count \in 0..CountCap
         /\ count > 0 => actives[id].affected \cap AnomalousNames(active) = {}
         /\ count >= ResolutionRequired => id \in DOMAIN counts /\ counts[id] > 0
<1> DEFINE n     == IF id \in DOMAIN counts THEN counts[id] ELSE 0
           count == CheckCounts(actives, active)[id]
           busy  == actives[id].affected \cap AnomalousNames(active) # {}
<1>1. ResolutionRequired \in Nat /\ ResolutionRequired >= 2 /\ CountCap = ResolutionRequired + 1
  <2>1. ResolutionRequired \in Nat \ {0, 1}
    BY IncidentsAssumption
  <2> QED BY <2>1 DEF CountCap
<1>2. n \in Nat /\ (n > 0 => id \in DOMAIN counts /\ counts[id] > 0)
  <2>1. id \in DOMAIN counts => counts[id] \in 0..CountCap
    BY DEF CountsOK
  <2> QED BY <1>1, <2>1
<1>3. count = IF busy THEN 0 ELSE Min({n + 1, CountCap})
  BY DEF CheckCounts
<1> SUFFICES /\ count \in 0..CountCap
             /\ count > 0 => ~busy
             /\ count >= ResolutionRequired => n > 0
  BY <1>2
<1> HIDE DEF n, count, busy
<1>4. CASE busy
  BY <1>1, <1>3, <1>4
<1>5. CASE ~busy
  <2> DEFINE least == Min({n + 1, CountCap})
  <2>1. n + 1 \in Nat /\ CountCap \in Nat
    BY <1>1, <1>2
  <2>2. least \in Nat /\ least <= n + 1 /\ least <= CountCap
    BY <2>1, MinOfTwo
  <2>3. count = least
    BY <1>3, <1>5
  <2> HIDE DEF least
  <2> QED BY <1>1, <1>2, <1>5, <2>1, <2>2, <2>3
<1> QED BY <1>4, <1>5

\* An incident none of whose names is anomalous has no signal of a service it affects.
LEMMA NoNameIsCalm ==
  ASSUME NEW active \in SUBSET AllSignals, NEW incident,
         incident.affected \cap AnomalousNames(active) = {}
  PROVE  Calm(incident, active)
BY ServiceIsAnomalous DEF Calm

-----------------------------------------------------------------------------
(* The types.                                                              *)

EventOK(event) ==
  /\ event.root \in event.affected
  /\ event.affected \subseteq Names
  /\ event.fault \in InjectedFaults \cup {""}

SignalsOK == signals \subseteq AllSignals /\ OnePerKey(signals)

RowsOK == faultRows \subseteq [fault : InjectedFaults, age : 0..FaultHorizon]

IncidentsOK ==
  /\ DOMAIN incidents \subseteq Ids
  /\ \A id \in DOMAIN incidents : EventOK(incidents[id])

QuietOK == quiet \subseteq Ids

PhaseOK == phase \in {"idle", "merged", "confirmed"}

Types == SignalsOK /\ RowsOK /\ IncidentsOK /\ CountsOK /\ QuietOK /\ PhaseOK

LEMMA TypesAreTypeOK == Types <=> TypeOK
BY DEF Types, TypeOK, SignalsOK, RowsOK, IncidentsOK, CountsOK, QuietOK, PhaseOK,
       AllSignals, OnePerKey, EventOK, Names

-----------------------------------------------------------------------------
(* The cycle up to AddSignals.                                             *)

LEMMA AgedParts ==
  ASSUME NEW k \in SignalKeys, NEW age
  PROVE  [Signal(k, age) EXCEPT !.age = @ + 1] = Signal(k, age + 1)
BY DEF Signal

\* What is kept of the signals a cycle later, one for each key still.
LEMMA PrunedSignals ==
  ASSUME SignalsOK, NEW pruned, pruned = {s \in Aged(signals) : s.age <= SignalWindow}
  PROVE  pruned \subseteq AllSignals /\ OnePerKey(pruned)
<1>1. ASSUME NEW s \in Aged(signals)
      PROVE  \E k \in SignalKeys, age \in 0..SignalWindow :
               Signal(k, age) \in signals /\ s = Signal(k, age + 1)
  <2>1. PICK t \in signals : s = [t EXCEPT !.age = @ + 1]
    BY DEF Aged
  <2>2. PICK k \in SignalKeys, age \in 0..SignalWindow : t = Signal(k, age)
    BY DEF SignalsOK, AllSignals
  <2> QED BY <2>1, <2>2, AgedParts
<1>2. ASSUME NEW s \in pruned
      PROVE  s \in AllSignals
  <2>1. PICK k \in SignalKeys, age \in 0..SignalWindow : s = Signal(k, age + 1)
    BY <1>1
  <2>2. age + 1 <= SignalWindow
    BY <2>1, SignalParts
  <2>3. age + 1 \in 0..SignalWindow
    BY <2>2
  <2> QED BY <2>1, <2>3 DEF AllSignals
<1>3. ASSUME NEW s \in pruned, NEW t \in pruned, signalKey(s) = signalKey(t)
      PROVE  s = t
  <2>1. PICK k \in SignalKeys, age \in 0..SignalWindow :
          Signal(k, age) \in signals /\ s = Signal(k, age + 1)
    BY <1>1
  <2>2. PICK l \in SignalKeys, old \in 0..SignalWindow :
          Signal(l, old) \in signals /\ t = Signal(l, old + 1)
    BY <1>1
  <2>3. k = l
    BY <1>3, <2>1, <2>2, SignalParts
  <2>4. signalKey(Signal(k, age)) = signalKey(Signal(l, old))
    BY <2>3, SignalParts
  <2>5. Signal(k, age) = Signal(l, old)
    BY <2>1, <2>2, <2>4 DEF SignalsOK, OnePerKey
  <2>6. age = old
    BY <2>5, SignalParts
  <2> QED BY <2>1, <2>2, <2>3, <2>6
<1> QED BY <1>2, <1>3 DEF OnePerKey

\* Whatever is detected, AddSignals leaves one signal for each key.
LEMMA MergedSignals ==
  ASSUME SignalsOK, NEW detected \in Detections,
         NEW merged \in AddSignals(Aged(signals), detected)
  PROVE  merged \subseteq AllSignals /\ OnePerKey(merged)
<1> DEFINE pruned == {s \in Aged(signals) : s.age <= SignalWindow}
           fresh  == {d \in detected : \A s \in pruned : signalKey(s) # signalKey(d)}
<1>1. pruned \subseteq AllSignals /\ OnePerKey(pruned)
  BY PrunedSignals
<1>2. detected \subseteq AllSignals /\ OnePerKey(detected)
  <2>1. PICK ageOf \in [SignalKeys -> 0..(SignalWindow + 1)] :
          detected = {Signal(k, ageOf[k]) : k \in {k \in SignalKeys : ageOf[k] <= SignalWindow}}
    BY DEF Detections
  <2>2. ASSUME NEW d \in detected
        PROVE  \E k \in SignalKeys : d = Signal(k, ageOf[k]) /\ ageOf[k] \in 0..SignalWindow
    <3>1. PICK k \in SignalKeys : d = Signal(k, ageOf[k]) /\ ageOf[k] <= SignalWindow
      BY <2>1, <2>2
    <3> DEFINE age == ageOf[k]
    <3>2. age \in 0..(SignalWindow + 1) /\ age <= SignalWindow
      BY <2>1, <3>1
    <3>3. SignalWindow \in Nat
      BY CorrelatorAssumption
    <3> HIDE DEF age
    <3>4. age \in 0..SignalWindow
      BY <3>2, <3>3
    <3> QED BY <3>1, <3>4 DEF age
  <2>3. detected \subseteq AllSignals
    BY <2>2 DEF AllSignals
  <2>4. ASSUME NEW s \in detected, NEW t \in detected, signalKey(s) = signalKey(t)
        PROVE  s = t
    <3>1. PICK k \in SignalKeys : s = Signal(k, ageOf[k])
      BY <2>2
    <3>2. PICK l \in SignalKeys : t = Signal(l, ageOf[l])
      BY <2>2
    <3>3. k = l
      BY <2>4, <3>1, <3>2, SignalParts
    <3> QED BY <3>1, <3>2, <3>3
  <2> QED BY <2>3, <2>4 DEF OnePerKey
<1>3. PICK winners \in SUBSET (detected \ fresh) :
        merged = {s \in pruned : \A d \in winners : signalKey(s) # signalKey(d)}
                   \cup winners \cup fresh
  BY DEF AddSignals
<1>4. merged \subseteq AllSignals
  BY <1>1, <1>2, <1>3
<1> DEFINE kept  == {s \in pruned : \A d \in winners : signalKey(s) # signalKey(d)}
           added == winners \cup fresh
<1>5. /\ merged = kept \cup added
      /\ kept \subseteq pruned
      /\ added \subseteq detected
      /\ \A s \in kept, d \in added : signalKey(s) # signalKey(d)
  BY <1>3
<1> HIDE DEF pruned, fresh, kept, added
<1>6. ASSUME NEW s \in merged, NEW t \in merged, signalKey(s) = signalKey(t)
      PROVE  s = t
  <2>1. (s \in kept \/ s \in added) /\ (t \in kept \/ t \in added)
    BY <1>5
  <2>2. s \in added /\ t \in added => s = t
    BY <1>2, <1>5, <1>6 DEF OnePerKey
  <2>3. s \in kept /\ t \in kept => s = t
    BY <1>1, <1>5, <1>6 DEF OnePerKey
  <2>4. ~(s \in kept /\ t \in added) /\ ~(s \in added /\ t \in kept)
    BY <1>5, <1>6
  <2> QED BY <2>1, <2>2, <2>3, <2>4
<1> QED BY <1>4, <1>6 DEF OnePerKey

LEMMA RowsStayTyped ==
  ASSUME RowsOK, NEW started \in SUBSET InjectedFaults
  PROVE  FaultRowsAfter(started) \subseteq [fault : InjectedFaults, age : 0..FaultHorizon]
<1>1. FaultHorizon \in Nat
  BY IncidentsAssumption
<1>2. ASSUME NEW r \in Aged(faultRows), r.age <= FaultHorizon
      PROVE  r \in [fault : InjectedFaults, age : 0..FaultHorizon]
  <2>1. PICK old \in faultRows : r = [old EXCEPT !.age = @ + 1]
    BY DEF Aged
  <2>2. old \in [fault : InjectedFaults, age : 0..FaultHorizon]
    BY DEF RowsOK
  <2>3. r = [fault |-> old.fault, age |-> old.age + 1]
    BY <2>1, <2>2
  <2>4. old.age + 1 \in 0..FaultHorizon
    BY <1>1, <1>2, <2>2, <2>3
  <2> QED BY <2>2, <2>3, <2>4
<1>3. \A f \in started : [fault |-> f, age |-> 0] \in [fault : InjectedFaults, age : 0..FaultHorizon]
  BY <1>1
<1> QED BY <1>2, <1>3 DEF FaultRowsAfter

-----------------------------------------------------------------------------
(* The inductive invariant.                                                *)

\* An incident that has been counted at all was without a signal in the last Check.
CountedAreQuiet == \A id \in DOMAIN counts : counts[id] > 0 => id \in quiet

IInv == Types /\ CountedAreQuiet /\ AnomaliesCovered

LEMMA InitIInv == Init => IInv
<1> SUFFICES ASSUME Init PROVE IInv
  OBVIOUS
<1>1. SignalsOK /\ RowsOK
  BY DEF Init, SignalsOK, RowsOK, OnePerKey
<1>2. IncidentsOK /\ CountsOK /\ QuietOK /\ PhaseOK
  BY DEF Init, IncidentsOK, CountsOK, QuietOK, PhaseOK
<1>3. CountedAreQuiet
  BY DEF Init, CountedAreQuiet
<1>4. AnomaliesCovered
  BY DEF Init, AnomaliesCovered
<1> QED BY <1>1, <1>2, <1>3, <1>4 DEF IInv, Types

\* What a cycle that gets as far as Check does to the incidents.
LEMMA FinishStep ==
  ASSUME IInv, NEW batch \in Correlate(signals, faultRows), NEW done \in SUBSET DOMAIN batch,
         NEW reconciled \in BOOLEAN, reconciled => done = DOMAIN batch,
         HasIdsFor(batch), NEW failed, Finish(batch, done, reconciled, failed)
  PROVE  /\ IInv'
         /\ \A id \in DOMAIN incidents \ DOMAIN incidents' :
              id \in quiet /\ id \in quiet' /\ Calm(incidents[id], signals')
         /\ \A new \in DOMAIN incidents' \ DOMAIN incidents, old \in DOMAIN incidents :
              <<incidents'[new].root, incidents'[new].fault>>
                # <<incidents[old].root, incidents[old].fault>>
<1> DEFINE rows    == Created(batch, done)
           actives == IF reconciled THEN rows ELSE <<>>
           checked == CheckCounts(actives, signals)
           gone    == ToResolve(checked) \ failed
<1>1. /\ counts' = checked
      /\ incidents' = [id \in DOMAIN rows \ gone |-> rows[id]]
      /\ quiet' = {id \in DOMAIN actives : Calm(actives[id], signals)}
      /\ phase' = IF reconciled THEN "confirmed" ELSE "idle"
      /\ signals' = signals /\ faultRows' = faultRows
  BY DEF Finish
<1>2. /\ signals \subseteq AllSignals
      /\ SignalsOK /\ RowsOK /\ IncidentsOK /\ CountsOK /\ CountedAreQuiet
  BY DEF IInv, Types, SignalsOK
<1>3. /\ DOMAIN incidents \subseteq DOMAIN rows
      /\ \A id \in DOMAIN incidents : rows[id] = incidents[id]
      /\ \A id \in DOMAIN rows \ DOMAIN incidents :
           id \in FreeIds /\ \E i \in Creates(batch, done) : rows[id] = batch[i]
      /\ \A i \in Creates(batch, done) : \E id \in DOMAIN rows : rows[id] = batch[i]
  BY CreatedRows
<1>4. /\ DOMAIN batch = {i \in DOMAIN Groups(signals) : Promoted(Groups(signals)[i])}
      /\ \A i \in DOMAIN batch :
           /\ batch[i].root \in NominateRoot(Groups(signals)[i], faultRows)
           /\ batch[i].root \in batch[i].affected
           /\ batch[i].root \in AnomalousNames(signals)
           /\ batch[i].affected \subseteq Names
           /\ batch[i].fault \in {""} \cup {r.fault : r \in faultRows}
  BY <1>2, BatchCoversGroups
<1>5. DOMAIN checked = DOMAIN actives /\ DOMAIN actives \subseteq DOMAIN rows
  BY DEF CheckCounts
<1>6. \A id \in DOMAIN checked :
        /\ checked[id] \in 0..CountCap
        /\ checked[id] > 0 => actives[id].affected \cap AnomalousNames(signals) = {}
        /\ checked[id] >= ResolutionRequired => id \in DOMAIN counts /\ counts[id] > 0
  BY <1>2, <1>5, CountsAreOfQuiet
<1>7. Creates(batch, done) \subseteq DOMAIN batch
  BY DEF Creates
<1> HIDE DEF rows, actives, checked
\* Every incident that Check counts at all is calm.
<1>8. ASSUME NEW id \in DOMAIN checked, checked[id] > 0
      PROVE  id \in quiet' /\ Calm(actives[id], signals)
  <2>1. actives[id].affected \cap AnomalousNames(signals) = {}
    BY <1>6, <1>8
  <2>2. Calm(actives[id], signals)
    BY <1>2, <2>1, NoNameIsCalm
  <2> QED BY <1>1, <1>5, <2>2
<1>9. ASSUME NEW id \in gone
      PROVE  /\ id \in DOMAIN checked
             /\ checked[id] > 0
             /\ id \in DOMAIN counts /\ counts[id] > 0
  <2>1. id \in DOMAIN checked /\ checked[id] >= ResolutionRequired
    BY <1>9 DEF ToResolve
  <2>2. id \in DOMAIN counts /\ counts[id] > 0
    BY <1>6, <2>1
  <2>3. ResolutionRequired \in Nat \ {0, 1}
    BY IncidentsAssumption
  <2>4. checked[id] \in 0..CountCap
    BY <1>6, <2>1
  <2>5. CountCap \in Nat
    BY <2>3 DEF CountCap
  <2> DEFINE n == checked[id]
  <2>6. n \in Nat /\ n >= ResolutionRequired
    BY <2>1, <2>4, <2>5
  <2> HIDE DEF n
  <2>7. n > 0
    BY <2>3, <2>6
  <2> QED BY <2>1, <2>2, <2>7 DEF n
<1>10. Types'
  <2>1. SignalsOK' /\ RowsOK'
    BY <1>1, <1>2 DEF SignalsOK, RowsOK
  <2>2. \A id \in DOMAIN rows : id \in Ids /\ EventOK(rows[id])
    <3> SUFFICES ASSUME NEW id \in DOMAIN rows PROVE id \in Ids /\ EventOK(rows[id])
      OBVIOUS
    <3>1. CASE id \in DOMAIN incidents
      BY <1>2, <1>3, <3>1 DEF IncidentsOK
    <3>2. CASE id \notin DOMAIN incidents
      <4>1. PICK i \in Creates(batch, done) : rows[id] = batch[i]
        BY <1>3, <3>2
      <4>2. id \in Ids
        BY <1>3, <3>2 DEF FreeIds
      <4>3. {r.fault : r \in faultRows} \subseteq InjectedFaults
        BY <1>2 DEF RowsOK
      <4>4. EventOK(batch[i])
        BY <1>4, <1>7, <4>3 DEF EventOK
      <4> QED BY <4>1, <4>2, <4>4
    <3> QED BY <3>1, <3>2
  <2>3. IncidentsOK'
    BY <1>1, <2>2 DEF IncidentsOK
  <2>4. CountsOK'
    BY <1>1, <1>5, <1>6, <2>2 DEF CountsOK
  <2>5. QuietOK'
    BY <1>1, <1>5, <2>2 DEF QuietOK
  <2>6. PhaseOK'
    BY <1>1 DEF PhaseOK
  <2> QED BY <2>1, <2>3, <2>4, <2>5, <2>6 DEF Types
<1>11. CountedAreQuiet'
  BY <1>1, <1>8 DEF CountedAreQuiet
<1>12. AnomaliesCovered'
  <2>1. CASE ~reconciled
    BY <1>1, <2>1 DEF AnomaliesCovered
  <2>2. CASE reconciled
    <3>1. done = DOMAIN batch /\ actives = rows
      BY <2>2 DEF actives
    <3>2. ASSUME NEW i \in DOMAIN Groups(signals), Promoted(Groups(signals)[i])
          PROVE  \E id \in DOMAIN incidents' :
                   incidents'[id].root \in NominateRoot(Groups(signals)[i], faultRows)
      <4>1. i \in DOMAIN batch
        BY <1>4, <3>2
      <4>2. \E id \in DOMAIN rows :
              rows[id].root = batch[i].root /\ batch[i].root \in rows[id].affected
        <5>1. CASE i \in Creates(batch, done)
          BY <1>3, <1>4, <4>1, <5>1
        <5>2. CASE i \notin Creates(batch, done)
          <6>1. PICK id \in DOMAIN incidents : Matches(incidents[id], batch[i])
            BY <3>1, <4>1, <5>2 DEF Creates
          <6>2. incidents[id].root = batch[i].root
            BY <6>1 DEF Matches
          <6>3. incidents[id].root \in incidents[id].affected
            BY <1>2 DEF IncidentsOK, EventOK
          <6> QED BY <1>3, <6>2, <6>3
        <5> QED BY <5>1, <5>2
      <4>3. PICK id \in DOMAIN rows :
              rows[id].root = batch[i].root /\ batch[i].root \in rows[id].affected
        BY <4>2
      <4>4. rows[id].affected \cap AnomalousNames(signals) # {}
        BY <1>4, <4>1, <4>3
      <4>5. id \notin gone
        <5>1. id \in DOMAIN checked => ~(checked[id] > 0)
          BY <1>6, <3>1, <4>4
        <5> QED BY <1>9, <5>1
      <4> QED BY <1>1, <1>4, <4>1, <4>3, <4>5
    <3> QED BY <1>1, <3>2 DEF AnomaliesCovered
  <2> QED BY <2>1, <2>2
<1>13. ASSUME NEW id \in DOMAIN incidents \ DOMAIN incidents'
       PROVE  id \in quiet /\ id \in quiet' /\ Calm(incidents[id], signals')
  <2>1. id \in gone
    BY <1>1, <1>3
  <2>2. /\ id \in DOMAIN checked /\ checked[id] > 0
        /\ id \in DOMAIN counts /\ counts[id] > 0
    BY <1>9, <2>1
  <2>3. id \in quiet
    BY <1>2, <2>2 DEF CountedAreQuiet
  <2>4. id \in quiet' /\ Calm(actives[id], signals)
    BY <1>8, <2>2
  <2>5. actives = rows
    BY <1>5, <2>2 DEF actives
  <2>6. actives[id] = incidents[id]
    BY <1>3, <2>5
  <2> QED BY <1>1, <2>3, <2>4, <2>6
<1>14. ASSUME NEW new \in DOMAIN incidents' \ DOMAIN incidents, NEW old \in DOMAIN incidents
       PROVE  <<incidents'[new].root, incidents'[new].fault>>
                # <<incidents[old].root, incidents[old].fault>>
  <2>1. new \in DOMAIN rows /\ incidents'[new] = rows[new]
    BY <1>1
  <2>2. PICK i \in Creates(batch, done) : incidents'[new] = batch[i]
    BY <1>3, <2>1
  <2>3. ~Matches(incidents[old], batch[i])
    BY DEF Creates
  <2> QED BY <2>2, <2>3 DEF Matches
<1> QED BY <1>10, <1>11, <1>12, <1>13, <1>14 DEF IInv

\* The two actions that are such a cycle.
LEMMA FinishingSteps ==
  ASSUME IInv, ReconcileFails \/ \E failed \in SUBSET Ids : Confirm(failed)
  PROVE  /\ IInv'
         /\ \A id \in DOMAIN incidents \ DOMAIN incidents' :
              id \in quiet /\ id \in quiet' /\ Calm(incidents[id], signals')
         /\ \A new \in DOMAIN incidents' \ DOMAIN incidents, old \in DOMAIN incidents :
              <<incidents'[new].root, incidents'[new].fault>>
                # <<incidents[old].root, incidents[old].fault>>
<1>1. CASE ReconcileFails
  <2>1. PICK batch \in Correlate(signals, faultRows) :
          \E last \in {0} \cup DOMAIN batch :
            HasIdsFor(batch) /\ Finish(batch, {i \in DOMAIN batch : i <= last}, FALSE, {})
    BY <1>1 DEF ReconcileFails
  <2>2. PICK done \in SUBSET DOMAIN batch : HasIdsFor(batch) /\ Finish(batch, done, FALSE, {})
    BY <2>1
  <2> QED BY <2>2, FinishStep
<1>2. CASE \E failed \in SUBSET Ids : Confirm(failed)
  <2>1. PICK failed : Confirm(failed)
    BY <1>2
  <2>2. PICK batch \in Correlate(signals, faultRows) :
          HasIdsFor(batch) /\ Finish(batch, DOMAIN batch, TRUE, failed)
    BY <2>1 DEF Confirm
  <2> QED BY <2>2, FinishStep
<1> QED BY <1>1, <1>2

LEMMA NextIInv == IInv /\ [Next]_vars => IInv'
<1> SUFFICES ASSUME IInv, [Next]_vars PROVE IInv'
  OBVIOUS
<1>1. SignalsOK /\ RowsOK /\ IncidentsOK /\ CountsOK /\ QuietOK /\ CountedAreQuiet
  BY DEF IInv, Types
<1>2. ASSUME UNCHANGED <<incidents, counts, quiet>>, phase' \in {"idle", "merged"},
             SignalsOK', RowsOK'
      PROVE  IInv'
  <2>1. IncidentsOK' /\ CountsOK' /\ QuietOK' /\ PhaseOK'
    BY <1>1, <1>2 DEF IncidentsOK, CountsOK, QuietOK, PhaseOK
  <2>2. CountedAreQuiet' /\ AnomaliesCovered'
    BY <1>1, <1>2 DEF CountedAreQuiet, AnomaliesCovered
  <2> QED BY <1>2, <2>1, <2>2 DEF IInv, Types
<1>3. CASE Merge
  <2>1. PICK started \in SUBSET InjectedFaults : faultRows' = FaultRowsAfter(started)
    BY <1>3 DEF Merge
  <2>2. RowsOK'
    BY <1>1, <2>1, RowsStayTyped DEF RowsOK
  <2>3. PICK detected \in Detections : signals' \in AddSignals(Aged(signals), detected)
    BY <1>3 DEF Merge
  <2>4. SignalsOK'
    BY <1>1, <2>3, MergedSignals DEF SignalsOK
  <2> QED BY <1>2, <1>3, <2>2, <2>4 DEF Merge
<1>4. CASE Miss
  <2>1. PICK started \in SUBSET InjectedFaults : faultRows' = FaultRowsAfter(started)
    BY <1>4 DEF Miss
  <2>2. RowsOK'
    BY <1>1, <2>1, RowsStayTyped DEF RowsOK
  <2>3. signals' = {s \in Aged(signals) : s.age <= SignalWindow}
    BY <1>4 DEF Miss
  <2>4. SignalsOK'
    BY <1>1, <2>3, PrunedSignals DEF SignalsOK
  <2> QED BY <1>2, <1>4, <2>2, <2>4 DEF Miss
<1>5. CASE Abandon
  <2>1. SignalsOK' /\ RowsOK'
    BY <1>1, <1>5 DEF Abandon, SignalsOK, RowsOK
  <2> QED BY <1>2, <1>5, <2>1 DEF Abandon
<1>6. CASE ReconcileFails \/ \E failed \in SUBSET Ids : Confirm(failed)
  BY <1>6, FinishingSteps
<1>7. CASE MonitorRestart
  <2>1. SignalsOK' /\ RowsOK' /\ IncidentsOK'
    BY <1>1, <1>7 DEF MonitorRestart, SignalsOK, RowsOK, IncidentsOK, OnePerKey
  <2>2. CountsOK' /\ QuietOK' /\ PhaseOK'
    BY <1>7 DEF MonitorRestart, CountsOK, QuietOK, PhaseOK
  <2>3. CountedAreQuiet' /\ AnomaliesCovered'
    BY <1>7 DEF MonitorRestart, CountedAreQuiet, AnomaliesCovered
  <2> QED BY <2>1, <2>2, <2>3 DEF IInv, Types
<1>8. CASE UNCHANGED vars
  <2>1. Types'
    BY <1>1, <1>8 DEF vars, IInv, Types, SignalsOK, RowsOK, IncidentsOK, CountsOK, QuietOK, PhaseOK
  <2>2. CountedAreQuiet' /\ AnomaliesCovered'
    BY <1>8 DEF vars, IInv, CountedAreQuiet, AnomaliesCovered
  <2> QED BY <2>1, <2>2 DEF IInv
<1> QED BY <1>3, <1>4, <1>5, <1>6, <1>7, <1>8 DEF Next

LEMMA IInvHolds == Spec => []IInv
BY InitIInv, NextIInv, PTL DEF Spec

\* The rows of an incident are what Reconcile wrote, the counts are of incidents, and
\* the correlator never holds two signals of one key, whatever is detected.
THEOREM TypesHold == Spec => []TypeOK
<1>1. IInv => TypeOK
  BY TypesAreTypeOK DEF IInv
<1> QED BY <1>1, IInvHolds, PTL

\* Right after a cycle that reconciled and checked, each group of signals worth an
\* event has an open incident on a service that may be its root: Check of the same
\* cycle, which computes the anomalous services in its own way, does not resolve it.
THEOREM EveryGroupHasAnIncident == Spec => []AnomaliesCovered
<1>1. IInv => AnomaliesCovered
  BY DEF IInv
<1> QED BY <1>1, IInvHolds, PTL

\* The steps that neither open nor resolve an incident.
LEMMA OtherSteps ==
  ASSUME [Next]_vars, ~(ReconcileFails \/ \E failed \in SUBSET Ids : Confirm(failed))
  PROVE  UNCHANGED incidents
BY DEF Next, vars, Merge, Miss, Abandon, MonitorRestart

\* An incident is resolved only after two Checks in a row of one process that found
\* no signal of any service it affects.
THEOREM ResolvedOnlyWhenCalm == Spec => ResolvedWhenCalm
<1>1. IInv /\ [Next]_vars =>
        [\A id \in DOMAIN incidents \ DOMAIN incidents' :
           id \in quiet /\ id \in quiet' /\ Calm(incidents[id], signals')]_vars
  BY FinishingSteps, OtherSteps
<1> QED BY <1>1, IInvHolds, PTL DEF ResolvedWhenCalm, Spec

\* A cycle opens no incident for a root and fault type that was open when it began.
THEOREM NoSecondIsOpened == Spec => NoSecondIncident
<1>1. IInv /\ [Next]_vars =>
        [\A new \in DOMAIN incidents' \ DOMAIN incidents, old \in DOMAIN incidents :
           <<incidents'[new].root, incidents'[new].fault>>
             # <<incidents[old].root, incidents[old].fault>>]_vars
  BY FinishingSteps, OtherSteps
<1> QED BY <1>1, IInvHolds, PTL DEF NoSecondIncident, Spec
=============================================================================
