-------------------------- MODULE FaultEngineProofs --------------------------
(***************************************************************************)
(* The accounting of fault_events, what a stop request guarantees and the  *)
(* context of a service, for any number of concurrent requests and any set *)
(* of faults.                                                              *)
(***************************************************************************)
EXTENDS FaultEngine, SequenceTheorems, SumTheorems

-----------------------------------------------------------------------------
Origins == {faultOrigins[f] : f \in AllFaults} \cup {""}
Rows == [fault : Injected, action : {"start", "stop"}, origin : Origins]
Requests == [pc : {"idle", "start", "next", "stop"}, fault : Injected \cup {""},
             origin : Origins, todo : SUBSET Injected, snapshot : SUBSET Injected]

\* A request that is about to write a row knows the fault, and the origin unless the
\* fault was no longer active when it was deactivated.
RequestOK(r) ==
  /\ r.todo \subseteq r.snapshot
  /\ r.pc = "start" => r.fault \in Injected /\ r.origin = faultOrigins[r.fault]
  /\ r.pc = "stop" => r.fault \in Injected /\ r.origin \in {faultOrigins[r.fault], ""}

RowOK(e) ==
  \/ e.action = "start" /\ e.origin = faultOrigins[e.fault]
  \/ e.action = "stop" /\ e.origin \in {faultOrigins[e.fault], ""}

Types ==
  /\ active \in [Injected -> Origins]
  /\ \A f \in Injected : active[f] \in {faultOrigins[f], ""}
  /\ events \in Seq(Rows)
  /\ \A i \in 1..Len(events) : RowOK(events[i])
  /\ lost \in [Injected -> [start : Nat, stop : Nat]]
  /\ req \in [Clients -> Requests]
  /\ \A c \in Clients : RequestOK(req[c])
  /\ requests \in 0..MaxRequests
  /\ since \in [Clients -> SUBSET Injected]

IInv == Types /\ EventsAccountForFaults /\ StopClears

-----------------------------------------------------------------------------
\* Every fault has an origin that is a name (faultOrigins).
LEMMA OriginFacts ==
  /\ "" \in Origins
  /\ \A f \in Injected : faultOrigins[f] \in Origins /\ faultOrigins[f] # ""
<1>1. \A f \in AllFaults : faultOrigins[f] # ""
  BY DEF faultOrigins, AllFaults, PoisonPill, TrafficSpike, NotificationFailure,
     DownstreamTimeout, CascadingFailure, IntermittentErrors
<1>2. QED
  BY <1>1, FaultEngineAssumption DEF Origins

Counts(x, f) == x.fault = f /\ x.origin # ""

\* The rows of a fault in ev, and the requests in rq that will write one.
RowsOf(ev, f, a) ==
  Cardinality({i \in 1..Len(ev) : ev[i].fault = f /\ ev[i].action = a /\ ev[i].origin # ""})
RequestsOf(rq, f, a) ==
  Cardinality({c \in Clients : rq[c].pc = a /\ rq[c].fault = f /\ rq[c].origin # ""})

\* One INSERT adds one to the rows of its fault and action, when it has an origin
\* (writeFaultEvent).
LEMMA WrittenStep ==
  ASSUME events \in Seq(Rows), NEW e \in Rows, events' = Append(events, e),
         NEW f \in Injected, NEW a \in {"start", "stop"}
  PROVE  /\ RowsOf(events, f, a) \in Nat
         /\ RowsOf(events', f, a) =
              RowsOf(events, f, a) + (IF Counts(e, f) /\ e.action = a THEN 1 ELSE 0)
<1> DEFINE W == {i \in 1..Len(events) :
                   events[i].fault = f /\ events[i].action = a /\ events[i].origin # ""}
           V == {i \in 1..Len(events') :
                   events'[i].fault = f /\ events'[i].action = a /\ events'[i].origin # ""}
<1>1. /\ Len(events) \in Nat
      /\ Len(events') = Len(events) + 1
      /\ events'[Len(events) + 1] = e
      /\ \A i \in 1..Len(events) : events'[i] = events[i]
  OBVIOUS
<1>2. IsFiniteSet(W)
  <2>1. IsFiniteSet(1..Len(events))
    BY <1>1, FS_Interval
  <2>2. QED
    BY <2>1, FS_Subset
<1>3. Len(events) + 1 \notin W
  <2>1. Len(events) + 1 \notin 1..Len(events)
    BY <1>1
  <2>2. QED
    BY <2>1
<1>4. V = IF Counts(e, f) /\ e.action = a THEN W \cup {Len(events) + 1} ELSE W
  <2>1. 1..Len(events') = 1..Len(events) \cup {Len(events) + 1}
    BY <1>1
  <2>2. QED
    BY <1>1, <2>1 DEF Counts
<1>5. Cardinality(W) \in Nat /\ Cardinality(W \cup {Len(events) + 1}) = Cardinality(W) + 1
  BY <1>2, <1>3, FS_CardinalityType, FS_AddElement
<1>6. RowsOf(events, f, a) = Cardinality(W) /\ RowsOf(events', f, a) = Cardinality(V)
  BY DEF RowsOf
<1> HIDE DEF W, V
<1>7. QED
  BY <1>4, <1>5, <1>6

\* A step of a request changes no other.
OnlyRequest(c) == \A d \in Clients \ {c} : req'[d] = req[d]

\* A request counts while its row is not written.
LEMMA UnwrittenStep ==
  ASSUME NEW c \in Clients, OnlyRequest(c),
         NEW f \in Injected, NEW a \in {"start", "stop"}
  PROVE  /\ RequestsOf(req, f, a) \in Nat
         /\ RequestsOf(req', f, a) = RequestsOf(req, f, a)
              + (IF Counts(req'[c], f) /\ req'[c].pc = a THEN 1 ELSE 0)
              - (IF Counts(req[c], f) /\ req[c].pc = a THEN 1 ELSE 0)
<1> DEFINE U == {d \in Clients : req[d].pc = a /\ req[d].fault = f /\ req[d].origin # ""}
           T == {d \in Clients : req'[d].pc = a /\ req'[d].fault = f /\ req'[d].origin # ""}
<1>1. IsFiniteSet(U)
  BY FaultEngineAssumption, FS_Subset
<1>2. \A d \in Clients \ {c} : req'[d] = req[d]
  BY DEF OnlyRequest
<1>3. T = IF Counts(req'[c], f) /\ req'[c].pc = a THEN U \cup {c} ELSE U \ {c}
  BY <1>2 DEF Counts
<1>4. c \in U <=> Counts(req[c], f) /\ req[c].pc = a
  BY DEF Counts
<1>5. /\ Cardinality(U) \in Nat
      /\ Cardinality(U \cup {c}) = IF c \in U THEN Cardinality(U) ELSE Cardinality(U) + 1
      /\ Cardinality(U \ {c}) = IF c \in U THEN Cardinality(U) - 1 ELSE Cardinality(U)
  BY <1>1, FS_CardinalityType, FS_AddElement, FS_RemoveElement
<1>6. RequestsOf(req, f, a) = Cardinality(U) /\ RequestsOf(req', f, a) = Cardinality(T)
  BY DEF RequestsOf
<1> HIDE DEF U, T
<1>7. QED
  BY <1>3, <1>4, <1>5, <1>6

-----------------------------------------------------------------------------
LEMMA InitIInv == Init => IInv
<1> SUFFICES ASSUME Init PROVE IInv
  OBVIOUS
<1>0. \A f \in Injected : active[f] = ""
  BY DEF Init
<1>1. Done \in Requests /\ RequestOK(Done)
  BY OriginFacts DEF Done, Requests, RequestOK
<1>2. Types
  <2>1. events \in Seq(Rows) /\ \A i \in 1..Len(events) : RowOK(events[i])
    <3>1. events = <<>>
      BY DEF Init
    <3>2. QED
      BY <3>1
  <2>2. requests \in 0..MaxRequests
    <3>1. requests = 0
      BY DEF Init
    <3>2. QED
      BY <3>1, FaultEngineAssumption
  <2>3. /\ active \in [Injected -> Origins]
        /\ \A f \in Injected : active[f] \in {faultOrigins[f], ""}
    BY OriginFacts DEF Init
  <2>4. lost \in [Injected -> [start : Nat, stop : Nat]]
    BY DEF Init
  <2>5. QED
    BY <1>1, <2>1, <2>2, <2>3, <2>4 DEF Init, Types
<1>3. StopClears
  BY DEF Init, StopClears, Done
<1>4. EventsAccountForFaults
  <2>1. Len(events) = 0
    BY DEF Init
  <2>2. ASSUME NEW f \in Injected, NEW a \in {"start", "stop"}
        PROVE  Begun(f, a) = 0
    <3>1. {i \in 1..Len(events) :
             events[i].fault = f /\ events[i].action = a /\ events[i].origin # ""} = {}
      BY <2>1
    <3>2. {c \in Clients : req[c].pc = a /\ req[c].fault = f /\ req[c].origin # ""} = {}
      BY DEF Init, Done
    <3>3. lost[f][a] = 0
      <4>1. lost[f] = [start |-> 0, stop |-> 0]
        BY DEF Init
      <4>2. CASE a = "start"
        BY <4>1, <4>2
      <4>3. CASE a = "stop"
        BY <4>1, <4>3
      <4>4. QED
        BY <4>2, <4>3
    <3>4. Written(f, a) = 0 /\ Unwritten(f, a) = 0
      BY <3>1, <3>2, FS_EmptySet DEF Written, Unwritten
    <3>5. QED
      BY <3>3, <3>4 DEF Begun
  <2>3. ASSUME NEW f \in Injected
        PROVE  Begun(f, "start") = Begun(f, "stop") + (IF active[f] = "" THEN 0 ELSE 1)
    <3> DEFINE s == Begun(f, "start")
               t == Begun(f, "stop")
    <3>1. s = 0 /\ t = 0
      BY <2>2
    <3>2. active[f] = ""
      BY <1>0
    <3> HIDE DEF s, t
    <3>3. s = t + 0
      BY <3>1
    <3>4. QED
      BY <3>2, <3>3 DEF s, t
  <2>4. QED
    BY <2>3 DEF EventsAccountForFaults
<1>5. QED
  BY <1>2, <1>3, <1>4 DEF IInv

\* What each handler leaves in req: the types are kept, and a row that will be written
\* knows its fault.
LEMMA RequestFacts ==
  ASSUME Types, NEW c \in Clients,
         \/ \E f \in Injected : Inject(c, f) \/ Deactivate(c, f)
         \/ Stop(c) \/ WriteStart(c) \/ WriteStop(c) \/ StopReturns(c)
  PROVE  /\ req' \in [Clients -> Requests] /\ OnlyRequest(c) /\ RequestOK(req'[c])
         /\ \A f \in Injected :
              /\ Inject(c, f) => /\ req'[c].pc = "start" /\ req'[c].fault = f
                                 /\ req'[c].origin = faultOrigins[f]
              /\ Deactivate(c, f) =>
                   /\ req'[c].pc = "stop" /\ req'[c].fault = f /\ req'[c].origin = active[f]
                   /\ req'[c].snapshot = req[c].snapshot /\ req'[c].todo = req[c].todo \ {f}
         /\ WriteStop(c) => /\ req'[c].pc = "next"
                            /\ req'[c].snapshot = req[c].snapshot /\ req'[c].todo = req[c].todo
         /\ Stop(c) => /\ req'[c].pc = "next"
                       /\ req'[c].todo = Actives /\ req'[c].snapshot = Actives
         /\ WriteStart(c) \/ StopReturns(c) => req'[c].pc = "idle"
<1>1. req \in [Clients -> Requests] /\ req[c] \in Requests /\ RequestOK(req[c])
  BY DEF Types
<1>2. \A f \in Injected : active[f] \in Origins /\ active[f] \in {faultOrigins[f], ""}
  BY DEF Types
<1>3. ASSUME NEW f \in Injected, Inject(c, f)
      PROVE  /\ req' \in [Clients -> Requests] /\ OnlyRequest(c) /\ RequestOK(req'[c])
             /\ req'[c].pc = "start" /\ req'[c].fault = f /\ req'[c].origin = faultOrigins[f]
  <2> DEFINE r == [Done EXCEPT !.pc = "start", !.fault = f, !.origin = faultOrigins[f]]
  <2>1. /\ r \in Requests /\ RequestOK(r)
        /\ r.pc = "start" /\ r.fault = f /\ r.origin = faultOrigins[f]
    BY OriginFacts DEF Done, Requests, RequestOK
  <2>2. req' = [req EXCEPT ![c] = r]
    BY <1>3 DEF Inject
  <2> HIDE DEF r
  <2>3. QED
    BY <1>1, <2>1, <2>2 DEF OnlyRequest
<1>4. ASSUME NEW f \in Injected, Deactivate(c, f)
      PROVE  /\ req' \in [Clients -> Requests] /\ OnlyRequest(c) /\ RequestOK(req'[c])
             /\ req'[c].pc = "stop" /\ req'[c].fault = f /\ req'[c].origin = active[f]
             /\ req'[c].snapshot = req[c].snapshot /\ req'[c].todo = req[c].todo \ {f}
  <2>1. /\ req' \in [Clients -> Requests] /\ OnlyRequest(c)
        /\ req'[c].pc = "stop" /\ req'[c].fault = f /\ req'[c].origin = active[f]
        /\ req'[c].snapshot = req[c].snapshot /\ req'[c].todo = req[c].todo \ {f}
    BY <1>1, <1>2, <1>4 DEF Deactivate, Requests, OnlyRequest
  <2>2. RequestOK(req'[c])
    BY <1>1, <1>2, <2>1 DEF RequestOK
  <2>3. QED
    BY <2>1, <2>2
<1>5. ASSUME WriteStop(c)
      PROVE  /\ req' \in [Clients -> Requests] /\ OnlyRequest(c) /\ RequestOK(req'[c])
             /\ req'[c].pc = "next"
             /\ req'[c].snapshot = req[c].snapshot /\ req'[c].todo = req[c].todo
  <2>1. /\ req' \in [Clients -> Requests] /\ OnlyRequest(c)
        /\ req'[c].pc = "next"
        /\ req'[c].snapshot = req[c].snapshot /\ req'[c].todo = req[c].todo
    BY <1>1, <1>5, OriginFacts DEF WriteStop, Requests, OnlyRequest
  <2>2. RequestOK(req'[c])
    BY <1>1, <2>1 DEF RequestOK
  <2>3. QED
    BY <2>1, <2>2
<1>6. ASSUME Stop(c)
      PROVE  /\ req' \in [Clients -> Requests] /\ OnlyRequest(c) /\ RequestOK(req'[c])
             /\ req'[c].pc = "next"
             /\ req'[c].todo = Actives /\ req'[c].snapshot = Actives
  <2> DEFINE r == [Done EXCEPT !.pc = "next", !.todo = Actives, !.snapshot = Actives]
  <2>1. /\ r \in Requests /\ RequestOK(r)
        /\ r.pc = "next" /\ r.todo = Actives /\ r.snapshot = Actives
    BY OriginFacts DEF Done, Requests, RequestOK, Actives
  <2>2. req' = [req EXCEPT ![c] = r]
    BY <1>6 DEF Stop
  <2> HIDE DEF r
  <2>3. QED
    BY <1>1, <2>1, <2>2 DEF OnlyRequest
<1>7. ASSUME WriteStart(c) \/ StopReturns(c)
      PROVE  /\ req' \in [Clients -> Requests] /\ OnlyRequest(c) /\ RequestOK(req'[c])
             /\ req'[c].pc = "idle"
  <2>1. Done \in Requests /\ RequestOK(Done) /\ Done.pc = "idle"
    BY OriginFacts DEF Done, Requests, RequestOK
  <2>2. req' = [req EXCEPT ![c] = Done]
    BY <1>7 DEF WriteStart, StopReturns
  <2>3. QED
    BY <1>1, <2>1, <2>2 DEF OnlyRequest
<1>8. QED
  BY <1>3, <1>4, <1>5, <1>6, <1>7

\* The row e is inserted, or it is lost.
Loses(e) == lost' = IF e.origin = "" THEN lost ELSE [lost EXCEPT ![e.fault][e.action] = @ + 1]

Writes(e) ==
  \/ events' = Append(events, e) /\ lost' = lost
  \/ Loses(e) /\ events' = events

\* A row is one of the two a request may write.
LEMMA RowFacts ==
  ASSUME Types, NEW c \in Clients
  PROVE  /\ WriteStart(c) => \E e \in Rows :
              /\ RowOK(e) /\ Writes(e)
              /\ e.action = "start" /\ e.fault = req[c].fault /\ e.origin = req[c].origin
         /\ WriteStop(c) => \E e \in Rows :
              /\ RowOK(e) /\ Writes(e)
              /\ e.action = "stop" /\ e.fault = req[c].fault /\ e.origin = req[c].origin
<1>1. req[c] \in Requests /\ RequestOK(req[c])
  BY DEF Types
<1>2. ASSUME NEW a \in {"start", "stop"}, req[c].pc = a,
             writeFaultEvent(req[c].fault, a, req[c].origin)
      PROVE  \E e \in Rows :
               /\ RowOK(e) /\ Writes(e)
               /\ e.action = a /\ e.fault = req[c].fault /\ e.origin = req[c].origin
  <2> DEFINE e == Event(req[c].fault, a, req[c].origin)
  <2>1. e \in Rows /\ RowOK(e)
    BY <1>1, <1>2 DEF Event, Rows, RowOK, Requests, RequestOK
  <2>2. e.action = a /\ e.fault = req[c].fault /\ e.origin = req[c].origin
    BY DEF Event
  <2>3. Writes(e)
    BY <1>2, <2>2 DEF writeFaultEvent, Writes, Loses
  <2> HIDE DEF e
  <2>4. QED
    BY <2>1, <2>2, <2>3
<1>3. QED
  BY <1>2 DEF WriteStart, WriteStop

LEMMA TypesStep ==
  ASSUME Types, [Next]_vars
  PROVE  Types'
<1>1. ASSUME NEW c \in Clients,
             \/ \E f \in Injected : Inject(c, f) \/ Deactivate(c, f)
             \/ Stop(c) \/ WriteStart(c) \/ WriteStop(c) \/ StopReturns(c)
      PROVE  req' \in [Clients -> Requests] /\ \A d \in Clients : RequestOK(req'[d])
  <2>1. req' \in [Clients -> Requests] /\ OnlyRequest(c) /\ RequestOK(req'[c])
    BY <1>1, RequestFacts
  <2>2. QED
    BY <2>1 DEF OnlyRequest, Types
<1>2. ASSUME requests' = requests + 1, requests < MaxRequests PROVE requests' \in 0..MaxRequests
  <2>1. requests \in 0..MaxRequests /\ MaxRequests \in Nat
    BY FaultEngineAssumption DEF Types
  <2>2. QED
    BY <1>2, <2>1
<1>3. ASSUME NEW c \in Clients, NEW f \in Injected, Inject(c, f) PROVE Types'
  <2>1. /\ active' \in [Injected -> Origins]
        /\ \A g \in Injected : active'[g] \in {faultOrigins[g], ""}
    BY <1>3, OriginFacts DEF Inject, Types
  <2>2. since' \in [Clients -> SUBSET Injected]
    BY <1>3 DEF Inject, Types
  <2>3. QED
    BY <1>1, <1>2, <1>3, <2>1, <2>2 DEF Inject, Types
<1>4. ASSUME NEW c \in Clients, NEW f \in Injected, Deactivate(c, f) PROVE Types'
  <2>1. /\ active' \in [Injected -> Origins]
        /\ \A g \in Injected : active'[g] \in {faultOrigins[g], ""}
    BY <1>4, OriginFacts DEF Deactivate, Types
  <2>2. QED
    BY <1>1, <1>4, <2>1 DEF Deactivate, Types
<1>5. ASSUME NEW c \in Clients, Stop(c) PROVE Types'
  <2>1. since' \in [Clients -> SUBSET Injected]
    BY <1>5 DEF Stop, Types
  <2>2. QED
    BY <1>1, <1>2, <1>5, <2>1 DEF Stop, Types
<1>6. ASSUME NEW c \in Clients, WriteStart(c) \/ WriteStop(c) PROVE Types'
  <2>1. PICK e \in Rows : RowOK(e) /\ Writes(e)
    BY <1>6, RowFacts
  <2>2. /\ events \in Seq(Rows)
        /\ \A i \in 1..Len(events) : RowOK(events[i])
        /\ lost \in [Injected -> [start : Nat, stop : Nat]]
    BY DEF Types
  <2>3. ASSUME events' = Append(events, e)
        PROVE  events' \in Seq(Rows) /\ \A i \in 1..Len(events') : RowOK(events'[i])
    <3>1. /\ Len(events) \in Nat /\ Len(events') = Len(events) + 1 /\ events' \in Seq(Rows)
          /\ events'[Len(events) + 1] = e
          /\ \A i \in 1..Len(events) : events'[i] = events[i]
      BY <2>2, <2>3
    <3>2. \A i \in 1..Len(events') : i \in 1..Len(events) \/ i = Len(events) + 1
      BY <3>1
    <3>3. QED
      BY <2>1, <2>2, <3>1, <3>2
  <2>4. [lost EXCEPT ![e.fault][e.action] = @ + 1] \in [Injected -> [start : Nat, stop : Nat]]
    BY <2>2 DEF Rows
  <2>5. /\ events' \in Seq(Rows) /\ \A i \in 1..Len(events') : RowOK(events'[i])
        /\ lost' \in [Injected -> [start : Nat, stop : Nat]]
    BY <2>1, <2>2, <2>3, <2>4 DEF Writes, Loses
  <2>6. QED
    BY <1>1, <1>6, <2>5 DEF WriteStart, WriteStop, Types
<1>7. ASSUME NEW c \in Clients, StopReturns(c) PROVE Types'
  BY <1>1, <1>7 DEF StopReturns, Types
<1>8. CASE UNCHANGED vars
  BY <1>8 DEF vars, Types
<1>9. QED
  BY <1>3, <1>4, <1>5, <1>6, <1>7, <1>8 DEF Next

\* Every step keeps the balance: an activation that is begun is a start row to be written,
\* a written or lost row replaces one to be written, and of the requests that deactivate a
\* fault the first takes its origin with it.
BegunIn(ev, ls, rq, f, a) == RowsOf(ev, f, a) + RequestsOf(rq, f, a) + ls[f][a]

Balanced(ev, ls, rq, h, f) ==
  BegunIn(ev, ls, rq, f, "start")
    = BegunIn(ev, ls, rq, f, "stop") + (IF h[f] = "" THEN 0 ELSE 1)

LEMMA CountTypes ==
  ASSUME Types, NEW f \in Injected, NEW a \in {"start", "stop"}
  PROVE  /\ RowsOf(events, f, a) \in Nat /\ RequestsOf(req, f, a) \in Nat
         /\ lost[f][a] \in Nat /\ BegunIn(events, lost, req, f, a) \in Nat
<1>1. IsFiniteSet(1..Len(events))
  <2>1. events \in Seq(Rows)
    BY DEF Types
  <2>2. Len(events) \in Nat
    BY <2>1
  <2>3. QED
    BY <2>2, FS_Interval
<1>2. IsFiniteSet({i \in 1..Len(events) :
        events[i].fault = f /\ events[i].action = a /\ events[i].origin # ""})
  BY <1>1, FS_Subset
<1>3. IsFiniteSet({c \in Clients : req[c].pc = a /\ req[c].fault = f /\ req[c].origin # ""})
  BY FaultEngineAssumption, FS_Subset
<1>4. RowsOf(events, f, a) \in Nat /\ RequestsOf(req, f, a) \in Nat
  BY <1>2, <1>3, FS_CardinalityType DEF RowsOf, RequestsOf
<1>5. lost[f][a] \in Nat
  <2>1. lost[f] \in [start : Nat, stop : Nat]
    BY DEF Types
  <2>2. QED
    BY <2>1
<1>6. QED
  BY <1>4, <1>5 DEF BegunIn

\* A row that is lost adds one to the count of its fault and action, when it has an origin.
LEMMA LostStep ==
  ASSUME Types, NEW e \in Rows, Loses(e),
         NEW f \in Injected, NEW a \in {"start", "stop"}
  PROVE  lost'[f][a] = lost[f][a] + (IF Counts(e, f) /\ e.action = a THEN 1 ELSE 0)
<1>1. lost \in [Injected -> [start : Nat, stop : Nat]] /\ lost[f][a] \in Nat
  BY CountTypes DEF Types
<1>2. e.fault \in Injected /\ e.action \in {"start", "stop"}
  BY DEF Rows
<1>3. CASE Counts(e, f) /\ e.action = a
  <2>1. lost' = [lost EXCEPT ![f][a] = @ + 1]
    BY <1>3 DEF Counts, Loses
  <2>2. lost[f] \in [start : Nat, stop : Nat] /\ lost'[f] = [lost[f] EXCEPT ![a] = @ + 1]
    BY <1>1, <2>1
  <2>3. lost'[f][a] = lost[f][a] + 1
    BY <2>2
  <2>4. QED
    BY <1>3, <2>3
<1>4. CASE ~(Counts(e, f) /\ e.action = a)
  <2>1. lost'[f][a] = lost[f][a]
    <3>1. CASE e.origin = ""
      BY <3>1 DEF Loses
    <3>2. CASE e.origin # "" /\ e.fault # f
      BY <1>1, <1>2, <3>2 DEF Loses
    <3>3. CASE e.origin # "" /\ e.fault = f
      <4>1. e.action # a
        BY <1>4, <3>3 DEF Counts
      <4>2. lost[f] \in [start : Nat, stop : Nat] /\ lost'[f] = [lost[f] EXCEPT ![e.action] = @ + 1]
        BY <1>1, <3>3 DEF Loses
      <4>3. QED
        BY <4>1, <4>2
    <3>4. QED
      BY <3>1, <3>2, <3>3
  <2>2. QED
    BY <1>1, <1>4, <2>1
<1>5. QED
  BY <1>3, <1>4

\* A row that is written, or lost, takes the place of the one its request was about to
\* write.
LEMMA WriteStep ==
  ASSUME Types, NEW c \in Clients, WriteStart(c) \/ WriteStop(c),
         NEW f \in Injected, NEW a \in {"start", "stop"}
  PROVE  BegunIn(events', lost', req', f, a) = BegunIn(events, lost, req, f, a)
<1>1. PICK e \in Rows : /\ Writes(e)
                        /\ e.action = req[c].pc /\ e.fault = req[c].fault
                        /\ e.origin = req[c].origin
  BY RowFacts, ZenonT(40) DEF WriteStart, WriteStop
<1>2. OnlyRequest(c) /\ req'[c].pc \notin {"start", "stop"}
  BY RequestFacts
<1> DEFINE one == IF Counts(e, f) /\ e.action = a THEN 1 ELSE 0
<1>3. RowsOf(events, f, a) \in Nat /\ RequestsOf(req, f, a) \in Nat /\ lost[f][a] \in Nat
  BY CountTypes
<1>4. one \in Nat
  OBVIOUS
<1>5. RequestsOf(req', f, a) = RequestsOf(req, f, a) - one
  <2>1. RequestsOf(req', f, a) = RequestsOf(req, f, a)
          + (IF Counts(req'[c], f) /\ req'[c].pc = a THEN 1 ELSE 0)
          - (IF Counts(req[c], f) /\ req[c].pc = a THEN 1 ELSE 0)
    BY <1>2, UnwrittenStep
  <2>2. Counts(e, f) /\ e.action = a <=> Counts(req[c], f) /\ req[c].pc = a
    BY <1>1 DEF Counts
  <2>3. QED
    BY <1>2, <1>3, <2>1, <2>2
<1>6. CASE events' = Append(events, e) /\ lost' = lost
  <2>1. RowsOf(events', f, a) = RowsOf(events, f, a) + one
    BY <1>6, WrittenStep DEF Types
  <2> HIDE DEF one
  <2>2. QED
    BY <1>3, <1>4, <1>5, <1>6, <2>1 DEF BegunIn
<1>7. CASE Loses(e) /\ events' = events
  <2>1. lost'[f][a] = lost[f][a] + one
    BY <1>7, LostStep
  <2> HIDE DEF one
  <2>2. RowsOf(events', f, a) = RowsOf(events, f, a)
    BY <1>7
  <2>3. QED
    BY <1>3, <1>4, <1>5, <2>1, <2>2 DEF BegunIn
<1>8. QED
  BY <1>1, <1>6, <1>7 DEF Writes

\* What a step that writes no row does to the counts: the request c may begin to write a
\* row of one kind.
LEMMA RequestStep ==
  ASSUME Types, NEW c \in Clients, OnlyRequest(c), events' = events, lost' = lost,
         req[c].pc \notin {"start", "stop"},
         NEW f \in Injected, NEW a \in {"start", "stop"}
  PROVE  BegunIn(events', lost', req', f, a) =
           BegunIn(events, lost, req, f, a)
             + (IF Counts(req'[c], f) /\ req'[c].pc = a THEN 1 ELSE 0)
<1>1. RowsOf(events, f, a) \in Nat /\ RequestsOf(req, f, a) \in Nat /\ lost[f][a] \in Nat
  BY CountTypes
<1>2. RowsOf(events', f, a) = RowsOf(events, f, a) /\ lost'[f][a] = lost[f][a]
  OBVIOUS
<1>3. RequestsOf(req', f, a) = RequestsOf(req, f, a)
        + (IF Counts(req'[c], f) /\ req'[c].pc = a THEN 1 ELSE 0)
        - (IF Counts(req[c], f) /\ req[c].pc = a THEN 1 ELSE 0)
  BY UnwrittenStep
<1>4. ~(req[c].pc = a)
  OBVIOUS
<1>5. QED
  BY <1>1, <1>2, <1>3, <1>4 DEF BegunIn

\* A fault goes on or off with the request that will write its row.
LEMMA ActiveStep ==
  ASSUME Types, NEW f \in Injected, NEW c \in Clients,
         \/ \E g \in Injected : Inject(c, g) \/ Deactivate(c, g)
         \/ Stop(c) \/ StopReturns(c)
  PROVE  \/ /\ ~Counts(req'[c], f) \/ req'[c].pc \notin {"start", "stop"}
            /\ active'[f] = active[f]
         \/ Counts(req'[c], f) /\ req'[c].pc = "start" /\ active[f] = "" /\ active'[f] # ""
         \/ Counts(req'[c], f) /\ req'[c].pc = "stop" /\ active[f] # "" /\ active'[f] = ""
<1>1. ASSUME NEW g \in Injected, Inject(c, g)
      PROVE  IF f = g THEN /\ Counts(req'[c], f) /\ req'[c].pc = "start"
                           /\ active[f] = "" /\ active'[f] # ""
                      ELSE ~Counts(req'[c], f) /\ active'[f] = active[f]
  <2>1. req'[c].pc = "start" /\ req'[c].fault = g /\ req'[c].origin # ""
    BY <1>1, RequestFacts, OriginFacts
  <2>2. active[g] = "" /\ active'[g] # "" /\ (f # g => active'[f] = active[f])
    BY <1>1, OriginFacts DEF Inject, Types
  <2>3. QED
    BY <2>1, <2>2 DEF Counts
<1>2. ASSUME NEW g \in Injected, Deactivate(c, g)
      PROVE  IF f = g THEN /\ Counts(req'[c], f) <=> active[f] # ""
                           /\ req'[c].pc = "stop" /\ active'[f] = ""
                      ELSE ~Counts(req'[c], f) /\ active'[f] = active[f]
  <2>1. req'[c].pc = "stop" /\ req'[c].fault = g /\ req'[c].origin = active[g]
    BY <1>2, RequestFacts
  <2>2. active'[g] = "" /\ (f # g => active'[f] = active[f])
    BY <1>2 DEF Deactivate, Types
  <2>3. QED
    BY <2>1, <2>2 DEF Counts
<1>3. ASSUME Stop(c) \/ StopReturns(c)
      PROVE  req'[c].pc \notin {"start", "stop"} /\ active' = active
  BY <1>3, RequestFacts DEF Stop, StopReturns
<1>4. QED
  BY <1>1, <1>2, <1>3

LEMMA BalanceStep ==
  ASSUME Types, [Next]_vars, NEW f \in Injected, Balanced(events, lost, req, active, f)
  PROVE  Balanced(events', lost', req', active', f)
<1> DEFINE s == BegunIn(events, lost, req, f, "start")
           t == BegunIn(events, lost, req, f, "stop")
           ss == BegunIn(events', lost', req', f, "start")
           tt == BegunIn(events', lost', req', f, "stop")
<1>1. s \in Nat /\ t \in Nat
  BY CountTypes
<1>2. /\ Balanced(events, lost, req, active, f) <=> s = t + (IF active[f] = "" THEN 0 ELSE 1)
      /\ Balanced(events', lost', req', active', f) <=> ss = tt + (IF active'[f] = "" THEN 0 ELSE 1)
  BY DEF Balanced
<1>3. CASE UNCHANGED vars
  BY <1>3 DEF vars
<1>4. ASSUME NEW c \in Clients, WriteStart(c) \/ WriteStop(c)
      PROVE  Balanced(events', lost', req', active', f)
  <2>1. active' = active
    BY <1>4 DEF WriteStart, WriteStop
  <2>2. ss = s /\ tt = t
    BY <1>4, WriteStep
  <2> HIDE DEF s, t, ss, tt
  <2>3. QED
    BY <1>2, <2>1, <2>2
<1>5. ASSUME NEW c \in Clients,
             \/ \E g \in Injected : Inject(c, g) \/ Deactivate(c, g)
             \/ Stop(c) \/ StopReturns(c)
      PROVE  Balanced(events', lost', req', active', f)
  <2>1. OnlyRequest(c) /\ events' = events /\ lost' = lost /\ req[c].pc \notin {"start", "stop"}
    BY <1>5, RequestFacts DEF Inject, Deactivate, Stop, StopReturns
  <2>2. /\ ss = s + (IF Counts(req'[c], f) /\ req'[c].pc = "start" THEN 1 ELSE 0)
        /\ tt = t + (IF Counts(req'[c], f) /\ req'[c].pc = "stop" THEN 1 ELSE 0)
    BY <2>1, RequestStep
  <2> HIDE DEF s, t, ss, tt
  <2>3. CASE /\ ~Counts(req'[c], f) \/ req'[c].pc \notin {"start", "stop"}
             /\ active'[f] = active[f]
    <3>1. ss = s /\ tt = t
      BY <1>1, <2>2, <2>3
    <3>2. QED
      BY <1>2, <2>3, <3>1
  <2>4. CASE Counts(req'[c], f) /\ req'[c].pc = "start" /\ active[f] = "" /\ active'[f] # ""
    BY <1>1, <1>2, <2>2, <2>4
  <2>5. CASE Counts(req'[c], f) /\ req'[c].pc = "stop" /\ active[f] # "" /\ active'[f] = ""
    BY <1>1, <1>2, <2>2, <2>5
  <2>6. QED
    BY <1>5, <2>3, <2>4, <2>5, ActiveStep
<1>6. QED
  BY <1>3, <1>4, <1>5 DEF Next

\* A fault that a stop has dealt with comes back only when it is injected.
LEMMA StopClearsStep ==
  ASSUME Types, StopClears, [Next]_vars
  PROVE  StopClears'
<1>1. CASE UNCHANGED vars
  BY <1>1 DEF vars, StopClears, Actives
<1>2. ASSUME NEW c \in Clients,
             \/ \E f \in Injected : Inject(c, f) \/ Deactivate(c, f)
             \/ Stop(c) \/ WriteStart(c) \/ WriteStop(c) \/ StopReturns(c)
      PROVE  StopClears'
  <2>1. \A d \in Clients \ {c} : req'[d] = req[d]
    BY <1>2, RequestFacts DEF OnlyRequest
  <2>2. CASE WriteStop(c)
    <3>1. /\ req[c].pc = "stop" /\ active' = active /\ since' = since
          /\ req'[c].snapshot = req[c].snapshot /\ req'[c].todo = req[c].todo
      BY <2>2, RequestFacts DEF WriteStop
    <3>2. QED
      BY <2>1, <3>1 DEF StopClears, Actives
  <2>3. CASE WriteStart(c) \/ StopReturns(c)
    <3>1. req'[c].pc = "idle" /\ active' = active /\ since' = since
      BY <2>3, RequestFacts DEF WriteStart, StopReturns
    <3>2. QED
      BY <2>1, <3>1 DEF StopClears, Actives
  <2>4. CASE Stop(c)
    <3>1. /\ req'[c].todo = Actives /\ req'[c].snapshot = Actives
          /\ active' = active /\ \A d \in Clients \ {c} : since'[d] = since[d]
      BY <2>4, RequestFacts DEF Stop, Types
    <3>2. QED
      BY <2>1, <3>1 DEF StopClears, Actives
  <2>5. ASSUME NEW f \in Injected, Inject(c, f) PROVE StopClears'
    <3>1. req'[c].pc = "start"
      BY <2>5, RequestFacts
    <3>2. /\ \A d \in Clients : since'[d] = since[d] \cup {f}
          /\ \A g \in Injected : g # f => active'[g] = active[g]
      BY <2>5 DEF Inject, Types
    <3>3. Actives' \subseteq Actives \cup {f}
      BY <3>2 DEF Actives
    <3>4. QED
      BY <2>1, <3>1, <3>2, <3>3 DEF StopClears
  <2>6. ASSUME NEW f \in Injected, Deactivate(c, f) PROVE StopClears'
    <3>1. /\ req[c].pc = "next" /\ since' = since
          /\ req'[c].snapshot = req[c].snapshot /\ req'[c].todo = req[c].todo \ {f}
      BY <2>6, RequestFacts DEF Deactivate
    <3>2. Actives' = Actives \ {f}
      BY <2>6 DEF Deactivate, Types, Actives
    <3>3. QED
      BY <2>1, <3>1, <3>2 DEF StopClears
  <2>7. QED
    BY <1>2, <2>2, <2>3, <2>4, <2>5, <2>6
<1>3. QED
  BY <1>1, <1>2 DEF Next

-----------------------------------------------------------------------------
LEMMA IInvStep == IInv /\ [Next]_vars => IInv'
<1> SUFFICES ASSUME IInv, [Next]_vars PROVE IInv'
  OBVIOUS
<1>1. Types /\ EventsAccountForFaults /\ StopClears
  BY DEF IInv
<1>2. Types' /\ StopClears'
  BY <1>1, TypesStep, StopClearsStep
<1>3. EventsAccountForFaults'
  <2>1. \A f \in Injected : Balanced(events, lost, req, active, f)
    BY <1>1 DEF EventsAccountForFaults, Balanced, Begun, BegunIn, Written, Unwritten, RowsOf,
       RequestsOf
  <2>2. \A f \in Injected : Balanced(events', lost', req', active', f)
    BY <1>1, <2>1, BalanceStep
  <2>3. QED
    BY <2>2 DEF EventsAccountForFaults, Balanced, Begun, BegunIn, Written, Unwritten, RowsOf,
       RequestsOf
<1>4. QED
  BY <1>2, <1>3 DEF IInv

LEMMA IInvHolds == Spec => []IInv
BY InitIInv, IInvStep, PTL DEF Spec

\* The active map, the rows and the requests keep their types: no row is written for a
\* fault nobody injected (Activate, Deactivate).
THEOREM TypesHold == Spec => []TypeOK
<1>1. IInv => TypeOK
  <2> SUFFICES ASSUME Types PROVE TypeOK
    BY DEF IInv
  <2>1. \A i \in 1..Len(events) : events[i].fault \in Injected /\ RowOK(events[i])
    <3>1. events \in Seq(Rows) /\ \A i \in 1..Len(events) : RowOK(events[i])
      BY DEF Types
    <3>2. \A i \in 1..Len(events) : events[i] \in Rows
      BY <3>1
    <3>3. QED
      BY <3>1, <3>2 DEF Rows
  <2>2. \A c \in Clients : /\ req[c].pc \in {"idle", "start", "next", "stop"}
                           /\ req[c].todo \subseteq req[c].snapshot
                           /\ req[c].snapshot \subseteq Injected
    BY DEF Types, Requests, RequestOK
  <2>3. QED
    BY <2>1, <2>2 DEF Types, TypeOK, Origins, RowOK
<1>2. QED
  BY <1>1, IInvHolds, PTL

\* However many requests race, an activation has at most one start row and the stop that
\* ended it at most one stop row with an origin: none is missing but those still to be
\* written and those whose INSERT failed (writeFaultEvent after the lock is released).
THEOREM EventsAreAccountedFor == Spec => []EventsAccountForFaults
<1>1. IInv => EventsAccountForFaults
  BY DEF IInv
<1>2. QED
  BY <1>1, IInvHolds, PTL

\* A stop or reset request leaves no fault of its snapshot on, but those that were
\* injected while it ran.
THEOREM StopLeavesNothingOn == Spec => []StopClears
<1>1. IInv => StopClears
  BY DEF IInv
<1>2. QED
  BY <1>1, IInvHolds, PTL

-----------------------------------------------------------------------------
(* The context of a service.                                               *)

\* The contexts of a service while the loop of GetFaultContext goes through the map.
AreContexts(ctx, order, service) ==
  ctx = [i \in 0..Len(order) |->
           IF i = 0 THEN NoContext ELSE Apply(ctx[i - 1], order[i], service)]

Contexts(order, service) == CHOOSE ctx : AreContexts(ctx, order, service)

LEMMA ContextAfterIsLast ==
  ASSUME NEW order, NEW service
  PROVE  ContextAfter(order, service) = Contexts(order, service)[Len(order)]
BY DEF ContextAfter, Contexts, AreContexts

LEMMA ContextsExist ==
  ASSUME NEW order, NEW service, Len(order) \in Nat
  PROVE  \E ctx : AreContexts(ctx, order, service)
<1> DEFINE Good(ctx, n) == \A i \in 0..n : ctx[i] = IF i = 0 THEN NoContext
                                                   ELSE Apply(ctx[i - 1], order[i], service)
           C == {n \in Nat : \E ctx : Good(ctx, n)}
<1>1. 0 \in C
  <2>1. Good([i \in {0} |-> NoContext], 0)
    OBVIOUS
  <2> QED BY <2>1
<1>2. ASSUME NEW n \in Nat, n \in C
      PROVE  n + 1 \in C
  <2>1. PICK ctx : Good(ctx, n)
    BY <1>2
  <2> DEFINE next == [i \in 0..(n + 1) |-> IF i <= n THEN ctx[i]
                                           ELSE Apply(ctx[n], order[n + 1], service)]
  <2>2. ASSUME NEW i \in 0..(n + 1)
        PROVE  next[i] = IF i = 0 THEN NoContext ELSE Apply(next[i - 1], order[i], service)
    <3>1. CASE i <= n /\ i # 0
      <4>1. i \in 0..n /\ i - 1 \in 0..(n + 1) /\ i - 1 <= n
        BY <3>1
      <4>2. next[i] = ctx[i] /\ next[i - 1] = ctx[i - 1]
        BY <3>1, <4>1
      <4> QED BY <2>1, <3>1, <4>1, <4>2
    <3>2. CASE i = 0
      BY <2>1, <3>2
    <3>3. CASE i = n + 1
      <4>1. ~(i <= n) /\ i # 0 /\ i - 1 = n /\ n \in 0..(n + 1)
        BY <3>3
      <4>2. next[i] = Apply(ctx[n], order[n + 1], service) /\ next[n] = ctx[n]
        BY <4>1
      <4> QED BY <3>3, <4>1, <4>2
    <3>4. i <= n \/ i = n + 1
      OBVIOUS
    <3> QED BY <3>1, <3>2, <3>3, <3>4
  <2> HIDE DEF next
  <2>3. Good(next, n + 1)
    BY <2>2
  <2> QED BY <2>3
<1>3. Nat \subseteq C
  <2> HIDE DEF C
  <2> QED BY <1>1, <1>2, NatInductionOnSet
<1>4. PICK ctx : Good(ctx, Len(order))
  BY <1>3
<1> DEFINE all == [i \in 0..Len(order) |-> ctx[i]]
<1>5. ASSUME NEW i \in 0..Len(order)
      PROVE  all[i] = IF i = 0 THEN NoContext ELSE Apply(all[i - 1], order[i], service)
  <2>1. CASE i = 0
    BY <1>4, <2>1
  <2>2. CASE i # 0
    <3>1. i - 1 \in 0..Len(order)
      BY <2>2
    <3> QED BY <1>4, <2>2, <3>1
  <2> QED BY <2>1, <2>2
<1>6. AreContexts(all, order, service)
  <2>1. all = [i \in 0..Len(order) |-> all[i]]
    OBVIOUS
  <2> HIDE DEF all
  <2> QED BY <1>5, <2>1 DEF AreContexts
<1> QED BY <1>6

LEMMA ContextsEquation ==
  ASSUME NEW order, NEW service, Len(order) \in Nat
  PROVE  LET ctx == Contexts(order, service) IN
         /\ ctx[0] = NoContext
         /\ \A i \in 1..Len(order) : ctx[i] = Apply(ctx[i - 1], order[i], service)
<1> DEFINE ctx == Contexts(order, service)
<1>1. AreContexts(ctx, order, service)
  BY ContextsExist DEF Contexts
<1> HIDE DEF ctx
<1>2. \A i \in 0..Len(order) :
         ctx[i] = IF i = 0 THEN NoContext ELSE Apply(ctx[i - 1], order[i], service)
  BY <1>1 DEF AreContexts
<1>3. 0 \in 0..Len(order) /\ \A i \in 1..Len(order) : i \in 0..Len(order) /\ i # 0
  OBVIOUS
<1> QED BY <1>2, <1>3 DEF ctx

Context == [drop : BOOLEAN, delayMs : Nat, crash : BOOLEAN, errorPct : Nat, multiplier : Nat]

\* apply sets the fields of its fault and leaves the others alone.
LEMMA ApplyFacts ==
  ASSUME NEW ctx \in Context, NEW fault \in AllFaults, NEW service \in Services
  PROVE  LET next == Apply(ctx, fault, service) IN
         /\ next \in Context
         /\ IF ErrorWritten(fault, service) = {} THEN next.errorPct = ctx.errorPct
            ELSE ErrorWritten(fault, service) = {next.errorPct}
         /\ next.crash <=> ctx.crash \/ (fault = CascadingFailure /\ service = "payment")
         /\ next.delayMs > 0 <=>
              ctx.delayMs > 0 \/ (fault = DownstreamTimeout /\ service = "payment")
<1> USE DEF Context, Apply, ErrorWritten, PoisonPill, DownstreamTimeout, TrafficSpike,
            CascadingFailure, IntermittentErrors, NotificationFailure
<1>1. CASE fault = PoisonPill
  BY <1>1
<1>2. CASE fault = DownstreamTimeout
  BY <1>2
<1>3. CASE fault = TrafficSpike
  BY <1>3
<1>4. CASE fault = CascadingFailure
  <2>1. Apply(ctx, fault, service) = IF service = "payment" THEN [ctx EXCEPT !.crash = TRUE] ELSE ctx
    BY <1>4
  <2>2. ErrorWritten(fault, service) = {} /\ fault # DownstreamTimeout
    BY <1>4
  <2> HIDE DEF Apply, ErrorWritten, PoisonPill, DownstreamTimeout, TrafficSpike,
               CascadingFailure, IntermittentErrors, NotificationFailure
  <2>3. CASE service = "payment"
    BY <1>4, <2>1, <2>2, <2>3
  <2>4. CASE service # "payment"
    BY <1>4, <2>1, <2>2, <2>4
  <2> QED BY <2>3, <2>4
<1>5. CASE fault = IntermittentErrors
  <2>1. Apply(ctx, fault, service) = [ctx EXCEPT !.errorPct = 15]
    BY <1>5
  <2>2. ErrorWritten(fault, service) = {15}
    BY <1>5
  <2> QED BY <1>5, <2>1, <2>2
<1>6. CASE fault = NotificationFailure
  BY <1>6
<1>7. \/ fault = PoisonPill \/ fault = DownstreamTimeout \/ fault = TrafficSpike
      \/ fault = CascadingFailure \/ fault = IntermittentErrors \/ fault = NotificationFailure
  BY DEF AllFaults
<1> HIDE DEF Context, Apply, ErrorWritten, PoisonPill, DownstreamTimeout, TrafficSpike,
             CascadingFailure, IntermittentErrors, NotificationFailure
<1> QED BY <1>1, <1>2, <1>3, <1>4, <1>5, <1>6, <1>7

\* The last writer of the probability is the one that counts; a crash and a delay stay.
WrittenBy(ctx, order, n, service) ==
  /\ ctx \in Context
  /\ \/ ctx.errorPct = 0 /\ \A j \in 1..n : ErrorWritten(order[j], service) = {}
     \/ \E j \in 1..n : ErrorWritten(order[j], service) = {ctx.errorPct}
  /\ ctx.crash <=> \E j \in 1..n : order[j] = CascadingFailure /\ service = "payment"
  /\ ctx.delayMs > 0 <=> \E j \in 1..n : order[j] = DownstreamTimeout /\ service = "payment"

LEMMA OneMore ==
  ASSUME NEW n \in Nat, NEW order, order[n + 1] \in AllFaults, NEW service \in Services,
         NEW ctx, WrittenBy(ctx, order, n, service)
  PROVE  LET next == Apply(ctx, order[n + 1], service) IN
         /\ WrittenBy(next, order, n + 1, service)
         /\ ErrorWritten(order[n + 1], service) # {} =>
              ErrorWritten(order[n + 1], service) = {next.errorPct}
<1> DEFINE next == Apply(ctx, order[n + 1], service)
           f == order[n + 1]
<1>1. ctx \in Context
  BY DEF WrittenBy
<1>2. /\ next \in Context
      /\ ErrorWritten(f, service) = {} => next.errorPct = ctx.errorPct
      /\ ErrorWritten(f, service) # {} => ErrorWritten(f, service) = {next.errorPct}
      /\ next.crash <=> ctx.crash \/ (f = CascadingFailure /\ service = "payment")
      /\ next.delayMs > 0 <=> ctx.delayMs > 0 \/ (f = DownstreamTimeout /\ service = "payment")
  BY <1>1, ApplyFacts
<1>3. n + 1 \in 1..(n + 1) /\ (\A j \in 1..n : j \in 1..(n + 1))
      /\ \A j \in 1..(n + 1) : j \in 1..n \/ j = n + 1
  OBVIOUS
<1> HIDE DEF next
<1>4. \/ next.errorPct = 0 /\ \A j \in 1..(n + 1) : ErrorWritten(order[j], service) = {}
      \/ \E j \in 1..(n + 1) : ErrorWritten(order[j], service) = {next.errorPct}
  <2>1. CASE ErrorWritten(f, service) = {}
    <3>1. CASE ctx.errorPct = 0 /\ \A j \in 1..n : ErrorWritten(order[j], service) = {}
      BY <1>2, <1>3, <2>1, <3>1
    <3>2. CASE \E j \in 1..n : ErrorWritten(order[j], service) = {ctx.errorPct}
      BY <1>2, <1>3, <2>1, <3>2
    <3> QED BY <3>1, <3>2 DEF WrittenBy
  <2>2. CASE ErrorWritten(f, service) # {}
    BY <1>2, <1>3, <2>2
  <2> QED BY <2>1, <2>2
<1>5. next.crash <=> \E j \in 1..(n + 1) : order[j] = CascadingFailure /\ service = "payment"
  BY <1>2, <1>3 DEF WrittenBy
<1>6. next.delayMs > 0 <=> \E j \in 1..(n + 1) : order[j] = DownstreamTimeout /\ service = "payment"
  BY <1>2, <1>3 DEF WrittenBy
<1>7. WrittenBy(next, order, n + 1, service)
  BY <1>2, <1>4, <1>5, <1>6 DEF WrittenBy
<1> QED BY <1>2, <1>7 DEF next

LEMMA ContextIsWritten ==
  ASSUME NEW order, Len(order) \in Nat, \A i \in 1..Len(order) : order[i] \in AllFaults,
         NEW service \in Services
  PROVE  LET ctx == ContextAfter(order, service)
             n   == Len(order)
         IN  /\ WrittenBy(ctx, order, n, service)
             /\ n > 0 /\ ErrorWritten(order[n], service) # {} =>
                  ErrorWritten(order[n], service) = {ctx.errorPct}
<1> DEFINE ctx == Contexts(order, service)
           n == Len(order)
           C == {i \in Nat : i <= n => WrittenBy(ctx[i], order, i, service)}
<1>1. ctx[0] = NoContext /\ \A i \in 1..n : ctx[i] = Apply(ctx[i - 1], order[i], service)
  BY ContextsEquation
<1> HIDE DEF ctx
<1>2. 0 \in C
  <2>1. NoContext \in Context
    BY DEF NoContext, Context
  <2>2. NoContext.errorPct = 0 /\ ~NoContext.crash /\ ~(NoContext.delayMs > 0)
    BY DEF NoContext
  <2>3. 1..0 = {}
    OBVIOUS
  <2>4. WrittenBy(NoContext, order, 0, service)
    BY <2>1, <2>2, <2>3 DEF WrittenBy
  <2> QED BY <1>1, <2>4
<1>3. ASSUME NEW i \in Nat, i \in C
      PROVE  i + 1 \in C
  <2> SUFFICES ASSUME i + 1 <= n PROVE WrittenBy(ctx[i + 1], order, i + 1, service)
    OBVIOUS
  <2>1. i <= n /\ i + 1 \in 1..n /\ (i + 1) - 1 = i
    OBVIOUS
  <2>2. WrittenBy(ctx[i], order, i, service)
    BY <1>3, <2>1
  <2>3. order[i + 1] \in AllFaults /\ ctx[i + 1] = Apply(ctx[i], order[i + 1], service)
    BY <1>1, <2>1
  <2> QED BY <2>2, <2>3, OneMore
<1>4. Nat \subseteq C
  <2> HIDE DEF C
  <2> QED BY <1>2, <1>3, NatInductionOnSet
<1>5. \A i \in 0..n : WrittenBy(ctx[i], order, i, service)
  BY <1>4
<1>6. WrittenBy(ctx[n], order, n, service)
  <2>1. n \in 0..n
    OBVIOUS
  <2> QED BY <1>5, <2>1
<1>7. ASSUME n > 0, ErrorWritten(order[n], service) # {}
      PROVE  ErrorWritten(order[n], service) = {ctx[n].errorPct}
  <2> DEFINE m == n - 1
  <2>1. m \in Nat /\ n = m + 1 /\ n \in 1..n /\ m \in 0..n
    BY <1>7
  <2>2. WrittenBy(ctx[m], order, m, service) /\ ctx[n] = Apply(ctx[m], order[n], service)
    BY <1>1, <1>5, <2>1
  <2> DEFINE before == ctx[m]
  <2> HIDE DEF m, before
  <2>3. /\ order[m + 1] \in AllFaults /\ order[m + 1] = order[n]
        /\ ctx[n] = Apply(before, order[m + 1], service)
        /\ WrittenBy(before, order, m, service)
    BY <2>1, <2>2 DEF before
  <2>4. ErrorWritten(order[m + 1], service) # {} =>
          ErrorWritten(order[m + 1], service) = {Apply(before, order[m + 1], service).errorPct}
    <3>1. /\ m \in Nat /\ order[m + 1] \in AllFaults /\ service \in Services
          /\ WrittenBy(before, order, m, service)
      BY <2>1, <2>3
    <3> QED BY <3>1, OneMore, ZenonT(40)
  <2> QED BY <1>7, <2>3, <2>4
<1> QED BY <1>6, <1>7, ContextAfterIsLast DEF ctx

\* An order of the map visits each active fault, and only those.
LEMMA OrderVisitsAll ==
  ASSUME NEW A, IsFiniteSet(A), NEW order \in SetToSeqs(A)
  PROVE  /\ Len(order) \in Nat
         /\ \A i \in 1..Len(order) : order[i] \in A
         /\ \A f \in A : \E i \in 1..Len(order) : order[i] = f
<1> DEFINE n == Cardinality(A)
<1>1. n \in Nat
  BY FS_CardinalityType
<1>2. order \in [1..n -> A] /\ \A i, j \in 1..n : i # j => order[i] # order[j]
  BY DEF SetToSeqs
<1> HIDE DEF n
<1>3. Len(order) = n
  <2>1. order \in Seq(A)
    BY <1>1, <1>2, SeqDef
  <2>2. DOMAIN order = 1..n /\ DOMAIN order = 1..Len(order) /\ Len(order) \in Nat
    BY <1>2, <2>1, LenProperties
  <2> QED BY <1>1, <2>2
<1>4. order \in Injection(1..n, A)
  BY <1>2 DEF Injection, IsInjective
<1>5. Cardinality(1..n) = Cardinality(A)
  <2>1. 1 \in Int /\ n \in Int /\ ~(1 > n) => n - 1 + 1 = n
    BY <1>1
  <2>2. Cardinality(1..n) = IF 1 > n THEN 0 ELSE n - 1 + 1
    BY <1>1, FS_Interval
  <2> QED BY <1>1, <2>2 DEF n
<1>6. order \in Surjection(1..n, A)
  BY <1>4, <1>5, FS_Injection
<1> QED BY <1>1, <1>2, <1>3, <1>6 DEF Surjection

\* Some order visits a given fault last.
LEMMA OrderWithLast ==
  ASSUME NEW A, IsFiniteSet(A), NEW f \in A
  PROVE  \E order \in SetToSeqs(A) : Len(order) > 0 /\ order[Len(order)] = f
<1> DEFINE B == A \ {f}
           m == Cardinality(B)
<1>1. IsFiniteSet(B) /\ m \in Nat /\ Cardinality(A) = m + 1
  <2>1. IsFiniteSet(B) /\ Cardinality(B) = Cardinality(A) - 1 /\ Cardinality(A) \in Nat
    BY FS_RemoveElement, FS_CardinalityType
  <2>2. Cardinality(B) \in Nat
    BY <2>1, FS_CardinalityType
  <2> QED BY <2>1, <2>2
<1>2. PICK b : b \in [1..m -> B] /\ \A i, j \in 1..m : i # j => b[i] # b[j]
  <2>1. PICK b : b \in Bijection(1..m, B)
    BY <1>1, FS_CardinalityType DEF ExistsBijection
  <2> QED BY <2>1 DEF Bijection, Injection, IsInjective
<1> HIDE DEF m
<1> DEFINE order == [i \in 1..(m + 1) |-> IF i <= m THEN b[i] ELSE f]
<1>3. \A i \in 1..m : b[i] \in A /\ b[i] # f
  BY <1>2
<1>4. \A i \in 1..(m + 1) : order[i] \in A
  <2> SUFFICES ASSUME NEW i \in 1..(m + 1) PROVE order[i] \in A
    OBVIOUS
  <2>1. i <= m => i \in 1..m
    BY <1>1
  <2> QED BY <1>3, <2>1
<1>5. \A i, j \in 1..(m + 1) : i # j => order[i] # order[j]
  <2> SUFFICES ASSUME NEW i \in 1..(m + 1), NEW j \in 1..(m + 1), i # j
               PROVE  order[i] # order[j]
    OBVIOUS
  <2>1. (i <= m => i \in 1..m) /\ (j <= m => j \in 1..m) /\ (i <= m \/ j <= m)
    BY <1>1
  <2> QED BY <1>2, <1>3, <2>1
<1>6. order \in [1..(m + 1) -> A] /\ order[m + 1] = f
  <2>1. m + 1 \in 1..(m + 1) /\ ~(m + 1 <= m)
    BY <1>1
  <2> QED BY <1>4, <2>1
<1> HIDE DEF order
<1>7. order \in SetToSeqs(A)
  BY <1>1, <1>5, <1>6 DEF SetToSeqs
<1>8. Len(order) = m + 1
  <2>1. order \in Seq(A)
    BY <1>1, <1>6, SeqDef
  <2>2. DOMAIN order = 1..(m + 1) /\ DOMAIN order = 1..Len(order) /\ Len(order) \in Nat
    BY <1>6, <2>1, LenProperties
  <2> QED BY <1>1, <2>2
<1> QED BY <1>1, <1>6, <1>7, <1>8

LEMMA SomeOrder ==
  ASSUME NEW A, IsFiniteSet(A)
  PROVE  SetToSeqs(A) # {}
<1>1. CASE A = {}
  <2>1. Cardinality(A) = 0 /\ 1..0 = {}
    BY <1>1, FS_EmptySet
  <2>2. <<>> \in [1..0 -> A]
    OBVIOUS
  <2>3. <<>> \in SetToSeqs(A)
    BY <2>1, <2>2 DEF SetToSeqs
  <2> QED BY <2>3
<1>2. CASE A # {}
  BY <1>2, OrderWithLast
<1> QED BY <1>1, <1>2

LEMMA FaultsAreFinite == IsFiniteSet(Actives) /\ Actives \subseteq AllFaults
<1>1. IsFiniteSet({PoisonPill}) /\ IsFiniteSet({DownstreamTimeout}) /\ IsFiniteSet({TrafficSpike})
      /\ IsFiniteSet({CascadingFailure}) /\ IsFiniteSet({IntermittentErrors})
      /\ IsFiniteSet({NotificationFailure})
  BY FS_Singleton
<1>2. IsFiniteSet({PoisonPill} \cup {DownstreamTimeout}
                  \cup {TrafficSpike} \cup {CascadingFailure}
                  \cup {IntermittentErrors} \cup {NotificationFailure})
  BY <1>1, FS_Union
<1>3. AllFaults = {PoisonPill} \cup {DownstreamTimeout} \cup {TrafficSpike} \cup {CascadingFailure}
                  \cup {IntermittentErrors} \cup {NotificationFailure}
  BY DEF AllFaults
<1>4. Actives \subseteq AllFaults
  BY FaultEngineAssumption DEF Actives
<1> QED BY <1>2, <1>3, <1>4, FS_Subset

LEMMA LastWriterDecides == ContextsAreLastWriter
<1> DEFINE A == Actives
<1>1. IsFiniteSet(A) /\ A \subseteq AllFaults
  BY FaultsAreFinite
<1> HIDE DEF A
<1> SUFFICES ASSUME NEW s \in Services
             PROVE  /\ {ctx.errorPct : ctx \in GetFaultContexts(s)} = ErrorProbabilities(A, s)
                    /\ ComposeAdditively(s) <=> ~Contend(s)
                    /\ \A ctx \in GetFaultContexts(s) :
                         /\ ctx.crash <=> ShouldCrash(A, s)
                         /\ ctx.delayMs > 0 <=> (DownstreamTimeout \in A /\ s = "payment")
  BY DEF ContextsAreLastWriter, A
<1>2. GetFaultContexts(s) = {ContextAfter(order, s) : order \in SetToSeqs(A)}
  BY DEF GetFaultContexts, A
<1> DEFINE written == UNION {ErrorWritten(f, s) : f \in A}
<1>3. ErrorProbabilities(A, s) = IF written = {} THEN {0} ELSE written
  BY DEF ErrorProbabilities
<1>4. ASSUME NEW order \in SetToSeqs(A)
      PROVE  LET ctx == ContextAfter(order, s)
                 n   == Len(order)
             IN  /\ WrittenBy(ctx, order, n, s)
                 /\ n > 0 /\ ErrorWritten(order[n], s) # {} => ErrorWritten(order[n], s) = {ctx.errorPct}
                 /\ n \in Nat
                 /\ \A i \in 1..n : order[i] \in A
                 /\ \A f \in A : \E i \in 1..n : order[i] = f
  <2>1. /\ Len(order) \in Nat
        /\ \A i \in 1..Len(order) : order[i] \in A
        /\ \A f \in A : \E i \in 1..Len(order) : order[i] = f
    BY <1>1, OrderVisitsAll
  <2>2. \A i \in 1..Len(order) : order[i] \in AllFaults
    BY <1>1, <2>1
  <2> QED BY <2>1, <2>2, ContextIsWritten
<1>5. ASSUME NEW order \in SetToSeqs(A)
      PROVE  ContextAfter(order, s).errorPct \in ErrorProbabilities(A, s)
  <2> DEFINE ctx == ContextAfter(order, s)
             n == Len(order)
  <2>1. CASE ctx.errorPct = 0 /\ \A j \in 1..n : ErrorWritten(order[j], s) = {}
    <3>1. \A f \in A : ErrorWritten(f, s) = {}
      BY <1>4, <2>1
    <3>2. written = {}
      BY <3>1
    <3> QED BY <1>3, <2>1, <3>2
  <2>2. CASE \E j \in 1..n : ErrorWritten(order[j], s) = {ctx.errorPct}
    <3>1. PICK j \in 1..n : ErrorWritten(order[j], s) = {ctx.errorPct}
      BY <2>2
    <3>2. order[j] \in A
      BY <1>4
    <3>3. ctx.errorPct \in written
      BY <3>1, <3>2
    <3> QED BY <1>3, <3>3
  <2> QED BY <1>4, <2>1, <2>2 DEF WrittenBy
<1>6. ASSUME NEW p \in ErrorProbabilities(A, s)
      PROVE  \E order \in SetToSeqs(A) : ContextAfter(order, s).errorPct = p
  <2>1. CASE written = {}
    <3>1. PICK order \in SetToSeqs(A) : TRUE
      BY <1>1, SomeOrder
    <3>2. ContextAfter(order, s).errorPct \in {0} /\ p = 0
      BY <1>3, <1>5, <2>1
    <3> QED BY <3>2
  <2>2. CASE written # {}
    <3>1. PICK f \in A : p \in ErrorWritten(f, s)
      BY <1>3, <2>2
    <3>2. PICK order \in SetToSeqs(A) : Len(order) > 0 /\ order[Len(order)] = f
      BY <1>1, OrderWithLast
    <3>3. ErrorWritten(f, s) = {ContextAfter(order, s).errorPct}
      BY <1>4, <3>1, <3>2
    <3> QED BY <3>1, <3>3
  <2> QED BY <2>1, <2>2
<1>7. {ctx.errorPct : ctx \in GetFaultContexts(s)} = ErrorProbabilities(A, s)
  <2> HIDE DEF written
  <2> QED BY <1>2, <1>5, <1>6
<1>8. ASSUME NEW order \in SetToSeqs(A)
      PROVE  LET ctx == ContextAfter(order, s) IN
             /\ ctx.crash <=> ShouldCrash(A, s)
             /\ ctx.delayMs > 0 <=> (DownstreamTimeout \in A /\ s = "payment")
  <2> DEFINE ctx == ContextAfter(order, s)
             n == Len(order)
  <2>1. \A f : (\E j \in 1..n : order[j] = f /\ s = "payment") <=> f \in A /\ s = "payment"
    BY <1>4
  <2>2. /\ ctx.crash <=> \E j \in 1..n : order[j] = CascadingFailure /\ s = "payment"
        /\ ctx.delayMs > 0 <=> \E j \in 1..n : order[j] = DownstreamTimeout /\ s = "payment"
    BY <1>4 DEF WrittenBy
  <2> HIDE DEF ctx, n
  <2>3. ctx.crash <=> CascadingFailure \in A /\ s = "payment"
    BY <2>1, <2>2
  <2>4. ctx.delayMs > 0 <=> DownstreamTimeout \in A /\ s = "payment"
    BY <2>1, <2>2
  <2> QED BY <2>3, <2>4 DEF ShouldCrash, ctx
<1>9. ComposeAdditively(s) <=> ~Contend(s)
  <2>0. /\ ComposeAdditively(s) <=> \A e \in ErrorProbabilities(A, s), f \in A :
                                     \A p \in ErrorWritten(f, s) : e >= p
        /\ Contend(s) <=>
             \E f, g \in A : \E p \in ErrorWritten(f, s), q \in ErrorWritten(g, s) : p # q
    BY <1>7 DEF ComposeAdditively, Contend, A
  <2>1. \A f : ErrorWritten(f, s) \subseteq Nat
    BY DEF ErrorWritten
  <2>2. ASSUME NEW f \in A, NEW p \in ErrorWritten(f, s) PROVE p \in ErrorProbabilities(A, s)
    <3>1. p \in written
      BY <2>2
    <3> QED BY <1>3, <3>1
  <2>3. ASSUME Contend(s) PROVE ~ComposeAdditively(s)
    <3>1. PICK f, g \in A : \E p \in ErrorWritten(f, s), q \in ErrorWritten(g, s) : p # q
      BY <2>0, <2>3
    <3>2. PICK p \in ErrorWritten(f, s), q \in ErrorWritten(g, s) : p # q
      BY <3>1
    <3>3. /\ p \in ErrorProbabilities(A, s) /\ q \in ErrorProbabilities(A, s)
          /\ p \in Nat /\ q \in Nat
      BY <2>1, <2>2
    <3>4. ~(p >= q) \/ ~(q >= p)
      BY <3>2, <3>3
    <3> QED BY <2>0, <3>3, <3>4
  <2>4. ASSUME ~Contend(s) PROVE ComposeAdditively(s)
    <3> SUFFICES ASSUME NEW e \in ErrorProbabilities(A, s), NEW f \in A,
                        NEW p \in ErrorWritten(f, s)
                 PROVE  e >= p
      BY <2>0
    <3>1. p \in written
      OBVIOUS
    <3>2. e \in written
      BY <1>3, <3>1
    <3>3. PICK g \in A : e \in ErrorWritten(g, s)
      BY <3>2
    <3>4. e = p /\ p \in Nat
      BY <2>0, <2>1, <2>4, <3>3
    <3> QED BY <3>4
  <2> QED BY <2>3, <2>4
<1>10. ASSUME NEW ctx \in GetFaultContexts(s)
       PROVE  /\ ctx.crash <=> ShouldCrash(A, s)
              /\ ctx.delayMs > 0 <=> (DownstreamTimeout \in A /\ s = "payment")
  BY <1>2, <1>8
<1> QED BY <1>7, <1>9, <1>10

\* Whichever faults are active, the context that a service may be given is that of the
\* last writer of each field, and each writer may be last (GetFaultContext).
THEOREM LastWriterWins == Spec => []ContextsAreLastWriter
<1> QED BY LastWriterDecides, PTL
=============================================================================
