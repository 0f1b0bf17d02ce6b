---------------------------- MODULE FaultEngine ----------------------------
(***************************************************************************)
(* The fault engine and the HTTP handlers that drive it                    *)
(* (internal/simulator/fault_engine.go and api.go). Activate and           *)
(* Deactivate change the active map under the lock and write their         *)
(* fault_events row after releasing it, so concurrent requests interleave  *)
(* between the two. A row's place in events is its timestamp order.        *)
(***************************************************************************)
EXTENDS Faults, FiniteSets, Integers, SequencesExt, TLC

CONSTANTS
  Clients,      \* concurrent HTTP requests
  Injected,     \* the fault types they inject
  MaxRequests   \* bound: requests per behaviour

ASSUME FaultEngineAssumption ==
  /\ IsFiniteSet(Clients)
  /\ Injected \subseteq AllFaults
  /\ MaxRequests \in Nat

VARIABLES
  active,    \* fault -> origin; "" (Go's zero value) stands for a fault not in the map
  events,    \* the fault_events rows inserted
  lost,      \* history: fault -> how many of its start and stop rows could not be
  req,       \* where each request is
  requests,  \* how many have come
  since      \* history: faults activated since a stop request took its snapshot

vars == <<active, events, lost, req, requests, since>>

Actives == {f \in Injected : active[f] # ""}

Done == [pc |-> "idle", fault |-> "", origin |-> "", todo |-> {}, snapshot |-> {}]

Init ==
  /\ active = [f \in Injected |-> ""]
  /\ events = <<>>
  /\ lost = [f \in Injected |-> [start |-> 0, stop |-> 0]]
  /\ req = [c \in Clients |-> Done]
  /\ requests = 0
  /\ since = [c \in Clients |-> {}]

Event(f, action, origin) == [fault |-> f, action |-> action, origin |-> origin]

\* Mutants: Activate does not look whether the fault is already active; the handler
\* shadows origin.
InjectAgain(c, f) ==
  /\ req[c].pc = "idle"
  /\ requests < MaxRequests
  /\ requests' = requests + 1
  /\ active' = [active EXCEPT ![f] = faultOrigins[f]]
  /\ since' = [d \in Clients |-> since[d] \cup {f}]
  /\ req' = [req EXCEPT ![c] = [Done EXCEPT !.pc = "start", !.fault = f, !.origin = faultOrigins[f]]]
  /\ UNCHANGED <<events, lost>>

InjectNoOrigin(c, f) ==
  /\ req[c].pc = "idle"
  /\ requests < MaxRequests
  /\ active[f] = ""
  /\ requests' = requests + 1
  /\ active' = [active EXCEPT ![f] = faultOrigins[f]]
  /\ since' = [d \in Clients |-> since[d] \cup {f}]
  /\ req' = [req EXCEPT ![c] = [Done EXCEPT !.pc = "start", !.fault = f]]
  /\ UNCHANGED <<events, lost>>

\* POST /api/faults/inject, up to the end of Activate's locked section. A request
\* for an unknown fault is refused, and one for an active fault returns.
Inject(c, f) ==
  /\ req[c].pc = "idle"
  /\ requests < MaxRequests
  /\ active[f] = ""
  /\ requests' = requests + 1
  /\ active' = [active EXCEPT ![f] = faultOrigins[f]]
  /\ since' = [d \in Clients |-> since[d] \cup {f}]
  /\ req' = [req EXCEPT ![c] = [Done EXCEPT !.pc = "start", !.fault = f, !.origin = faultOrigins[f]]]
  /\ UNCHANGED <<events, lost>>

\* The INSERT may fail, and its error is ignored; lost counts the rows that had an origin.
writeFaultEvent(f, action, origin) ==
  \/ events' = Append(events, Event(f, action, origin)) /\ UNCHANGED lost
  \/ /\ lost' = IF origin = "" THEN lost ELSE [lost EXCEPT ![f][action] = @ + 1]
     /\ UNCHANGED events

\* Activate writes its row.
WriteStart(c) ==
  /\ req[c].pc = "start"
  /\ writeFaultEvent(req[c].fault, "start", req[c].origin)
  /\ req' = [req EXCEPT ![c] = Done]
  /\ UNCHANGED <<active, requests, since>>

\* POST /api/faults/stop and POST /api/reset: GetActiveFaults, then Deactivate for
\* each fault of that snapshot, in the order the map gave them.
Stop(c) ==
  /\ req[c].pc = "idle"
  /\ requests < MaxRequests
  /\ Actives # {}
  /\ requests' = requests + 1
  /\ since' = [since EXCEPT ![c] = {}]
  /\ req' = [req EXCEPT ![c] = [Done EXCEPT !.pc = "next", !.todo = Actives, !.snapshot = Actives]]
  /\ UNCHANGED <<active, events, lost>>

\* Mutant: the loop ends after the first fault.
DeactivateFirstOnly(c, f) ==
  /\ req[c].pc = "next"
  /\ f \in req[c].todo
  /\ active' = [active EXCEPT ![f] = ""]
  /\ req' = [req EXCEPT ![c].pc = "stop", ![c].fault = f, ![c].origin = active[f], ![c].todo = {}]
  /\ UNCHANGED <<events, lost, requests, since>>

\* Deactivate's locked section; it deletes and reports whether or not the fault is
\* still active.
Deactivate(c, f) ==
  /\ req[c].pc = "next"
  /\ f \in req[c].todo
  /\ active' = [active EXCEPT ![f] = ""]
  /\ req' = [req EXCEPT ![c].pc = "stop", ![c].fault = f, ![c].origin = active[f],
                        ![c].todo = @ \ {f}]
  /\ UNCHANGED <<events, lost, requests, since>>

\* Deactivate writes its row.
WriteStop(c) ==
  /\ req[c].pc = "stop"
  /\ writeFaultEvent(req[c].fault, "stop", req[c].origin)
  /\ req' = [req EXCEPT ![c].pc = "next", ![c].fault = "", ![c].origin = ""]
  /\ UNCHANGED <<active, requests, since>>

StopReturns(c) ==
  /\ req[c].pc = "next"
  /\ req[c].todo = {}
  /\ req' = [req EXCEPT ![c] = Done]
  /\ UNCHANGED <<active, events, lost, requests, since>>

Next ==
  \E c \in Clients :
    \/ \E f \in Injected : Inject(c, f) \/ Deactivate(c, f)
    \/ Stop(c) \/ WriteStart(c) \/ WriteStop(c) \/ StopReturns(c)

Spec == Init /\ [][Next]_vars

-----------------------------------------------------------------------------
\* GetFaultContext: apply for every active fault in the order the map gives, which
\* Go leaves open: one context per order.
NoContext == [drop |-> FALSE, delayMs |-> 0, crash |-> FALSE, errorPct |-> 0, multiplier |-> 0]

\* Mutant: intermittent errors never replace a higher probability.
ApplyMax(ctx, fault, service) ==
  CASE fault = PoisonPill /\ service = "payment"            -> [ctx EXCEPT !.errorPct = 100]
    [] fault = CascadingFailure /\ service = "payment"      -> [ctx EXCEPT !.crash = TRUE]
    [] fault = DownstreamTimeout /\ service = "payment"     -> [ctx EXCEPT !.delayMs = 8000]
    [] fault = IntermittentErrors /\ ctx.errorPct < 15      -> [ctx EXCEPT !.errorPct = 15]
    [] OTHER -> ctx

Apply(ctx, fault, service) ==
  CASE fault = PoisonPill /\ service = "payment"         -> [ctx EXCEPT !.errorPct = 100]
    [] fault = DownstreamTimeout /\ service = "payment"  -> [ctx EXCEPT !.delayMs = 8000]
    [] fault = TrafficSpike /\ service = "api-gateway"   -> [ctx EXCEPT !.multiplier = 10]
    [] fault = CascadingFailure /\ service = "payment"   -> [ctx EXCEPT !.crash = TRUE]
    [] fault = IntermittentErrors                        -> [ctx EXCEPT !.errorPct = 15]
    [] fault = NotificationFailure /\ service = "notification" -> [ctx EXCEPT !.errorPct = 100]
    [] OTHER -> ctx

ContextAfter(order, service) ==
  LET ctx[i \in 0..Len(order)] ==
        IF i = 0 THEN NoContext ELSE Apply(ctx[i - 1], order[i], service)
  IN  ctx[Len(order)]

GetFaultContexts(service) == {ContextAfter(order, service) : order \in SetToSeqs(Actives)}

-----------------------------------------------------------------------------
TypeOK ==
  /\ active \in [Injected -> {faultOrigins[f] : f \in AllFaults} \cup {""}]
  /\ \A i \in 1..Len(events) :
       LET e == events[i] IN
       /\ e.fault \in Injected
       /\ \/ e.action = "start" /\ e.origin = faultOrigins[e.fault]
          \/ e.action = "stop" /\ e.origin \in {faultOrigins[e.fault], ""}
  /\ lost \in [Injected -> [start : Nat, stop : Nat]]
  /\ \A c \in Clients : /\ req[c].pc \in {"idle", "start", "next", "stop"}
                        /\ req[c].todo \subseteq req[c].snapshot
                        /\ req[c].snapshot \subseteq Injected
  /\ requests \in 0..MaxRequests

Written(f, action) ==
  Cardinality({i \in 1..Len(events) :
                 events[i].fault = f /\ events[i].action = action /\ events[i].origin # ""})
Unwritten(f, action) ==
  Cardinality({c \in Clients : req[c].pc = action /\ req[c].fault = f /\ req[c].origin # ""})

\* Every activation gets at most one start row, and the one stop that ended it at most
\* one stop row with its origin, however many stop and reset requests race for it (the
\* others write rows without an origin): each is written, about to be, or lost with an
\* INSERT that failed, and none is written for anything else (Activate, Deactivate).
\* The rows are counted, not ordered: see README, "Findings".
Begun(f, action) == Written(f, action) + Unwritten(f, action) + lost[f][action]

EventsAccountForFaults ==
  \A f \in Injected :
    Begun(f, "start") = Begun(f, "stop") + (IF active[f] = "" THEN 0 ELSE 1)

\* What a stop or reset request has dealt with is off, unless somebody has injected
\* it again since the snapshot (handleStop, handleReset).
StopClears ==
  \A c \in Clients : req[c].pc \in {"next", "stop"} =>
    Actives \cap (req[c].snapshot \ req[c].todo) \subseteq since[c]

\* "If multiple faults affect the same service, all context fields from each fault are
\* applied" (fault_engine.go:97): whatever the order, a context has every active fault's
\* error probability, or a higher one.
ComposeAdditively(s) ==
  \A ctx \in GetFaultContexts(s), f \in Actives : \A p \in ErrorWritten(f, s) : ctx.errorPct >= p

\* Active faults that set the error probability of s to different values.
Contend(s) ==
  \E f, g \in Actives : \E p \in ErrorWritten(f, s), q \in ErrorWritten(g, s) : p # q

\* The contexts a service may be given are those of the last writer of each field: the
\* error probability of one of the faults that set it, each of which may come last, and a
\* crash or delay exactly when its fault is active (GetFaultContext, apply). So what the
\* comment on GetFaultContext says is true exactly while no two active faults contend: with
\* poison-pill and intermittent-errors payment fails all its messages or 15% of them (README,
\* "Findings").
ContextsAreLastWriter ==
  \A s \in Services :
    /\ {ctx.errorPct : ctx \in GetFaultContexts(s)} = ErrorProbabilities(Actives, s)
    /\ ComposeAdditively(s) <=> ~Contend(s)
    /\ \A ctx \in GetFaultContexts(s) :
         /\ ctx.crash <=> ShouldCrash(Actives, s)
         /\ ctx.delayMs > 0 <=> (DownstreamTimeout \in Actives /\ s = "payment")
=============================================================================
