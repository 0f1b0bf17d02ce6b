------------------------------- MODULE Stream -------------------------------
(***************************************************************************)
(* How a fault gets from the simulator to a dashboard: each service writes *)
(* the active faults into its service_metrics rows, the monitor's poll     *)
(* loop makes a snapshot of the latest rows (poller.go), the broadcaster   *)
(* offers it to the bounded buffer of each SSE connection (sse.go), and    *)
(* the page shows what comes (useMonitowerState.ts). The simulator may be  *)
(* restarted, connections break and are made again, pages are reloaded.    *)
(*                                                                         *)
(* The clock is abstracted: rows leave the 30 s that a poll reads only     *)
(* when the process that wrote them is gone. Of a row only the faults are  *)
(* kept.                                                                   *)
(***************************************************************************)
EXTENDS Integers, Sequences, FiniteSets, SequencesExt

CONSTANTS
  Reporting,     \* the services that write metrics
  InjectedFaults,\* the faults that may be injected
  Conns,         \* bound: SSE connections there may be at a time
  ClientBuffer,  \* the channel of a connection: 8 in the code
  MaxChanges,    \* bound: changes of the active faults, restarts included
  NoRow          \* "no row" of a service

ASSUME StreamAssumption ==
  /\ ClientBuffer \in Nat \ {0}
  /\ MaxChanges \in Nat

VARIABLES
  active,    \* the fault engine's active map
  version,   \* history: how often it has changed
  up,        \* the simulator is running
  started,   \* history: the version at which it was started
  naming,    \* the faults each metrics writer has read and not yet inserted
  latest,    \* the latest row of each service a poll can see
  snapshot,  \* what the poll loop is about to broadcast: <<>> or a snapshot
  clients,   \* SSEBroadcaster.clients
  conn,      \* of each SSE connection: its state and its channel
  page,      \* "shown" or, after an exception in the hook, "broken"
  shown      \* the services in the state of the page

simulator == <<active, version, up, started>>
browser == <<page, shown>>
vars == <<simulator, naming, latest, snapshot, clients, conn, browser>>

Row(faults, v) == [faults |-> faults, version |-> v]
Nothing == [s \in Reporting |-> NoRow]

\* defaultState of the hook, before the first message.
defaultState == Nothing

Free == [state |-> "free", ch |-> <<>>]

Init ==
  /\ active = {} /\ version = 0 /\ up = TRUE /\ started = 0
  /\ naming = Nothing /\ latest = Nothing
  /\ snapshot = <<>> /\ clients = {}
  /\ conn = [c \in Conns |-> Free]
  /\ page = "shown" /\ shown = defaultState

-----------------------------------------------------------------------------
\* The simulator. Whoever injects and stops faults does so through its API.
Inject(f) ==
  /\ up /\ version < MaxChanges
  /\ f \notin active
  /\ active' = active \cup {f} /\ version' = version + 1
  /\ UNCHANGED <<up, started, naming, latest, snapshot, clients, conn, browser>>

Stop ==
  /\ up /\ version < MaxChanges
  /\ active # {}
  /\ active' = {} /\ version' = version + 1
  /\ UNCHANGED <<up, started, naming, latest, snapshot, clients, conn, browser>>

SimulatorStops ==
  /\ up
  /\ up' = FALSE
  /\ naming' = Nothing
  /\ UNCHANGED <<active, version, started, latest, snapshot, clients, conn, browser>>

\* A new process, with a new FaultEngine.
SimulatorStarts ==
  /\ ~up /\ version < MaxChanges
  /\ up' = TRUE
  /\ active' = {} /\ version' = version + 1 /\ started' = version + 1
  /\ UNCHANGED <<naming, latest, snapshot, clients, conn, browser>>

\* writeMetrics of a service reads the active faults, then inserts its row.
NameFaults(s) ==
  /\ up
  /\ naming[s] = NoRow
  /\ naming' = [naming EXCEPT ![s] = Row(active, version)]
  /\ UNCHANGED <<simulator, latest, snapshot, clients, conn, browser>>

InsertRow(s) ==
  /\ naming[s] # NoRow
  /\ latest' = [latest EXCEPT ![s] = naming[s]]
  /\ naming' = [naming EXCEPT ![s] = NoRow]
  /\ UNCHANGED <<simulator, snapshot, clients, conn, browser>>

\* An INSERT that fails is not noticed.
InsertFails(s) ==
  /\ naming[s] # NoRow
  /\ naming' = [naming EXCEPT ![s] = NoRow]
  /\ UNCHANGED <<simulator, latest, snapshot, clients, conn, browser>>

\* 30 s go by: only a row of a process that is gone is the latest for so long.
RowTooOld(s) ==
  /\ latest[s] # NoRow
  /\ ~up \/ latest[s].version < started
  /\ latest' = [latest EXCEPT ![s] = NoRow]
  /\ UNCHANGED <<simulator, naming, snapshot, clients, conn, browser>>

-----------------------------------------------------------------------------
\* The monitor: tick reads the rows and builds a snapshot of the latest of each
\* service. A tick that fails or is skipped changes nothing.
PollRead ==
  /\ snapshot = <<>>
  /\ snapshot' = <<latest>>
  /\ UNCHANGED <<simulator, naming, latest, clients, conn, browser>>

\* Mutants: a client that is too slow is forgotten; the buffer holds one too many.
PollBroadcastForgets ==
  /\ snapshot # <<>>
  /\ clients' = {c \in clients : Len(conn[c].ch) < ClientBuffer}
  /\ conn' = [c \in Conns |-> IF c \in clients' THEN [conn[c] EXCEPT !.ch = @ \o snapshot]
                              ELSE conn[c]]
  /\ snapshot' = <<>>
  /\ UNCHANGED <<simulator, naming, latest, browser>>

PollBroadcastOverfills ==
  /\ snapshot # <<>>
  /\ conn' = [c \in Conns |->
       IF c \in clients /\ Len(conn[c].ch) <= ClientBuffer
         THEN [conn[c] EXCEPT !.ch = @ \o snapshot] ELSE conn[c]]
  /\ snapshot' = <<>>
  /\ UNCHANGED <<simulator, naming, latest, clients, browser>>

\* broadcast offers the snapshot to each registered client: what does not fit is
\* dropped. It holds mu, so no client comes or goes meanwhile.
PollBroadcast ==
  /\ snapshot # <<>>
  /\ conn' = [c \in Conns |->
       IF c \in clients /\ Len(conn[c].ch) < ClientBuffer
         THEN [conn[c] EXCEPT !.ch = @ \o snapshot] ELSE conn[c]]
  /\ snapshot' = <<>>
  /\ UNCHANGED <<simulator, naming, latest, clients, browser>>

-----------------------------------------------------------------------------
\* The page opens a connection, and opens another when it has lost one
\* (EventSource does so by itself); ServeHTTP registers the client.
Connected == \E c \in Conns : conn[c].state = "open"

Connect(c) ==
  /\ page = "shown" /\ ~Connected
  /\ conn[c].state = "free"
  /\ conn' = [conn EXCEPT ![c].state = "open"]
  /\ clients' = clients \cup {c}
  /\ UNCHANGED <<simulator, naming, latest, snapshot, browser>>

Disconnect(c) ==
  /\ conn[c].state = "open"
  /\ conn' = [conn EXCEPT ![c].state = "gone"]
  /\ UNCHANGED <<simulator, naming, latest, snapshot, clients, browser>>

\* Mutant: a connection that was given up still delivers.
ReceiveStale(c) ==
  /\ conn[c].ch # <<>>
  /\ conn' = [conn EXCEPT ![c].ch = Tail(@)]
  /\ shown' = Head(conn[c].ch)
  /\ UNCHANGED <<simulator, naming, latest, snapshot, clients, page>>

\* ServeHTTP takes a message from its channel, and the listener of the hook sets the
\* state. A snapshot without services has null for them: activeFaults throws, the page is
\* unmounted and its connection closed.
Receive(c) ==
  /\ conn[c].ch # <<>> /\ conn[c].state = "open"
  /\ LET message == Head(conn[c].ch) IN
     IF message = Nothing
       THEN /\ page' = "broken"
            /\ conn' = [conn EXCEPT ![c] = [state |-> "gone", ch |-> Tail(@.ch)]]
            /\ UNCHANGED shown
       ELSE /\ shown' = message
            /\ conn' = [conn EXCEPT ![c].ch = Tail(@)]
            /\ UNCHANGED page
  /\ UNCHANGED <<simulator, naming, latest, snapshot, clients>>

\* Mutant: the deferred delete is missing.
UnregisterLeaks(c) ==
  /\ conn[c].state = "gone"
  /\ conn' = [conn EXCEPT ![c] = Free]
  /\ UNCHANGED <<simulator, naming, latest, snapshot, clients, browser>>

\* The request of a connection that is gone is cancelled: ServeHTTP unregisters the
\* client and returns. What it still writes before it looks, nobody reads.
Unregister(c) ==
  /\ conn[c].state = "gone"
  /\ conn' = [conn EXCEPT ![c] = Free]
  /\ clients' = clients \ {c}
  /\ UNCHANGED <<simulator, naming, latest, snapshot, browser>>

\* The user loads the page anew.
Reload ==
  /\ page' = "shown" /\ shown' = defaultState
  /\ conn' = [c \in Conns |->
       IF conn[c].state = "open" THEN [conn[c] EXCEPT !.state = "gone"] ELSE conn[c]]
  /\ UNCHANGED <<simulator, naming, latest, snapshot, clients>>

-----------------------------------------------------------------------------
Next ==
  \/ \E f \in InjectedFaults : Inject(f)
  \/ Stop \/ SimulatorStops \/ SimulatorStarts \/ Reload
  \/ \E s \in Reporting : NameFaults(s) \/ InsertRow(s) \/ InsertFails(s) \/ RowTooOld(s)
  \/ PollRead \/ PollBroadcast
  \/ \E c \in Conns : Connect(c) \/ Disconnect(c) \/ Receive(c) \/ Unregister(c)

Spec == Init /\ [][Next]_vars

\* Timers fire, the poll loop never returns and a runnable goroutine runs; the database
\* does not refuse every INSERT. Nobody is bound to inject, stop, start, reload or connect.
Fairness ==
  /\ \A s \in Reporting : WF_vars(NameFaults(s)) /\ SF_vars(InsertRow(s))
  /\ WF_vars(PollRead) /\ WF_vars(PollBroadcast)
  /\ \A c \in Conns : WF_vars(Receive(c)) /\ WF_vars(Unregister(c))

FairSpec == Spec /\ Fairness

-----------------------------------------------------------------------------
RowOrNone == [faults : SUBSET InjectedFaults, version : 0..MaxChanges] \cup {NoRow}
Snapshots == [Reporting -> RowOrNone]

TypeOK ==
  /\ active \subseteq InjectedFaults
  /\ version \in 0..MaxChanges /\ started \in 0..version
  /\ up \in BOOLEAN
  /\ naming \in Snapshots /\ latest \in Snapshots /\ shown \in Snapshots
  /\ snapshot = <<>> \/ (Len(snapshot) = 1 /\ Head(snapshot) \in Snapshots)
  /\ clients \subseteq Conns
  /\ \A c \in Conns : /\ conn[c].state \in {"free", "open", "gone"}
                      /\ Len(conn[c].ch) <= ClientBuffer
                      /\ ToSet(conn[c].ch) \subseteq Snapshots
  /\ page \in {"shown", "broken"}

\* activeFaults of the hook.
activeFaults == UNION {shown[s].faults : s \in {s \in Reporting : shown[s] # NoRow}}

\* A page never goes back in time: what it shows of a service is replaced only by
\* what that service reported later, although two connections of the page may exist
\* at once and messages wait in both (until the user loads the page anew).
NeverOlder ==
  [][\A s \in Reporting :
       shown[s] # NoRow /\ shown'[s] # NoRow => shown[s].version <= shown'[s].version]_vars

\* The broadcaster knows the connections that have a handler, and no other: none is
\* deaf and none is left behind, whenever connections break (ServeHTTP).
ClientsAreServed == clients = {c \in Conns : conn[c].state # "free"}

\* A page that keeps its connection to a monitor whose simulator keeps running ends up
\* showing exactly the faults that are active, though its buffer drops the newest
\* snapshot when it is full and a row may be older than the snapshot it is in.
DashboardConverges ==
  <>[](up /\ Connected) => <>[](activeFaults = active)

\* "services: ServiceStatus[]" (dashboard/types/monitower.ts:39): a snapshot has an array
\* of services, so no message breaks the page.
PageSurvives == page = "shown"
=============================================================================
