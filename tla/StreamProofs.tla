---------------------------- MODULE StreamProofs ----------------------------
(***************************************************************************)
(* A page never goes back in time, and the broadcaster serves exactly the  *)
(* connections that have a handler: for any services, faults, connections  *)
(* and buffer sizes, and any number of changes, restarts and reconnects.   *)
(***************************************************************************)
EXTENDS Stream, TLAPS

-----------------------------------------------------------------------------
\* A connection is a record with a bounded queue of snapshots, and the poll loop has at
\* most one snapshot in its hands.
Shape ==
  /\ conn \in [Conns -> [state : {"free", "open", "gone"}, ch : Seq(Snapshots)]]
  /\ \A c \in Conns : Len(conn[c].ch) <= ClientBuffer
  /\ snapshot = <<>> \/ \E x \in Snapshots : snapshot = <<x>>

\* What is at rest: all of TypeOK but the connections and the snapshot.
Values ==
  /\ active \subseteq InjectedFaults
  /\ version \in 0..MaxChanges /\ started \in 0..version
  /\ up \in BOOLEAN
  /\ naming \in Snapshots /\ latest \in Snapshots /\ shown \in Snapshots
  /\ clients \subseteq Conns
  /\ page \in {"shown", "broken"}

\* A free slot holds no message for the connection that will take it.
FreeIsEmpty == \A c \in Conns : conn[c].state = "free" => conn[c].ch = <<>>

\* A page listens to one connection at a time.
OneOpen ==
  \A c, d \in Conns : conn[c].state = "open" /\ conn[d].state = "open" => c = d

\* Snapshot y has nothing of a service that is older than what x has of it.
NoLater(x, y) ==
  \A s \in Reporting : x[s] # NoRow /\ y[s] # NoRow => x[s].version <= y[s].version

NotFuture(x) == \A s \in Reporting : x[s] # NoRow => x[s].version <= version

\* What a service will report after x was seen is not older than x, even when the rows
\* between them have expired.
Behind(x) == NotFuture(x) /\ NoLater(x, latest) /\ NoLater(x, naming)

\* The way of a snapshot: from the writers and the latest rows to the poll loop, to the
\* channel of the open connection, to the page.
RowsInOrder == Behind(latest) /\ NotFuture(naming)

TakenInOrder == \A x \in Snapshots : snapshot = <<x>> => Behind(x)

QueuedInOrder ==
  \A c \in Conns : conn[c].state = "open" =>
    /\ \A i \in 1..Len(conn[c].ch) : Behind(conn[c].ch[i])
    /\ \A i, j \in 1..Len(conn[c].ch) : i <= j => NoLater(conn[c].ch[i], conn[c].ch[j])
    /\ \A i \in 1..Len(conn[c].ch), x \in Snapshots :
         snapshot = <<x>> => NoLater(conn[c].ch[i], x)

ShownFirst ==
  /\ Behind(shown)
  /\ \A x \in Snapshots : snapshot = <<x>> => NoLater(shown, x)
  /\ \A c \in Conns : conn[c].state = "open" =>
       \A i \in 1..Len(conn[c].ch) : NoLater(shown, conn[c].ch[i])

IInv ==
  /\ Values /\ Shape /\ ClientsAreServed /\ FreeIsEmpty /\ OneOpen
  /\ RowsInOrder /\ TakenInOrder /\ QueuedInOrder /\ ShownFirst

-----------------------------------------------------------------------------
\* What a channel send and a receive do to a queue of snapshots.
LEMMA OfferFacts ==
  ASSUME NEW s \in Seq(Snapshots), NEW x \in Snapshots
  PROVE  /\ s \o <<x>> \in Seq(Snapshots)
         /\ Len(s \o <<x>>) = Len(s) + 1
         /\ \A i \in 1..Len(s) : (s \o <<x>>)[i] = s[i]
         /\ (s \o <<x>>)[Len(s) + 1] = x
OBVIOUS

LEMMA TakeFacts ==
  ASSUME NEW s \in Seq(Snapshots), s # <<>>
  PROVE  /\ Head(s) \in Snapshots
         /\ 1 \in 1..Len(s) /\ Head(s) = s[1]
         /\ Tail(s) \in Seq(Snapshots)
         /\ Len(Tail(s)) = Len(s) - 1
         /\ \A i \in 1..Len(Tail(s)) : i + 1 \in 1..Len(s) /\ Tail(s)[i] = s[i + 1]
OBVIOUS

\* A broadcast is a channel send to each client with room, and nothing else.
LEMMA BroadcastFacts ==
  ASSUME Shape, PollBroadcast
  PROVE  \E x \in Snapshots :
           /\ snapshot = <<x>> /\ snapshot' = <<>>
           /\ conn' \in [Conns -> [state : {"free", "open", "gone"}, ch : Seq(Snapshots)]]
           /\ \A c \in Conns :
                /\ conn'[c].state = conn[c].state
                /\ \/ conn'[c].ch = conn[c].ch
                   \/ c \in clients /\ Len(conn[c].ch) < ClientBuffer
                        /\ conn'[c].ch = conn[c].ch \o <<x>>
<1>1. PICK x \in Snapshots : snapshot = <<x>>
  BY DEF Shape, PollBroadcast
<1>2. ASSUME NEW c \in Conns
      PROVE  /\ conn[c] \in [state : {"free", "open", "gone"}, ch : Seq(Snapshots)]
             /\ conn[c].ch \o <<x>> \in Seq(Snapshots)
  BY OfferFacts DEF Shape
<1>3. conn' = [c \in Conns |->
         IF c \in clients /\ Len(conn[c].ch) < ClientBuffer
           THEN [conn[c] EXCEPT !.ch = conn[c].ch \o <<x>>] ELSE conn[c]]
  BY <1>1 DEF PollBroadcast
<1>4. snapshot' = <<>>
  BY DEF PollBroadcast
<1>5. QED
  BY <1>1, <1>2, <1>3, <1>4

-----------------------------------------------------------------------------
LEMMA InitIInv == Init => IInv
<1> SUFFICES ASSUME Init PROVE IInv
  OBVIOUS
<1>2. Nothing \in Snapshots /\ \A s \in Reporting : Nothing[s] = NoRow
  BY DEF Nothing, Snapshots, RowOrNone
<1>3. Free \in [state : {"free", "open", "gone"}, ch : Seq(Snapshots)] /\ Len(Free.ch) = 0
  BY DEF Free
<1>4. Values /\ Shape
  BY <1>2, <1>3, StreamAssumption DEF Init, Values, Shape, defaultState
<1>5. ClientsAreServed /\ FreeIsEmpty /\ OneOpen
  BY DEF Init, ClientsAreServed, FreeIsEmpty, OneOpen, Free
<1>6. RowsInOrder /\ TakenInOrder /\ QueuedInOrder /\ ShownFirst
  BY <1>2 DEF Init, RowsInOrder, TakenInOrder, QueuedInOrder, ShownFirst, Behind, NotFuture,
     NoLater, defaultState, Free
<1>7. QED
  BY <1>4, <1>5, <1>6 DEF IInv

\* The values keep their types.
LEMMA ValuesStep ==
  ASSUME Values, Shape, [Next]_vars
  PROVE  Values'
<1>1. version \in Nat /\ MaxChanges \in Nat
  BY StreamAssumption DEF Values
<1>2. Nothing \in Snapshots
  BY DEF Nothing, Snapshots, RowOrNone
<1>3. ASSUME NEW f \in InjectedFaults, Inject(f) PROVE Values'
  BY <1>1, <1>3 DEF Inject, Values, browser
<1>4. CASE Stop \/ SimulatorStops \/ SimulatorStarts
  <2>1. CASE Stop
    BY <1>1, <2>1 DEF Stop, Values, browser
  <2>2. CASE SimulatorStops
    BY <1>2, <2>2 DEF SimulatorStops, Values, browser
  <2>3. CASE SimulatorStarts
    BY <1>1, <2>3 DEF SimulatorStarts, Values, browser
  <2>4. QED
    BY <1>4, <2>1, <2>2, <2>3
<1>5. ASSUME NEW s \in Reporting, NameFaults(s) PROVE Values'
  <2>1. Row(active, version) \in RowOrNone
    BY DEF Row, RowOrNone, Values
  <2>2. naming' \in Snapshots
    BY <2>1, <1>5 DEF NameFaults, Values, Snapshots
  <2>3. QED
    BY <2>2, <1>5 DEF NameFaults, Values, simulator, browser
<1>6. ASSUME NEW s \in Reporting, InsertRow(s) \/ InsertFails(s) \/ RowTooOld(s) PROVE Values'
  <2>1. naming' \in Snapshots /\ latest' \in Snapshots
    BY <1>6 DEF InsertRow, InsertFails, RowTooOld, Values, Snapshots, RowOrNone
  <2>2. QED
    BY <2>1, <1>6 DEF InsertRow, InsertFails, RowTooOld, Values, simulator, browser
<1>7. CASE PollRead \/ PollBroadcast \/ UNCHANGED vars
  BY <1>7 DEF PollRead, PollBroadcast, Values, simulator, browser, vars
<1>8. CASE Reload
  BY <1>2, <1>8 DEF Reload, Values, simulator, defaultState
<1>9. ASSUME NEW c \in Conns, Connect(c) \/ Disconnect(c) \/ Unregister(c) PROVE Values'
  BY <1>9 DEF Connect, Disconnect, Unregister, Values, simulator, browser
<1>10. ASSUME NEW c \in Conns, Receive(c) PROVE Values'
  <2>1. conn[c].ch \in Seq(Snapshots) /\ conn[c].ch # <<>>
    BY <1>10 DEF Receive, Shape
  <2>2. Head(conn[c].ch) \in Snapshots
    BY <2>1, TakeFacts
  <2>3. QED
    BY <2>2, <1>10 DEF Receive, Values, simulator
<1>11. QED
  BY <1>3, <1>4, <1>5, <1>6, <1>7, <1>8, <1>9, <1>10 DEF Next

\* The connections, the clients registered for them and the snapshot keep in step.
Connections == Shape /\ ClientsAreServed /\ FreeIsEmpty /\ OneOpen

LEMMA ConnectionsStep ==
  ASSUME Values, Connections, [Next]_vars
  PROVE  Connections'
<1> USE DEF Connections
<1>1. CASE UNCHANGED <<snapshot, clients, conn>>
  BY <1>1 DEF Shape, ClientsAreServed, FreeIsEmpty, OneOpen
<1>2. CASE PollRead
  BY <1>2 DEF PollRead, Values, Shape, ClientsAreServed, FreeIsEmpty, OneOpen
<1>3. CASE PollBroadcast
  <2>1. PICK x \in Snapshots :
           /\ snapshot = <<x>> /\ snapshot' = <<>>
           /\ conn' \in [Conns -> [state : {"free", "open", "gone"}, ch : Seq(Snapshots)]]
           /\ \A c \in Conns :
                /\ conn'[c].state = conn[c].state
                /\ \/ conn'[c].ch = conn[c].ch
                   \/ c \in clients /\ Len(conn[c].ch) < ClientBuffer
                        /\ conn'[c].ch = conn[c].ch \o <<x>>
    BY <1>3, BroadcastFacts
  <2>2. clients' = clients
    BY <1>3 DEF PollBroadcast
  <2>3. ASSUME NEW c \in Conns PROVE Len(conn'[c].ch) <= ClientBuffer
    <3>1. conn[c].ch \in Seq(Snapshots) /\ Len(conn[c].ch) \in Nat
             /\ Len(conn[c].ch) <= ClientBuffer
      BY DEF Shape
    <3>2. Len(conn[c].ch \o <<x>>) = Len(conn[c].ch) + 1
      BY <3>1, OfferFacts
    <3>3. QED
      BY <2>1, <3>1, <3>2, StreamAssumption
  <2>4. ASSUME NEW c \in Conns, conn'[c].state = "free" PROVE conn'[c].ch = <<>>
    BY <2>1, <2>4 DEF ClientsAreServed, FreeIsEmpty
  <2>5. QED
    BY <2>1, <2>2, <2>3, <2>4 DEF Shape, ClientsAreServed, FreeIsEmpty, OneOpen
<1>4. ASSUME NEW c \in Conns, Connect(c) PROVE Connections'
  BY <1>4 DEF Connect, Connected, Shape, ClientsAreServed, FreeIsEmpty, OneOpen
<1>5. ASSUME NEW c \in Conns, Disconnect(c) PROVE Connections'
  BY <1>5 DEF Disconnect, Shape, ClientsAreServed, FreeIsEmpty, OneOpen
<1>6. ASSUME NEW c \in Conns, Unregister(c) PROVE Connections'
  <2>1. Free \in [state : {"free", "open", "gone"}, ch : Seq(Snapshots)] /\ Len(Free.ch) = 0
    BY DEF Free
  <2>2. QED
    BY <2>1, <1>6, StreamAssumption
    DEF Unregister, Free, Shape, ClientsAreServed, FreeIsEmpty, OneOpen
<1>7. ASSUME NEW c \in Conns, Receive(c) PROVE Connections'
  <2>1. conn[c].ch \in Seq(Snapshots) /\ conn[c].ch # <<>> /\ Len(conn[c].ch) <= ClientBuffer
    BY <1>7 DEF Receive, Shape
  <2>2. /\ Tail(conn[c].ch) \in Seq(Snapshots)
        /\ Len(Tail(conn[c].ch)) = Len(conn[c].ch) - 1
        /\ Len(conn[c].ch) \in Nat
    BY <2>1, TakeFacts
  <2>3. PICK st \in {"open", "gone"} :
           conn' = [conn EXCEPT ![c] = [state |-> st, ch |-> Tail(conn[c].ch)]]
    BY <1>7 DEF Receive, Shape
  <2>4. snapshot' = snapshot /\ clients' = clients /\ conn[c].state = "open"
    BY <1>7 DEF Receive
  <2>5. Shape'
    BY <2>1, <2>2, <2>3, <2>4, StreamAssumption DEF Shape
  <2>6. QED
    BY <2>3, <2>4, <2>5 DEF Shape, ClientsAreServed, FreeIsEmpty, OneOpen
<1>8. CASE Reload
  BY <1>8 DEF Reload, Shape, ClientsAreServed, FreeIsEmpty, OneOpen
<1>9. QED
  BY <1>1, <1>2, <1>3, <1>4, <1>5, <1>6, <1>7, <1>8
  DEF Next, vars, Inject, Stop, SimulatorStops, SimulatorStarts, NameFaults, InsertRow,
      InsertFails, RowTooOld
-----------------------------------------------------------------------------
\* The order in which the stages of a snapshot hold what a service reported.
InOrder == RowsInOrder /\ TakenInOrder /\ QueuedInOrder /\ ShownFirst

LEMMA IInvParts == IInv <=> Values /\ Connections /\ InOrder
BY DEF IInv, Connections, InOrder

\* What the writers, the inserts and the clock of the database put in the place of a row
\* that was seen is never older.
LEMMA BehindStep ==
  ASSUME Values, RowsInOrder, [Next]_vars, NEW x \in Snapshots, Behind(x)
  PROVE  Behind(x)'
<1>1. /\ version \in Nat
      /\ \A s \in Reporting : /\ naming[s] # NoRow => naming[s].version \in Nat
                              /\ latest[s] # NoRow => latest[s].version \in Nat
                              /\ x[s] # NoRow => x[s].version \in Nat
  BY StreamAssumption DEF Values, Snapshots, RowOrNone
<1>2. CASE UNCHANGED <<version, naming, latest>>
  BY <1>2 DEF Behind, NotFuture, NoLater
<1>3. CASE version' = version + 1 /\ UNCHANGED <<naming, latest>>
  BY <1>1, <1>3 DEF Behind, NotFuture, NoLater
<1>4. CASE SimulatorStops
  BY <1>4 DEF SimulatorStops, Behind, NotFuture, NoLater, Nothing
<1>5. ASSUME NEW s \in Reporting, NameFaults(s) PROVE Behind(x)'
  BY <1>1, <1>5 DEF NameFaults, Behind, NotFuture, NoLater, Row, simulator, Values, Snapshots
<1>6. ASSUME NEW s \in Reporting, InsertRow(s) \/ InsertFails(s) \/ RowTooOld(s)
      PROVE  Behind(x)'
  BY <1>1, <1>6 DEF InsertRow, InsertFails, RowTooOld, Behind, NotFuture, NoLater, simulator,
     Values, Snapshots
<1>7. QED
  BY <1>2, <1>3, <1>4, <1>5, <1>6
  DEF Next, vars, Inject, Stop, SimulatorStarts, PollRead, PollBroadcast, Connect, Disconnect,
      Receive, Unregister, Reload, simulator

LEMMA RowsStep ==
  ASSUME Values, RowsInOrder, [Next]_vars
  PROVE  RowsInOrder'
<1>1. /\ version \in Nat
      /\ \A s \in Reporting : /\ naming[s] # NoRow => naming[s].version \in Nat
                              /\ latest[s] # NoRow => latest[s].version \in Nat
  BY StreamAssumption DEF Values, Snapshots, RowOrNone
<1>2. CASE UNCHANGED <<version, naming, latest>>
  BY <1>2 DEF RowsInOrder, Behind, NotFuture, NoLater
<1>3. CASE version' = version + 1 /\ UNCHANGED <<naming, latest>>
  BY <1>1, <1>3 DEF RowsInOrder, Behind, NotFuture, NoLater
<1>4. CASE SimulatorStops
  BY <1>4 DEF SimulatorStops, RowsInOrder, Behind, NotFuture, NoLater, Nothing
<1>5. ASSUME NEW s \in Reporting, NameFaults(s) PROVE RowsInOrder'
  BY <1>1, <1>5 DEF NameFaults, RowsInOrder, Behind, NotFuture, NoLater, Row, simulator,
     Values, Snapshots
<1>6. ASSUME NEW s \in Reporting, InsertRow(s) \/ InsertFails(s) \/ RowTooOld(s)
      PROVE  RowsInOrder'
  BY <1>1, <1>6 DEF InsertRow, InsertFails, RowTooOld, RowsInOrder, Behind, NotFuture, NoLater,
     simulator, Values, Snapshots
<1>7. QED
  BY <1>2, <1>3, <1>4, <1>5, <1>6
  DEF Next, vars, Inject, Stop, SimulatorStarts, PollRead, PollBroadcast, Connect, Disconnect,
      Receive, Unregister, Reload, simulator

\* A snapshot, wherever it waits, stays in order when the step only touches the rows.
LEMMA RestingStep ==
  ASSUME Values, Connections, InOrder, [Next]_vars, UNCHANGED <<snapshot, conn, shown>>
  PROVE  TakenInOrder' /\ QueuedInOrder' /\ ShownFirst'
<1>1. \A x \in Snapshots : Behind(x) => Behind(x)'
  BY BehindStep DEF InOrder
<1>2. shown \in Snapshots
  BY DEF Values
<1>3. \A c \in Conns : \A i \in 1..Len(conn[c].ch) : conn[c].ch[i] \in Snapshots
  BY DEF Connections, Shape
<1>4. TakenInOrder'
  BY <1>1 DEF InOrder, TakenInOrder
<1>5. QueuedInOrder'
  BY <1>1, <1>3 DEF InOrder, QueuedInOrder
<1>6. ShownFirst'
  <2>1. Behind(shown)'
    BY <1>1, <1>2 DEF InOrder, ShownFirst, Behind, NotFuture, NoLater
  <2>2. QED
    BY <2>1 DEF InOrder, ShownFirst
<1>7. QED
  BY <1>4, <1>5, <1>6
\* PollRead hands on the latest rows, which nothing that was seen is ahead of.
LEMMA PollReadStep ==
  ASSUME Values, Connections, InOrder, PollRead
  PROVE  InOrder'
<1>1. /\ snapshot = <<>> /\ snapshot' = <<latest>> /\ latest \in Snapshots
      /\ UNCHANGED <<version, naming, latest, conn, shown>>
  BY DEF PollRead, Values, simulator, browser
<1>2. \A x : Behind(x) <=> Behind(x)'
  BY <1>1 DEF Behind, NotFuture, NoLater
<1>3. \A x \in Snapshots : snapshot' = <<x>> => x = latest
  BY <1>1
<1>4. \A x : Behind(x) => NoLater(x, latest)
  BY DEF Behind
<1>5. RowsInOrder' /\ TakenInOrder'
  BY <1>1, <1>2, <1>3 DEF InOrder, RowsInOrder, TakenInOrder, NotFuture
<1>6. QueuedInOrder'
  BY <1>1, <1>2, <1>3, <1>4 DEF InOrder, QueuedInOrder
<1>7. ShownFirst'
  BY <1>1, <1>2, <1>3, <1>4 DEF InOrder, ShownFirst
<1>8. QED
  BY <1>5, <1>6, <1>7 DEF InOrder

\* What a broadcast adds to a channel comes after all that waits there, whether or not
\* snapshots before it were dropped.
LEMMA PollBroadcastStep ==
  ASSUME Values, Connections, InOrder, PollBroadcast
  PROVE  InOrder'
<1>1. PICK x \in Snapshots :
         /\ snapshot = <<x>> /\ snapshot' = <<>>
         /\ conn' \in [Conns -> [state : {"free", "open", "gone"}, ch : Seq(Snapshots)]]
         /\ \A c \in Conns :
              /\ conn'[c].state = conn[c].state
              /\ \/ conn'[c].ch = conn[c].ch
                 \/ c \in clients /\ Len(conn[c].ch) < ClientBuffer
                      /\ conn'[c].ch = conn[c].ch \o <<x>>
  BY BroadcastFacts DEF Connections
<1>2. UNCHANGED <<version, naming, latest, shown>>
  BY DEF PollBroadcast, simulator, browser
<1>3. \A y : Behind(y) <=> Behind(y)'
  BY <1>2 DEF Behind, NotFuture, NoLater
<1>4. \A y \in Snapshots : snapshot' # <<y>>
  BY <1>1
<1>5. RowsInOrder' /\ TakenInOrder'
  BY <1>2, <1>3, <1>4 DEF InOrder, RowsInOrder, TakenInOrder, NotFuture
<1>6. Behind(x) /\ NoLater(shown, x) /\ NoLater(x, x)
  <2>1. Behind(x) /\ NoLater(shown, x)
    BY <1>1 DEF InOrder, TakenInOrder, ShownFirst
  <2>2. NoLater(x, x)
    BY DEF NoLater, Snapshots, RowOrNone
  <2>3. QED
    BY <2>1, <2>2
<1>7. ASSUME NEW c \in Conns, conn'[c].state = "open"
      PROVE  /\ \A i \in 1..Len(conn'[c].ch) : Behind(conn'[c].ch[i])
             /\ \A i, j \in 1..Len(conn'[c].ch) :
                  i <= j => NoLater(conn'[c].ch[i], conn'[c].ch[j])
             /\ \A i \in 1..Len(conn'[c].ch) : NoLater(shown, conn'[c].ch[i])
  <2>1. /\ \A i \in 1..Len(conn[c].ch) : Behind(conn[c].ch[i])
        /\ \A i, j \in 1..Len(conn[c].ch) : i <= j => NoLater(conn[c].ch[i], conn[c].ch[j])
        /\ \A i \in 1..Len(conn[c].ch) : NoLater(conn[c].ch[i], x)
        /\ \A i \in 1..Len(conn[c].ch) : NoLater(shown, conn[c].ch[i])
    BY <1>1, <1>7 DEF InOrder, QueuedInOrder, ShownFirst
  <2>2. CASE conn'[c].ch = conn[c].ch
    BY <2>1, <2>2
  <2>3. CASE conn'[c].ch = conn[c].ch \o <<x>>
    <3>1. conn[c].ch \in Seq(Snapshots) /\ Len(conn[c].ch) \in Nat
      BY DEF Connections, Shape
    <3>2. /\ Len(conn'[c].ch) = Len(conn[c].ch) + 1
          /\ \A i \in 1..Len(conn[c].ch) : conn'[c].ch[i] = conn[c].ch[i]
          /\ conn'[c].ch[Len(conn[c].ch) + 1] = x
      BY <2>3, <3>1, OfferFacts
    <3>3. \A i \in 1..Len(conn'[c].ch) : i \in 1..Len(conn[c].ch) \/ i = Len(conn[c].ch) + 1
      BY <3>1, <3>2
    <3>4. \A i \in 1..Len(conn[c].ch) : ~(Len(conn[c].ch) + 1 <= i)
      BY <3>1
    <3>5. QED
      BY <1>6, <2>1, <3>2, <3>3, <3>4
  <2>4. QED
    BY <1>1, <2>2, <2>3
<1>8. QueuedInOrder'
  BY <1>3, <1>4, <1>7 DEF QueuedInOrder
<1>9. ShownFirst'
  BY <1>2, <1>3, <1>4, <1>7 DEF InOrder, ShownFirst
<1>10. QED
  BY <1>5, <1>8, <1>9 DEF InOrder

\* A connection that opens has an empty channel; one that is gone is not listened to; a
\* page that is loaded anew shows nothing.
LEMMA ConnectionStep ==
  ASSUME Values, Connections, InOrder,
         Reload \/ \E c \in Conns : Connect(c) \/ Disconnect(c) \/ Unregister(c)
  PROVE  InOrder'
<1>1. UNCHANGED <<version, naming, latest, snapshot>>
  BY DEF Reload, Connect, Disconnect, Unregister, simulator
<1>2. /\ shown' = shown \/ shown' = Nothing
      /\ \A c \in Conns : conn'[c].state = "open" =>
           conn'[c].ch = <<>> \/ (conn[c].state = "open" /\ conn'[c].ch = conn[c].ch)
  <2>1. CASE Reload
    BY <2>1 DEF Reload, Connections, Shape, defaultState
  <2>2. ASSUME NEW c \in Conns, Connect(c) \/ Disconnect(c) \/ Unregister(c)
        PROVE  <1>2!:
    BY <2>2 DEF Connect, Disconnect, Unregister, Free, Connections, Shape, FreeIsEmpty, browser
  <2>3. QED
    BY <2>1, <2>2
<1>3. \A x : (Behind(x) <=> Behind(x)') /\ Behind(Nothing) /\ NoLater(Nothing, x)
  BY <1>1 DEF Behind, NotFuture, NoLater, Nothing
<1>4. \A i : i \notin 1..Len(<<>>)
  OBVIOUS
<1>5. RowsInOrder' /\ TakenInOrder'
  BY <1>1, <1>3 DEF InOrder, RowsInOrder, TakenInOrder, NotFuture
<1>6. QueuedInOrder'
  BY <1>1, <1>2, <1>3, <1>4 DEF InOrder, QueuedInOrder
<1>7. ShownFirst'
  BY <1>1, <1>2, <1>3, <1>4 DEF InOrder, ShownFirst
<1>8. QED
  BY <1>5, <1>6, <1>7 DEF InOrder

\* The page takes the oldest message of the one connection it listens to.
LEMMA ReceiveStep ==
  ASSUME Values, Connections, InOrder, NEW c \in Conns, Receive(c)
  PROVE  InOrder' /\ NoLater(shown, shown')
<1>1. UNCHANGED <<version, naming, latest, snapshot>>
  BY DEF Receive, simulator
<1>2. conn[c].ch \in Seq(Snapshots) /\ conn[c].ch # <<>> /\ conn[c].state = "open"
  BY DEF Receive, Connections, Shape
<1>3. PICK st \in {"open", "gone"} :
         /\ conn' = [conn EXCEPT ![c] = [state |-> st, ch |-> Tail(conn[c].ch)]]
         /\ \/ shown' = shown
            \/ shown' = Head(conn[c].ch)
  BY DEF Receive, Connections, Shape
<1>4. /\ 1 \in 1..Len(conn[c].ch) /\ Head(conn[c].ch) = conn[c].ch[1]
      /\ \A i \in 1..Len(Tail(conn[c].ch)) :
           /\ i + 1 \in 1..Len(conn[c].ch)
           /\ Tail(conn[c].ch)[i] = conn[c].ch[i + 1]
           /\ 1 <= i + 1
           /\ \A j \in 1..Len(Tail(conn[c].ch)) : i <= j => i + 1 <= j + 1
  BY <1>2, TakeFacts
<1>5. conn'[c].ch = Tail(conn[c].ch) /\ \A d \in Conns : d # c => conn'[d] = conn[d]
  BY <1>3 DEF Connections, Shape
<1>6. \A d \in Conns : conn'[d].state = "open" => d = c
  BY <1>2, <1>5 DEF Connections, OneOpen
<1>7. \A x : Behind(x) <=> Behind(x)'
  BY <1>1 DEF Behind, NotFuture, NoLater
<1>8. /\ \A i \in 1..Len(conn[c].ch) : Behind(conn[c].ch[i]) /\ NoLater(shown, conn[c].ch[i])
      /\ \A i, j \in 1..Len(conn[c].ch) : i <= j => NoLater(conn[c].ch[i], conn[c].ch[j])
      /\ \A i \in 1..Len(conn[c].ch), x \in Snapshots :
           snapshot = <<x>> => NoLater(conn[c].ch[i], x)
  BY <1>2 DEF InOrder, QueuedInOrder, ShownFirst
<1>9. RowsInOrder' /\ TakenInOrder'
  BY <1>1, <1>7 DEF InOrder, RowsInOrder, TakenInOrder, NotFuture
<1>10. QueuedInOrder'
  <2>1. \A i \in 1..Len(conn'[c].ch) : Behind(conn'[c].ch[i])
    BY <1>4, <1>5, <1>8
  <2>2. \A i, j \in 1..Len(conn'[c].ch) :
          i <= j => NoLater(conn'[c].ch[i], conn'[c].ch[j])
    BY <1>4, <1>5, <1>8
  <2>3. \A i \in 1..Len(conn'[c].ch), x \in Snapshots :
          snapshot' = <<x>> => NoLater(conn'[c].ch[i], x)
    BY <1>1, <1>4, <1>5, <1>8
  <2>4. QED
    BY <1>6, <1>7, <2>1, <2>2, <2>3 DEF QueuedInOrder
<1>11. ShownFirst'
  BY <1>1, <1>3, <1>4, <1>5, <1>6, <1>7, <1>8 DEF InOrder, ShownFirst
<1>12. NoLater(shown, shown')
  <2>1. NoLater(shown, shown)
    BY DEF NoLater, Values, Snapshots, RowOrNone
  <2>2. QED
    BY <2>1, <1>3, <1>4, <1>8
<1>13. QED
  BY <1>9, <1>10, <1>11, <1>12 DEF InOrder

-----------------------------------------------------------------------------
LEMMA IInvStep == IInv /\ [Next]_vars => IInv'
<1> SUFFICES ASSUME Values, Connections, InOrder, [Next]_vars
             PROVE  Values' /\ Connections' /\ InOrder'
  BY DEF IInv, Connections, InOrder
<1>1. Values' /\ Connections'
  BY ValuesStep, ConnectionsStep DEF Connections
<1>2. InOrder'
  <2>1. CASE UNCHANGED <<snapshot, conn, shown>>
    BY <2>1, RestingStep, RowsStep DEF InOrder
  <2>2. CASE PollRead
    BY <2>2, PollReadStep
  <2>3. CASE PollBroadcast
    BY <2>3, PollBroadcastStep
  <2>4. CASE Reload \/ \E c \in Conns : Connect(c) \/ Disconnect(c) \/ Unregister(c)
    BY <2>4, ConnectionStep
  <2>5. CASE \E c \in Conns : Receive(c)
    BY <2>5, ReceiveStep
  <2>6. QED
    BY <2>1, <2>2, <2>3, <2>4, <2>5
    DEF Next, vars, Inject, Stop, SimulatorStops, SimulatorStarts, NameFaults, InsertRow,
        InsertFails, RowTooOld, browser
<1>3. QED
  BY <1>1, <1>2

LEMMA IInvHolds == Spec => []IInv
BY InitIInv, IInvStep, PTL DEF Spec

\* The types of the rows, of the snapshots, of the channels and of the page, and the bound
\* of every channel (broadcast and ServeHTTP).
THEOREM TypesHold == Spec => []TypeOK
<1>1. IInv => TypeOK
  <2> SUFFICES ASSUME IInv PROVE TypeOK
    OBVIOUS
  <2>1. snapshot = <<>> \/ (Len(snapshot) = 1 /\ Head(snapshot) \in Snapshots)
    BY DEF IInv, Shape
  <2>2. \A c \in Conns : /\ conn[c].state \in {"free", "open", "gone"}
                         /\ Len(conn[c].ch) <= ClientBuffer
                         /\ ToSet(conn[c].ch) \subseteq Snapshots
    BY DEF IInv, Shape, ToSet
  <2>3. QED
    BY <2>1, <2>2 DEF IInv, Values, TypeOK
<1>2. QED
  BY <1>1, IInvHolds, PTL

\* The broadcaster's map holds the connections that have a handler, whatever order they
\* come, break and are unregistered in (ServeHTTP).
THEOREM ClientsServed == Spec => []ClientsAreServed
<1>1. IInv => ClientsAreServed
  BY DEF IInv
<1>2. QED
  BY <1>1, IInvHolds, PTL

\* A page shows of each service rows in the order in which they were reported, through
\* restarts of the simulator, dropped snapshots and reconnects.
THEOREM PageNeverGoesBack == Spec => NeverOlder
<1>1. IInv /\ [Next]_vars => NoLater(shown, shown')
  <2> SUFFICES ASSUME Values, Connections, InOrder, [Next]_vars PROVE NoLater(shown, shown')
    BY DEF IInv, Connections, InOrder
  <2>1. CASE shown' = shown
    BY <2>1 DEF NoLater, Values, Snapshots, RowOrNone
  <2>2. CASE Reload
    BY <2>2 DEF Reload, NoLater, defaultState, Nothing
  <2>3. CASE \E c \in Conns : Receive(c)
    BY <2>3, ReceiveStep
  <2>4. QED
    BY <2>1, <2>2, <2>3
    DEF Next, vars, Inject, Stop, SimulatorStops, SimulatorStarts, NameFaults, InsertRow,
        InsertFails, RowTooOld, PollRead, PollBroadcast, Connect, Disconnect, Unregister, browser
<1>2. IInv /\ [Next]_vars =>
        [\A s \in Reporting :
           shown[s] # NoRow /\ shown'[s] # NoRow => shown[s].version <= shown'[s].version]_vars
  BY <1>1 DEF NoLater
<1>3. QED
  BY <1>2, IInvHolds, PTL DEF NeverOlder, Spec
=============================================================================
