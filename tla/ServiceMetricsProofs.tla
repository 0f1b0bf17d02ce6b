------------------------ MODULE ServiceMetricsProofs ------------------------
(***************************************************************************)
(* The accounts of service_metrics, for any set of services and of metrics *)
(* writers and any number of requests.                                     *)
(***************************************************************************)
EXTENDS ServiceMetrics, SumTheorems

-----------------------------------------------------------------------------
Fields == DOMAIN Zero
Numbers == [Fields -> Nat]

Types ==
  /\ pending \in 0..1
  /\ pending = 1 => "order" \in Metered
  /\ counters \in [Metered -> Numbers]
  /\ reported \in [Metered -> Numbers] /\ lost \in [Metered -> Numbers]
  /\ happened \in [Metered -> Numbers]
  /\ flush \in [Flushers -> [pc : {"idle", "insert"}, taken : Numbers]]

\* A flusher that has no row to insert has nothing in its hands.
HandsEmpty == \A f \in Flushers : flush[f].pc = "idle" => flush[f].taken = Zero

\* A request of the order service has one outcome, or none while it is pending.
RequestsHaveOutcomes ==
  \A s \in Metered :
    /\ happened[s].total <= MaxRequests
    /\ Unbalanced(happened[s]) = IF s = "order" THEN pending ELSE 0

\* The counters hold a total for each outcome; in the order service they may lack the
\* total of the first outcome, and the outcome of the last total.
CountersBalance ==
  \A s \in Metered :
    IF s # "order" THEN Unbalanced(counters[s]) = 0
    ELSE IF pending = 1 THEN Unbalanced(counters[s]) \in 0..1
    ELSE Unbalanced(counters[s]) \in -1..0

IInv ==
  /\ Types /\ HandsEmpty /\ RequestsHaveOutcomes
  /\ OutcomesReportedOnce /\ CountersBalance /\ WindowsBalance

-----------------------------------------------------------------------------
LEMMA FieldsAre == Fields = {"good", "errors", "total"} /\ Kinds \subseteq Fields
BY DEF Fields, Zero, Kinds

LEMMA ZeroType == Zero \in Numbers /\ \A field \in Fields : Zero[field] = 0
BY DEF Zero, Numbers, Fields

LEMMA PlusType ==
  ASSUME NEW a \in Numbers, NEW b \in Numbers
  PROVE  Plus(a, b) \in Numbers /\ \A field \in Fields : Plus(a, b)[field] = a[field] + b[field]
BY DEF Plus, Numbers, Fields

\* d is c with one more in each of the fields ks of service s.
OneMore(d, c, s, ks) ==
  /\ d \in [Metered -> Numbers]
  /\ \A t \in Metered \ {s} : d[t] = c[t]
  /\ \A field \in Fields : d[s][field] = c[s][field] + (IF field \in ks THEN 1 ELSE 0)

LEMMA OneMoreOf ==
  ASSUME NEW c \in [Metered -> Numbers], NEW s \in Metered, NEW kind \in Fields
  PROVE  OneMore([c EXCEPT ![s][kind] = @ + 1], c, s, {kind})
<1> DEFINE d == [c EXCEPT ![s][kind] = @ + 1]
<1>1. c[s] \in Numbers
  OBVIOUS
<1>2. /\ d[s] = [c[s] EXCEPT ![kind] = @ + 1]
      /\ d = [t \in Metered |-> d[t]]
      /\ \A t \in Metered \ {s} : d[t] = c[t]
  OBVIOUS
<1> HIDE DEF d
<1>3. d[s] \in Numbers /\ \A field \in Fields :
        d[s][field] = c[s][field] + (IF field \in {kind} THEN 1 ELSE 0)
  BY <1>1, <1>2 DEF Numbers
<1>4. d \in [Metered -> Numbers]
  BY <1>2, <1>3
<1>5. QED
  BY <1>2, <1>3, <1>4 DEF OneMore, d

LEMMA OneMoreTotal ==
  ASSUME NEW c \in [Metered -> Numbers], NEW s \in Metered
  PROVE  OneMore([c EXCEPT ![s].total = @ + 1], c, s, {"total"})
<1>1. [c EXCEPT ![s].total = @ + 1] = [c EXCEPT ![s]["total"] = @ + 1]
  OBVIOUS
<1>2. QED
  BY <1>1, FieldsAre, OneMoreOf

LEMMA OneMoreOfBoth ==
  ASSUME NEW c \in [Metered -> Numbers], NEW s \in Metered, NEW kind \in Kinds
  PROVE  OneMore([c EXCEPT ![s][kind] = @ + 1, ![s].total = @ + 1], c, s, {kind, "total"})
<1> DEFINE d == [c EXCEPT ![s][kind] = @ + 1, ![s].total = @ + 1]
<1>1. c[s] \in Numbers /\ kind \in Fields /\ "total" \in Fields /\ kind # "total"
  BY FieldsAre DEF Kinds
<1>2. /\ d[s] = [c[s] EXCEPT ![kind] = @ + 1, !.total = @ + 1]
      /\ d = [t \in Metered |-> d[t]]
      /\ \A t \in Metered \ {s} : d[t] = c[t]
  OBVIOUS
<1> HIDE DEF d
<1>3. d[s] \in Numbers /\ \A field \in Fields :
        d[s][field] = c[s][field] + (IF field \in {kind, "total"} THEN 1 ELSE 0)
  <2> DEFINE e == c[s]
  <2>1. e \in [Fields -> Nat]
    BY <1>1 DEF Numbers
  <2> HIDE DEF e
  <2>2. d[s] = [e EXCEPT ![kind] = @ + 1, !["total"] = @ + 1]
    BY <1>2 DEF e
  <2>3. /\ d[s] = [field \in Fields |-> d[s][field]]
        /\ d[s][kind] = e[kind] + 1
        /\ d[s]["total"] = e["total"] + 1
        /\ \A field \in Fields \ {kind, "total"} : d[s][field] = e[field]
    BY <1>1, <2>1, <2>2
  <2>4. \A field \in Fields : e[field] \in Nat
    BY <2>1
  <2>5. \A field \in Fields :
          d[s][field] = e[field] + (IF field \in {kind, "total"} THEN 1 ELSE 0)
    BY <2>3, <2>4
  <2>6. \A field \in Fields : d[s][field] \in Nat
    BY <2>4, <2>5
  <2>7. d[s] \in [Fields -> Nat]
    BY <2>3, <2>6
  <2>8. QED
    BY <2>5, <2>7 DEF Numbers, e
<1>4. d \in [Metered -> Numbers]
  BY <1>2, <1>3
<1>5. QED
  BY <1>2, <1>3, <1>4 DEF OneMore, d

\* The goroutines of a service count what happens, field by field.
LEMMA ServiceSteps ==
  ASSUME Types
  PROVE  /\ OrderBegins => /\ OneMore(counters', counters, "order", {"total"})
                           /\ OneMore(happened', happened, "order", {"total"})
         /\ \A kind \in Kinds : OrderEnds(kind) =>
              /\ OneMore(counters', counters, "order", {kind})
              /\ OneMore(happened', happened, "order", {kind})
         /\ \A kind \in Kinds, s \in Metered : Outcome(s, kind) =>
              /\ OneMore(counters', counters, s, {kind, "total"})
              /\ OneMore(happened', happened, s, {kind, "total"})
<1>1. counters \in [Metered -> Numbers] /\ happened \in [Metered -> Numbers]
  BY DEF Types
<1>2. ASSUME OrderBegins
      PROVE  /\ OneMore(counters', counters, "order", {"total"})
             /\ OneMore(happened', happened, "order", {"total"})
  BY <1>1, <1>2, OneMoreTotal DEF OrderBegins
<1>3. ASSUME NEW kind \in Kinds, OrderEnds(kind)
      PROVE  /\ OneMore(counters', counters, "order", {kind})
             /\ OneMore(happened', happened, "order", {kind})
  <2>1. "order" \in Metered /\ kind \in Fields
    BY <1>3, FieldsAre DEF OrderEnds, Types
  <2>2. QED
    BY <1>1, <1>3, <2>1, OneMoreOf DEF OrderEnds
<1>4. ASSUME NEW kind \in Kinds, NEW s \in Metered, Outcome(s, kind)
      PROVE  /\ OneMore(counters', counters, s, {kind, "total"})
             /\ OneMore(happened', happened, s, {kind, "total"})
  BY <1>1, <1>4, OneMoreOfBoth DEF Outcome
<1>5. QED
  BY <1>2, <1>3, <1>4

-----------------------------------------------------------------------------
LEMMA TypesInit == Init => Types
<1> SUFFICES ASSUME Init PROVE Types
  OBVIOUS
<1>1. flush \in [Flushers -> [pc : {"idle", "insert"}, taken : Numbers]]
  BY ZeroType DEF Init, Idle
<1>2. QED
  BY <1>1, ZeroType DEF Init, Types

LEMMA TypesStep ==
  ASSUME Types, [Next]_vars
  PROVE  Types'
<1>1. CASE OrderBegins
  <2>1. counters' \in [Metered -> Numbers] /\ happened' \in [Metered -> Numbers]
    BY <1>1, ServiceSteps DEF OneMore
  <2>2. QED
    BY <1>1, <2>1 DEF OrderBegins, Types
<1>2. ASSUME NEW kind \in Kinds, OrderEnds(kind) PROVE Types'
  <2>1. counters' \in [Metered -> Numbers] /\ happened' \in [Metered -> Numbers]
    BY <1>2, ServiceSteps DEF OneMore
  <2>2. QED
    BY <1>2, <2>1 DEF OrderEnds, Types
<1>3. ASSUME NEW kind \in Kinds, NEW s \in Metered, Outcome(s, kind) PROVE Types'
  <2>1. counters' \in [Metered -> Numbers] /\ happened' \in [Metered -> Numbers]
    BY <1>3, ServiceSteps DEF OneMore
  <2>2. QED
    BY <1>3, <2>1 DEF Outcome, Types
<1>4. ASSUME NEW f \in Flushers, FlushTake(f) PROVE Types'
  <2>1. FlusherOf[f] \in Metered
    BY ServiceMetricsAssumption
  <2>2. counters[FlusherOf[f]] \in Numbers
    BY <2>1 DEF Types
  <2>3. counters' \in [Metered -> Numbers]
    BY <1>4, <2>1, ZeroType DEF FlushTake, Types
  <2>4. flush' \in [Flushers -> [pc : {"idle", "insert"}, taken : Numbers]]
    BY <1>4, <2>2 DEF FlushTake, Types
  <2>5. QED
    BY <1>4, <2>3, <2>4 DEF FlushTake, Types
<1>5. ASSUME NEW f \in Flushers, FlushInsert(f) PROVE Types'
  <2>1. FlusherOf[f] \in Metered /\ flush[f].taken \in Numbers
    BY ServiceMetricsAssumption DEF Types
  <2>2. /\ Plus(reported[FlusherOf[f]], flush[f].taken) \in Numbers
        /\ Plus(lost[FlusherOf[f]], flush[f].taken) \in Numbers
    BY <2>1, PlusType DEF Types
  <2>3. reported' \in [Metered -> Numbers] /\ lost' \in [Metered -> Numbers]
    BY <1>5, <2>2 DEF FlushInsert, Types
  <2>4. flush' \in [Flushers -> [pc : {"idle", "insert"}, taken : Numbers]]
    BY <1>5, ZeroType DEF FlushInsert, Types, Idle
  <2>5. QED
    BY <1>5, <2>3, <2>4 DEF FlushInsert, Types
<1>6. CASE UNCHANGED vars
  BY <1>6 DEF vars, Types
<1>7. QED
  BY <1>1, <1>2, <1>3, <1>4, <1>5, <1>6 DEF Next

-----------------------------------------------------------------------------
\* What the flushers of a service hold of a field, and its account, in explicit states.
Held(fl, s, field) ==
  SumFunctionOnSet([f \in Flushers |-> fl[f].taken[field]], Flushing(s))

Account(h, r, l, c, fl, s, field) ==
  h[s][field] = r[s][field] + l[s][field] + c[s][field] + Held(fl, s, field)

Accounts ==
  \A s \in Metered, field \in Fields :
    Account(happened, reported, lost, counters, flush, s, field)

LEMMA AccountsAre == Accounts <=> OutcomesReportedOnce
BY DEF Accounts, Account, Held, OutcomesReportedOnce, Fields

LEMMA FlushingFinite == \A s : IsFiniteSet(Flushing(s)) /\ Flushing(s) \subseteq Flushers
BY ServiceMetricsAssumption, FS_Subset DEF Flushing

\* All of it is numbers.
LEMMA AccountTypes ==
  ASSUME Types, NEW s \in Metered, NEW field \in Fields
  PROVE  /\ happened[s][field] \in Nat /\ reported[s][field] \in Nat
         /\ lost[s][field] \in Nat /\ counters[s][field] \in Nat
         /\ Held(flush, s, field) \in Nat
         /\ \A f \in Flushers : flush[f].taken \in Numbers /\ flush[f].taken[field] \in Nat
<1>1. /\ happened[s] \in Numbers /\ reported[s] \in Numbers
      /\ lost[s] \in Numbers /\ counters[s] \in Numbers
      /\ \A f \in Flushers : flush[f].taken \in Numbers
  BY DEF Types
<1>2. \A a \in Numbers : a[field] \in Nat
  BY DEF Numbers
<1> DEFINE g == [f \in Flushers |-> flush[f].taken[field]]
<1>3. \A f \in Flushing(s) : g[f] \in Nat
  BY <1>1, <1>2, FlushingFinite
<1> HIDE DEF g
<1>4. SumFunctionOnSet(g, Flushing(s)) \in Nat
  BY <1>3, FlushingFinite, SumTypeNat
<1>5. Held(flush, s, field) \in Nat
  BY <1>4 DEF Held, g
<1>6. QED
  BY <1>1, <1>2, <1>5

\* A flusher's step changes what is in its hands, of its service.
LEMMA HeldStep ==
  ASSUME Types, Types', NEW f \in Flushers, \A g \in Flushers \ {f} : flush'[g] = flush[g],
         NEW s \in Metered, NEW field \in Fields
  PROVE  Held(flush', s, field) =
           IF FlusherOf[f] = s
           THEN Held(flush, s, field) - flush[f].taken[field] + flush'[f].taken[field]
           ELSE Held(flush, s, field)
<1> DEFINE a == [g \in Flushers |-> flush[g].taken[field]]
           b == [g \in Flushers |-> flush'[g].taken[field]]
<1>1. IsFiniteSet(Flushing(s)) /\ Flushing(s) \subseteq Flushers
  BY FlushingFinite
<1>2. /\ \A g \in Flushing(s) : a[g] \in Int
      /\ \A g \in Flushing(s) \ {f} : b[g] = a[g]
      /\ a[f] = flush[f].taken[field] /\ b[f] = flush'[f].taken[field]
  BY <1>1, AccountTypes
<1>3. b[f] \in Int
  <2>1. flush'[f].taken \in [Fields -> Nat]
    BY DEF Types, Numbers
  <2>2. QED
    BY <2>1
<1>4. /\ Held(flush, s, field) = SumFunctionOnSet(a, Flushing(s))
      /\ Held(flush', s, field) = SumFunctionOnSet(b, Flushing(s))
  BY DEF Held
<1> HIDE DEF a, b
<1>5. CASE f \in Flushing(s)
  <2>1. SumFunctionOnSet(b, Flushing(s)) = SumFunctionOnSet(a, Flushing(s)) - a[f] + b[f]
    BY <1>1, <1>2, <1>3, <1>5, SumChange
  <2>2. FlusherOf[f] = s
    BY <1>5 DEF Flushing
  <2>3. QED
    BY <1>2, <1>4, <2>1, <2>2
<1>6. CASE f \notin Flushing(s)
  <2>1. \A g \in Flushing(s) : a[g] = b[g]
    BY <1>2, <1>6
  <2>2. SumFunctionOnSet(a, Flushing(s)) = SumFunctionOnSet(b, Flushing(s))
    BY <1>1, <2>1, SumSame
  <2>3. FlusherOf[f] # s
    BY <1>6 DEF Flushing
  <2>4. QED
    BY <1>4, <2>2, <2>3
<1>7. QED
  BY <1>5, <1>6

\* A step of a service's own goroutines counts what happens once.
LEMMA CountedAccounts ==
  ASSUME Types, Accounts, NEW s \in Metered, NEW ks,
         OneMore(counters', counters, s, ks), OneMore(happened', happened, s, ks),
         flush' = flush, reported' = reported, lost' = lost
  PROVE  Accounts'
<1> SUFFICES ASSUME NEW t \in Metered, NEW field \in Fields
             PROVE  Account(happened', reported', lost', counters', flush', t, field)
  BY DEF Accounts
<1>1. Account(happened, reported, lost, counters, flush, t, field)
  BY DEF Accounts
<1>2. CASE t # s
  <2>1. happened'[t] = happened[t] /\ counters'[t] = counters[t]
    BY <1>2 DEF OneMore
  <2>2. QED
    BY <1>1, <2>1 DEF Account
<1>3. CASE t = s
  <2> DEFINE h == happened[t][field]
             r == reported[t][field]
             l == lost[t][field]
             c == counters[t][field]
             k == Held(flush, t, field)
             d == IF field \in ks THEN 1 ELSE 0
  <2>1. happened'[t][field] = h + d /\ counters'[t][field] = c + d
    BY <1>3 DEF OneMore
  <2>2. h \in Nat /\ r \in Nat /\ l \in Nat /\ c \in Nat /\ k \in Nat /\ d \in Nat
    BY AccountTypes
  <2>3. h = r + l + c + k
    BY <1>1 DEF Account
  <2>4. Account(happened', reported', lost', counters', flush', t, field) <=>
          happened'[t][field] = r + l + counters'[t][field] + k
    BY DEF Account
  <2> HIDE DEF h, r, l, c, k, d
  <2>5. h + d = r + l + (c + d) + k
    BY <2>2, <2>3
  <2>6. QED
    BY <2>1, <2>4, <2>5
<1>4. QED
  BY <1>2, <1>3

LEMMA TakeAccounts ==
  ASSUME Types, Types', HandsEmpty, Accounts, NEW f \in Flushers, FlushTake(f)
  PROVE  Accounts'
<1> SUFFICES ASSUME NEW t \in Metered, NEW field \in Fields
             PROVE  Account(happened', reported', lost', counters', flush', t, field)
  BY DEF Accounts
<1> DEFINE h == happened[t][field]
           r == reported[t][field]
           l == lost[t][field]
           c == counters[t][field]
           k == Held(flush, t, field)
<1>1. h = r + l + c + k
  BY DEF Accounts, Account
<1>2. h \in Nat /\ r \in Nat /\ l \in Nat /\ c \in Nat /\ k \in Nat
  BY AccountTypes
<1>3. Account(happened', reported', lost', counters', flush', t, field) <=>
        h = r + l + counters'[t][field] + Held(flush', t, field)
  BY DEF Account, FlushTake
<1>4. \A g \in Flushers \ {f} : flush'[g] = flush[g]
  BY DEF FlushTake, Types
<1>5. Held(flush', t, field) =
        IF FlusherOf[f] = t THEN k - flush[f].taken[field] + flush'[f].taken[field] ELSE k
  BY <1>4, HeldStep
<1>6. CASE FlusherOf[f] # t
  <2>1. counters'[t] = counters[t]
    BY <1>6 DEF FlushTake, Types
  <2>2. QED
    BY <1>1, <1>3, <1>5, <1>6, <2>1
<1>7. CASE FlusherOf[f] = t
  <2>1. flush[f].taken[field] = 0
    BY ZeroType DEF FlushTake, HandsEmpty
  <2>2. counters'[t][field] = 0
    BY <1>7, ZeroType DEF FlushTake, Types
  <2>3. flush'[f].taken[field] = c
    BY <1>7 DEF FlushTake, Types
  <2> HIDE DEF h, r, l, c, k
  <2>4. Held(flush', t, field) = k + c
    BY <1>2, <1>5, <1>7, <2>1, <2>3
  <2>5. h = r + l + 0 + (k + c)
    BY <1>1, <1>2
  <2>6. QED
    BY <1>3, <2>2, <2>4, <2>5
<1>8. QED
  BY <1>6, <1>7

LEMMA InsertAccounts ==
  ASSUME Types, Types', Accounts, NEW f \in Flushers, FlushInsert(f)
  PROVE  Accounts'
<1> SUFFICES ASSUME NEW t \in Metered, NEW field \in Fields
             PROVE  Account(happened', reported', lost', counters', flush', t, field)
  BY DEF Accounts
<1> DEFINE h == happened[t][field]
           r == reported[t][field]
           l == lost[t][field]
           c == counters[t][field]
           k == Held(flush, t, field)
           n == flush[f].taken[field]
<1>1. h = r + l + c + k
  BY DEF Accounts, Account
<1>2. /\ h \in Nat /\ r \in Nat /\ l \in Nat /\ c \in Nat /\ k \in Nat /\ n \in Nat
      /\ flush[f].taken \in Numbers
  BY AccountTypes
<1>3. Account(happened', reported', lost', counters', flush', t, field) <=>
        h = reported'[t][field] + lost'[t][field] + c + Held(flush', t, field)
  BY DEF Account, FlushInsert
<1>4. \A g \in Flushers \ {f} : flush'[g] = flush[g]
  BY DEF FlushInsert, Types
<1>5. Held(flush', t, field) =
        IF FlusherOf[f] = t THEN k - n + flush'[f].taken[field] ELSE k
  BY <1>4, HeldStep
<1>6. CASE FlusherOf[f] # t
  <2>1. reported'[t] = reported[t] /\ lost'[t] = lost[t]
    BY <1>6 DEF FlushInsert, Types
  <2>2. QED
    BY <1>1, <1>3, <1>5, <1>6, <2>1
<1>7. CASE FlusherOf[f] = t
  <2>1. flush'[f].taken[field] = 0
    BY ZeroType DEF FlushInsert, Types, Idle
  <2>2. /\ Plus(reported[t], flush[f].taken)[field] = r + n
        /\ Plus(lost[t], flush[f].taken)[field] = l + n
    BY <1>2, PlusType DEF Types
  <2>3. \/ reported'[t][field] = r + n /\ lost'[t][field] = l
        \/ reported'[t][field] = r /\ lost'[t][field] = l + n
    BY <1>7, <2>2 DEF FlushInsert, Types
  <2> HIDE DEF h, r, l, c, k, n
  <2>4. Held(flush', t, field) = k - n
    BY <1>2, <1>5, <1>7, <2>1
  <2>5. h = (r + n) + l + c + (k - n) /\ h = r + (l + n) + c + (k - n)
    BY <1>1, <1>2
  <2>6. QED
    BY <1>3, <2>3, <2>4, <2>5
<1>8. QED
  BY <1>6, <1>7

-----------------------------------------------------------------------------
\* How one more changes the balance of a triple: a total adds one, an outcome takes one.
LEMMA BalanceStep ==
  ASSUME NEW c \in [Metered -> Numbers], NEW d, NEW s \in Metered, NEW kind \in Kinds
  PROVE  /\ Unbalanced(c[s]) \in Int
         /\ OneMore(d, c, s, {"total"}) => Unbalanced(d[s]) = Unbalanced(c[s]) + 1
         /\ OneMore(d, c, s, {kind}) => Unbalanced(d[s]) = Unbalanced(c[s]) - 1
         /\ OneMore(d, c, s, {kind, "total"}) => Unbalanced(d[s]) = Unbalanced(c[s])
<1> DEFINE t == c[s].total
           g == c[s].good
           e == c[s].errors
<1>1. t \in Nat /\ g \in Nat /\ e \in Nat
  <2>1. c[s] \in [{"good", "errors", "total"} -> Nat]
    BY FieldsAre DEF Numbers
  <2>2. QED
    BY <2>1
<1>2. Unbalanced(c[s]) = t - g - e
  BY DEF Unbalanced
<1>3. \A ks : OneMore(d, c, s, ks) =>
        /\ d[s].total = t + (IF "total" \in ks THEN 1 ELSE 0)
        /\ d[s].good = g + (IF "good" \in ks THEN 1 ELSE 0)
        /\ d[s].errors = e + (IF "errors" \in ks THEN 1 ELSE 0)
  BY FieldsAre DEF OneMore
<1>4. Unbalanced(d[s]) = d[s].total - d[s].good - d[s].errors
  BY DEF Unbalanced
<1>5. kind = "good" \/ kind = "errors"
  BY DEF Kinds
<1> HIDE DEF t, g, e
<1>6. ASSUME OneMore(d, c, s, {"total"})
      PROVE  Unbalanced(d[s]) = Unbalanced(c[s]) + 1
  <2>1. d[s].total = t + 1 /\ d[s].good = g /\ d[s].errors = e
    BY <1>1, <1>3, <1>6
  <2>2. (t + 1) - g - e = (t - g - e) + 1
    BY <1>1
  <2>3. QED
    BY <1>2, <1>4, <2>1, <2>2
<1>7. ASSUME OneMore(d, c, s, {kind})
      PROVE  Unbalanced(d[s]) = Unbalanced(c[s]) - 1
  <2>1. /\ d[s].total = t
        /\ \/ d[s].good = g + 1 /\ d[s].errors = e
           \/ d[s].good = g /\ d[s].errors = e + 1
    BY <1>1, <1>3, <1>5, <1>7
  <2>2. t - (g + 1) - e = (t - g - e) - 1 /\ t - g - (e + 1) = (t - g - e) - 1
    BY <1>1
  <2>3. QED
    BY <1>2, <1>4, <2>1, <2>2
<1>8. ASSUME OneMore(d, c, s, {kind, "total"})
      PROVE  Unbalanced(d[s]) = Unbalanced(c[s])
  <2>1. /\ d[s].total = t + 1
        /\ \/ d[s].good = g + 1 /\ d[s].errors = e
           \/ d[s].good = g /\ d[s].errors = e + 1
    BY <1>1, <1>3, <1>5, <1>8
  <2>2. (t + 1) - (g + 1) - e = t - g - e /\ (t + 1) - g - (e + 1) = t - g - e
    BY <1>1
  <2>3. QED
    BY <1>2, <1>4, <2>1, <2>2
<1>9. Unbalanced(c[s]) \in Int
  BY <1>1, <1>2
<1>10. QED
  BY <1>6, <1>7, <1>8, <1>9

LEMMA ZeroBalances == Unbalanced(Zero) = 0
BY DEF Unbalanced, Zero

Balanced(c, s, n) ==
  IF s # "order" THEN Unbalanced(c[s]) = 0
  ELSE IF n = 1 THEN Unbalanced(c[s]) \in 0..1
  ELSE Unbalanced(c[s]) \in -1..0

Outcomes(h, s, n) ==
  /\ h[s].total <= MaxRequests
  /\ Unbalanced(h[s]) = IF s = "order" THEN n ELSE 0

\* The goroutines of a service keep the triples balanced ...
LEMMA ServiceBalance ==
  ASSUME Types, CountersBalance, RequestsHaveOutcomes,
         \/ OrderBegins
         \/ \E kind \in Kinds : OrderEnds(kind) \/ \E s \in Metered : Outcome(s, kind)
  PROVE  CountersBalance' /\ RequestsHaveOutcomes'
<1>1. /\ counters \in [Metered -> Numbers] /\ happened \in [Metered -> Numbers]
      /\ pending \in 0..1
  BY DEF Types
<1>2. \A t \in Metered : Balanced(counters, t, pending) /\ Outcomes(happened, t, pending)
  BY DEF CountersBalance, RequestsHaveOutcomes, Balanced, Outcomes
<1>3. \A t \in Metered : happened[t].total \in Nat /\ happened[t]["total"] \in Nat
  <2>1. \A t \in Metered : happened[t] \in [Fields -> Nat] /\ "total" \in Fields
    BY <1>1, FieldsAre DEF Numbers
  <2>2. QED
    BY <2>1
<1> SUFFICES ASSUME NEW t \in Metered
             PROVE  Balanced(counters', t, pending') /\ Outcomes(happened', t, pending')
  BY DEF CountersBalance, RequestsHaveOutcomes, Balanced, Outcomes
<1>4. Unbalanced(counters[t]) \in Int /\ Unbalanced(happened[t]) \in Int
  BY <1>1, BalanceStep DEF Kinds
<1>5. CASE OrderBegins
  <2>1. /\ OneMore(counters', counters, "order", {"total"})
        /\ OneMore(happened', happened, "order", {"total"})
        /\ pending = 0 /\ pending' = 1 /\ "order" \in Metered
    BY <1>5, ServiceSteps DEF OrderBegins
  <2>2. CASE t = "order"
    <3>1. /\ Unbalanced(counters'[t]) = Unbalanced(counters[t]) + 1
          /\ Unbalanced(happened'[t]) = Unbalanced(happened[t]) + 1
      BY <1>1, <2>1, <2>2, BalanceStep DEF Kinds
    <3>2. Unbalanced(counters[t]) \in -1..0 /\ Unbalanced(happened[t]) = 0
      BY <1>2, <2>1, <2>2 DEF Balanced, Outcomes
    <3>3. happened'[t].total <= MaxRequests
      <4>1. happened[t].total < MaxRequests
        BY <1>5, <2>2 DEF OrderBegins
      <4>2. happened'[t].total = happened[t].total + 1
        BY <2>1, <2>2, FieldsAre DEF OneMore
      <4>3. QED
        BY <1>3, <4>1, <4>2, ServiceMetricsAssumption
    <3>4. Unbalanced(counters'[t]) \in 0..1 /\ Unbalanced(happened'[t]) = 1
      BY <1>4, <3>1, <3>2
    <3>5. QED
      BY <2>1, <2>2, <3>3, <3>4 DEF Balanced, Outcomes
  <2>3. CASE t # "order"
    <3>1. counters'[t] = counters[t] /\ happened'[t] = happened[t]
      BY <2>1, <2>3 DEF OneMore
    <3>2. QED
      BY <1>2, <2>3, <3>1 DEF Balanced, Outcomes
  <2>4. QED
    BY <2>2, <2>3
<1>6. ASSUME NEW kind \in Kinds, OrderEnds(kind)
      PROVE  Balanced(counters', t, pending') /\ Outcomes(happened', t, pending')
  <2>1. /\ OneMore(counters', counters, "order", {kind})
        /\ OneMore(happened', happened, "order", {kind})
        /\ pending = 1 /\ pending' = 0 /\ "order" \in Metered
    BY <1>6, ServiceSteps DEF OrderEnds, Types
  <2>2. CASE t = "order"
    <3>1. /\ Unbalanced(counters'[t]) = Unbalanced(counters[t]) - 1
          /\ Unbalanced(happened'[t]) = Unbalanced(happened[t]) - 1
      BY <1>1, <2>1, <2>2, BalanceStep, ZenonT(40)
    <3>2. Unbalanced(counters[t]) \in 0..1 /\ Unbalanced(happened[t]) = 1
      BY <1>2, <2>1, <2>2 DEF Balanced, Outcomes
    <3>3. happened'[t].total <= MaxRequests
      <4>1. happened[t].total <= MaxRequests
        BY <1>2 DEF Outcomes
      <4>2. happened'[t].total = happened[t].total + 0
        BY <2>1, <2>2, FieldsAre DEF OneMore, Kinds
      <4>3. QED
        BY <1>3, <4>1, <4>2
    <3>4. Unbalanced(counters'[t]) \in -1..0 /\ Unbalanced(happened'[t]) = 0
      BY <1>4, <3>1, <3>2
    <3>5. QED
      BY <2>1, <2>2, <3>3, <3>4 DEF Balanced, Outcomes
  <2>3. CASE t # "order"
    <3>1. counters'[t] = counters[t] /\ happened'[t] = happened[t]
      BY <2>1, <2>3 DEF OneMore
    <3>2. QED
      BY <1>2, <2>3, <3>1 DEF Balanced, Outcomes
  <2>4. QED
    BY <2>2, <2>3
<1>7. ASSUME NEW kind \in Kinds, NEW s \in Metered, Outcome(s, kind)
      PROVE  Balanced(counters', t, pending') /\ Outcomes(happened', t, pending')
  <2>1. /\ OneMore(counters', counters, s, {kind, "total"})
        /\ OneMore(happened', happened, s, {kind, "total"})
        /\ s # "order" /\ pending' = pending
    BY <1>7, ServiceSteps DEF Outcome
  <2>2. CASE t = s
    <3>1. /\ Unbalanced(counters'[t]) = Unbalanced(counters[t])
          /\ Unbalanced(happened'[t]) = Unbalanced(happened[t])
      BY <1>1, <2>1, <2>2, BalanceStep
    <3>2. Unbalanced(counters[t]) = 0 /\ Unbalanced(happened[t]) = 0
      BY <1>2, <2>1, <2>2 DEF Balanced, Outcomes
    <3>3. happened'[t].total <= MaxRequests
      <4>1. happened[t].total < MaxRequests
        BY <1>7, <2>2 DEF Outcome
      <4>2. happened'[t].total = happened[t].total + 1
        BY <2>1, <2>2, FieldsAre DEF OneMore
      <4>3. QED
        BY <1>3, <4>1, <4>2, ServiceMetricsAssumption
    <3>4. QED
      BY <2>1, <2>2, <3>1, <3>2, <3>3 DEF Balanced, Outcomes
  <2>3. CASE t # s
    <3>1. counters'[t] = counters[t] /\ happened'[t] = happened[t]
      BY <2>1, <2>3 DEF OneMore
    <3>2. QED
      BY <1>2, <2>1, <3>1 DEF Balanced, Outcomes
  <2>4. QED
    BY <2>2, <2>3
<1>8. QED
  BY <1>5, <1>6, <1>7

\* ... and so do the flushers, which take a triple whole.
LEMMA FlusherBalance ==
  ASSUME Types, CountersBalance, RequestsHaveOutcomes, WindowsBalance,
         NEW f \in Flushers, FlushTake(f) \/ FlushInsert(f)
  PROVE  CountersBalance' /\ RequestsHaveOutcomes' /\ WindowsBalance'
<1>1. FlusherOf[f] \in Metered /\ counters \in [Metered -> Numbers] /\ pending \in 0..1
  BY ServiceMetricsAssumption DEF Types
<1>2. flush \in [Flushers -> [pc : {"idle", "insert"}, taken : Numbers]]
  BY DEF Types
<1>3. happened' = happened /\ pending' = pending
  BY DEF FlushTake, FlushInsert
<1>4. RequestsHaveOutcomes'
  BY <1>3 DEF RequestsHaveOutcomes
<1>5. \A g \in Flushers \ {f} : flush'[g] = flush[g]
  BY <1>2 DEF FlushTake, FlushInsert
<1>6. \A t \in Metered : counters'[t] = counters[t] \/ counters'[t] = Zero
  BY <1>1 DEF FlushTake, FlushInsert
<1>7. CountersBalance'
  <2>1. \A t \in Metered : Balanced(counters, t, pending)
    BY DEF CountersBalance, Balanced
  <2>2. \A t \in Metered : counters'[t] = Zero => Balanced(counters', t, pending)
    BY ZeroBalances DEF Balanced
  <2>3. \A t \in Metered : counters'[t] = counters[t] => Balanced(counters', t, pending)
    BY <2>1 DEF Balanced
  <2>4. QED
    BY <1>3, <1>6, <2>2, <2>3 DEF CountersBalance, Balanced
<1>8. flush'[f].taken = counters[FlusherOf[f]] \/ flush'[f].taken = Zero
  BY <1>2 DEF FlushTake, FlushInsert, Idle
<1> DEFINE WindowOK(s, a) == IF s # "order" THEN Unbalanced(a) = 0 ELSE Unbalanced(a) \in -1..1
<1>9. WindowOK(FlusherOf[f], Zero)
  BY ZeroBalances
<1>10. WindowOK(FlusherOf[f], counters[FlusherOf[f]])
  BY <1>1 DEF CountersBalance
<1>11. \A g \in Flushers : WindowOK(FlusherOf[g], flush[g].taken)
  BY DEF WindowsBalance
<1>12. \A g \in Flushers : WindowOK(FlusherOf[g], flush'[g].taken)
  BY <1>5, <1>8, <1>9, <1>10, <1>11
<1>13. WindowsBalance'
  BY <1>12 DEF WindowsBalance
<1>14. QED
  BY <1>4, <1>7, <1>13

-----------------------------------------------------------------------------
\* No account holds more than there were requests, so neither does any part of one.
LEMMA HappenedBound ==
  ASSUME Types, RequestsHaveOutcomes, NEW s \in Metered, NEW field \in Fields
  PROVE  happened[s][field] <= MaxRequests
<1> DEFINE t == happened[s].total
           g == happened[s].good
           e == happened[s].errors
<1>1. t \in Nat /\ g \in Nat /\ e \in Nat
  <2>1. happened[s] \in [{"good", "errors", "total"} -> Nat]
    BY FieldsAre DEF Types, Numbers
  <2>2. QED
    BY <2>1
<1>2. t <= MaxRequests /\ t - g - e \in 0..1
  BY DEF RequestsHaveOutcomes, Unbalanced, Types
<1>3. field = "total" \/ field = "good" \/ field = "errors"
  BY FieldsAre
<1>4. \/ happened[s][field] = t \/ happened[s][field] = g \/ happened[s][field] = e
  BY <1>3
<1> HIDE DEF t, g, e
<1>5. g <= MaxRequests /\ e <= MaxRequests
  BY <1>1, <1>2, ServiceMetricsAssumption
<1>6. QED
  BY <1>2, <1>4, <1>5

LEMMA CountsAre ==
  ASSUME NEW a \in Numbers, \A field \in Fields : a[field] <= MaxRequests
  PROVE  a \in Counts
<1>1. a \in [{"good", "errors", "total"} -> Nat]
  BY FieldsAre DEF Numbers
<1>2. a = [good |-> a["good"], errors |-> a["errors"], total |-> a["total"]]
  BY <1>1
<1>3. /\ a["good"] \in 0..MaxRequests /\ a["errors"] \in 0..MaxRequests
      /\ a["total"] \in 0..MaxRequests
  <2>1. /\ a["good"] \in Nat /\ a["errors"] \in Nat /\ a["total"] \in Nat
    BY <1>1
  <2>2. /\ a["good"] <= MaxRequests /\ a["errors"] <= MaxRequests
        /\ a["total"] <= MaxRequests
    BY FieldsAre
  <2>3. QED
    BY <2>1, <2>2, ServiceMetricsAssumption
<1>4. QED
  BY <1>2, <1>3 DEF Counts

LEMMA TypesFollow == IInv => TypeOK
<1> SUFFICES ASSUME IInv PROVE TypeOK
  OBVIOUS
<1>1. Types /\ RequestsHaveOutcomes /\ Accounts
  BY AccountsAre DEF IInv
<1>2. ASSUME NEW s \in Metered, NEW field \in Fields
      PROVE  /\ happened[s][field] <= MaxRequests /\ reported[s][field] <= MaxRequests
             /\ lost[s][field] <= MaxRequests /\ counters[s][field] <= MaxRequests
             /\ Held(flush, s, field) <= MaxRequests
  <2> DEFINE h == happened[s][field]
             r == reported[s][field]
             l == lost[s][field]
             c == counters[s][field]
             k == Held(flush, s, field)
  <2>1. h \in Nat /\ r \in Nat /\ l \in Nat /\ c \in Nat /\ k \in Nat
    BY <1>1, AccountTypes
  <2>2. h = r + l + c + k
    BY <1>1 DEF Accounts, Account
  <2>3. h <= MaxRequests
    BY <1>1, HappenedBound
  <2> HIDE DEF h, r, l, c, k
  <2>4. r <= MaxRequests /\ l <= MaxRequests /\ c <= MaxRequests /\ k <= MaxRequests
    BY <2>1, <2>2, <2>3, ServiceMetricsAssumption
  <2>5. QED
    BY <2>3, <2>4 DEF h, r, l, c, k
<1>3. ASSUME NEW s \in Metered
      PROVE  /\ counters[s] \in Counts /\ reported[s] \in Counts
             /\ lost[s] \in Counts /\ happened[s] \in Counts
  <2>1. /\ counters[s] \in Numbers /\ reported[s] \in Numbers
        /\ lost[s] \in Numbers /\ happened[s] \in Numbers
    BY <1>1 DEF Types
  <2>2. QED
    BY <1>2, <2>1, CountsAre
<1>4. ASSUME NEW f \in Flushers PROVE flush[f].taken \in Counts
  <2> DEFINE s == FlusherOf[f]
  <2>1. s \in Metered /\ f \in Flushing(s)
    BY ServiceMetricsAssumption DEF Flushing
  <2>2. ASSUME NEW field \in Fields PROVE flush[f].taken[field] <= MaxRequests
    <3> DEFINE g == [w \in Flushers |-> flush[w].taken[field]]
    <3>1. \A w \in Flushing(s) : g[w] \in Nat
      BY <1>1, <2>1, AccountTypes, FlushingFinite
    <3>2. g[f] = flush[f].taken[field] /\ g[f] \in Nat
      BY <2>1, <3>1
    <3> HIDE DEF g
    <3>3. g[f] <= SumFunctionOnSet(g, Flushing(s))
      BY <2>1, <3>1, FlushingFinite, SumBound
    <3>4. SumFunctionOnSet(g, Flushing(s)) = Held(flush, s, field)
      BY DEF Held, g
    <3>5. Held(flush, s, field) <= MaxRequests /\ Held(flush, s, field) \in Nat
      BY <1>1, <1>2, <2>1, AccountTypes
    <3> DEFINE k == Held(flush, s, field)
    <3> HIDE DEF k
    <3>6. g[f] <= k /\ k <= MaxRequests /\ k \in Nat
      BY <3>3, <3>4, <3>5 DEF k
    <3>7. g[f] <= MaxRequests
      BY <3>2, <3>6, ServiceMetricsAssumption
    <3>8. QED
      BY <3>2, <3>7
  <2>3. flush[f].taken \in Numbers
    BY <1>1 DEF Types
  <2>4. QED
    BY <2>2, <2>3, CountsAre
<1>5. /\ counters \in [Metered -> Counts] /\ reported \in [Metered -> Counts]
      /\ lost \in [Metered -> Counts] /\ happened \in [Metered -> Counts]
  BY <1>1, <1>3 DEF Types
<1>6. pending \in 0..1 /\ \A f \in Flushers : flush[f].pc \in {"idle", "insert"}
  BY <1>1 DEF Types
<1>7. QED
  BY <1>4, <1>5, <1>6 DEF TypeOK

-----------------------------------------------------------------------------
LEMMA Initially == Init => IInv
<1> SUFFICES ASSUME Init PROVE IInv
  OBVIOUS
<1>1. Types
  BY TypesInit
<1>2. HandsEmpty
  BY DEF Init, Idle, HandsEmpty
<1>3. /\ pending = 0
      /\ \A s \in Metered : /\ counters[s] = Zero /\ happened[s] = Zero
                            /\ reported[s] = Zero /\ lost[s] = Zero
      /\ \A f \in Flushers : flush[f].taken = Zero
  BY DEF Init, Idle
<1>4. RequestsHaveOutcomes
  <2>1. Zero.total = 0
    BY DEF Zero
  <2>2. 0 <= MaxRequests
    BY ServiceMetricsAssumption
  <2>3. \A s \in Metered : happened[s].total <= MaxRequests /\ Unbalanced(happened[s]) = 0
    BY <1>3, <2>1, <2>2, ZeroBalances
  <2>4. QED
    BY <1>3, <2>3 DEF RequestsHaveOutcomes
<1>5. CountersBalance /\ WindowsBalance
  BY <1>3, ZeroBalances, ServiceMetricsAssumption DEF CountersBalance, WindowsBalance
<1>6. Accounts
  <2> SUFFICES ASSUME NEW s \in Metered, NEW field \in Fields
               PROVE  Account(happened, reported, lost, counters, flush, s, field)
    BY DEF Accounts
  <2> DEFINE g == [f \in Flushers |-> flush[f].taken[field]]
  <2>1. \A f \in Flushing(s) : g[f] = 0
    BY <1>3, ZeroType, FlushingFinite
  <2> HIDE DEF g
  <2>2. SumFunctionOnSet(g, Flushing(s)) = 0
    BY <2>1, FlushingFinite, SumZero
  <2>3. Held(flush, s, field) = 0
    BY <2>2 DEF Held, g
  <2>4. /\ happened[s][field] = 0 /\ reported[s][field] = 0
        /\ lost[s][field] = 0 /\ counters[s][field] = 0
    BY <1>3, ZeroType
  <2>5. QED
    BY <2>3, <2>4 DEF Account
<1>7. QED
  BY <1>1, <1>2, <1>4, <1>5, <1>6, AccountsAre DEF IInv

LEMMA Inductive == IInv /\ [Next]_vars => IInv'
<1> SUFFICES ASSUME IInv, [Next]_vars PROVE IInv'
  OBVIOUS
<1>1. /\ Types /\ HandsEmpty /\ RequestsHaveOutcomes /\ Accounts
      /\ CountersBalance /\ WindowsBalance
  BY AccountsAre DEF IInv
<1>2. Types'
  BY <1>1, TypesStep
<1> DEFINE Kept == /\ HandsEmpty' /\ RequestsHaveOutcomes' /\ Accounts'
                   /\ CountersBalance' /\ WindowsBalance'
<1>3. ASSUME OrderBegins PROVE Kept
  <2>1. flush' = flush /\ reported' = reported /\ lost' = lost
    BY <1>3 DEF OrderBegins
  <2>2. HandsEmpty' /\ WindowsBalance'
    BY <1>1, <2>1 DEF HandsEmpty, WindowsBalance
  <2>3. Accounts'
    BY <1>1, <1>3, <2>1, ServiceSteps, CountedAccounts DEF OrderBegins
  <2>4. CountersBalance' /\ RequestsHaveOutcomes'
    BY <1>1, <1>3, ServiceBalance
  <2>5. QED
    BY <2>2, <2>3, <2>4
<1>4. ASSUME NEW kind \in Kinds, OrderEnds(kind) PROVE Kept
  <2>1. flush' = flush /\ reported' = reported /\ lost' = lost /\ "order" \in Metered
    BY <1>1, <1>4 DEF OrderEnds, Types
  <2>2. HandsEmpty' /\ WindowsBalance'
    BY <1>1, <2>1 DEF HandsEmpty, WindowsBalance
  <2>3. Accounts'
    BY <1>1, <1>4, <2>1, ServiceSteps, CountedAccounts
  <2>4. CountersBalance' /\ RequestsHaveOutcomes'
    BY <1>1, <1>4, ServiceBalance
  <2>5. QED
    BY <2>2, <2>3, <2>4
<1>5. ASSUME NEW kind \in Kinds, NEW s \in Metered, Outcome(s, kind) PROVE Kept
  <2>1. flush' = flush /\ reported' = reported /\ lost' = lost
    BY <1>5 DEF Outcome
  <2>2. HandsEmpty' /\ WindowsBalance'
    BY <1>1, <2>1 DEF HandsEmpty, WindowsBalance
  <2>3. Accounts'
    BY <1>1, <1>5, <2>1, ServiceSteps, CountedAccounts
  <2>4. CountersBalance' /\ RequestsHaveOutcomes'
    BY <1>1, <1>5, ServiceBalance
  <2>5. QED
    BY <2>2, <2>3, <2>4
<1>6. ASSUME NEW f \in Flushers, FlushTake(f) \/ FlushInsert(f) PROVE Kept
  <2>1. HandsEmpty'
    <3>1. flush \in [Flushers -> [pc : {"idle", "insert"}, taken : Numbers]]
      BY <1>1 DEF Types
    <3>2. QED
      BY <1>1, <1>6, <3>1 DEF FlushTake, FlushInsert, HandsEmpty, Idle
  <2>2. Accounts'
    BY <1>1, <1>2, <1>6, TakeAccounts, InsertAccounts
  <2>3. CountersBalance' /\ RequestsHaveOutcomes' /\ WindowsBalance'
    BY <1>1, <1>6, FlusherBalance
  <2>4. QED
    BY <2>1, <2>2, <2>3
<1>7. ASSUME UNCHANGED vars PROVE Kept
  BY <1>1, <1>7 DEF vars, HandsEmpty, RequestsHaveOutcomes, Accounts, CountersBalance,
     WindowsBalance
<1>8. Kept
  BY <1>3, <1>4, <1>5, <1>6, <1>7 DEF Next
<1>9. OutcomesReportedOnce'
  <2>1. Accounts'
    BY <1>8
  <2>2. QED
    BY <2>1, AccountsAre, PTL
<1>10. QED
  BY <1>2, <1>8, <1>9 DEF IInv

LEMMA Always == Spec => []IInv
BY Initially, Inductive, PTL DEF Spec

\* No counter, window or row total exceeds the requests there were (writeMetrics).
THEOREM TypesHold == Spec => []TypeOK
BY Always, TypesFollow, PTL

\* service_metrics count each request and each outcome once, however many goroutines
\* flush (writeMetrics).
THEOREM RowsCountEachOutcome == Spec => []OutcomesReportedOnce
<1>1. IInv => OutcomesReportedOnce
  BY DEF IInv
<1>2. QED
  BY <1>1, Always, PTL

\* A window holds a total for each outcome, give or take one in the order service: its
\* errors exceed its total by one at most (errorRate in writeMetrics).
THEOREM WindowsAreBalanced == Spec => []WindowsBalance
<1>1. IInv => WindowsBalance
  BY DEF IInv
<1>2. QED
  BY <1>1, Always, PTL
=============================================================================
