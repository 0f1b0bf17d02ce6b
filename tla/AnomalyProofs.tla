--------------------------- MODULE AnomalyProofs ---------------------------
(***************************************************************************)
(* What Anomaly promises, for every window and every number of samples     *)
(* from ten on: the baseline is bounded in time, an anomaly is rare in its *)
(* own window (Cantelli's inequality), a fresh fault is seen at once, and  *)
(* a dead-letter queue is always reported.                                 *)
(***************************************************************************)
EXTENDS Anomaly, SequenceTheorems, SumTheorems

LEMMA Constants ==
  /\ ReadWindow \in Nat /\ BaselineWindow \in Nat /\ SignalWindow \in Nat /\ MaxMisses \in Nat
  /\ MinSamples \in Nat /\ MinSamples >= 10
  /\ ReadWindow <= BaselineWindow /\ ReadWindow <= SignalWindow
  /\ Old \in Nat /\ Old = BaselineWindow + ReadWindow + 1
  /\ \A m \in Metrics : Levels[m] \subseteq Nat
<1>1. /\ ReadWindow \in Nat /\ BaselineWindow \in Nat /\ SignalWindow \in Nat
      /\ MaxMisses \in Nat /\ MinSamples \in Nat \ 0..9
  BY AnomalyAssumption
<1>2. MinSamples \in Nat /\ MinSamples >= 10
  BY <1>1
<1>3. Old \in Nat /\ Old = BaselineWindow + ReadWindow + 1
  BY <1>1 DEF Old
<1>4. \A m \in Metrics : Levels[m] \subseteq Nat
  BY AnomalyAssumption
<1> QED BY <1>1, <1>2, <1>3, <1>4, AnomalyAssumption

-----------------------------------------------------------------------------
(* Least and greatest elements.                                            *)

LEMMA MinIsLeast ==
  ASSUME NEW A \in SUBSET Nat, A # {}
  PROVE  Min(A) \in A /\ \A a \in A : Min(A) <= a
<1>1. IsWellFoundedOn(OpToRel(<, Nat), Nat)
  BY NatLessThanWellFounded
<1>2. PICK x \in A : \A y \in A : <<y, x>> \notin OpToRel(<, Nat)
  BY <1>1, WFMin
<1>3. \A y \in A : ~(y < x)
  BY <1>2 DEF OpToRel
<1>4. \A y \in A : x <= y
  BY <1>3
<1> QED BY <1>4 DEF Min

LEMMA GreatestExists ==
  ASSUME NEW n \in Nat, NEW f, \A i \in 1..n : f[i] \in Nat, NEW A \in SUBSET (1..n), A # {}
  PROVE  \E i \in A : \A j \in A : f[j] <= f[i]
<1> DEFINE C == {k \in Nat : k <= n => \A B \in SUBSET (1..k) :
                   B # {} => \E i \in B : \A j \in B : f[j] <= f[i]}
<1>1. 0 \in C
  <2>1. 1..0 = {}
    OBVIOUS
  <2> QED BY <2>1
<1>2. ASSUME NEW k \in Nat, k \in C
      PROVE  k + 1 \in C
  <2> SUFFICES ASSUME k + 1 <= n, NEW B \in SUBSET (1..(k + 1)), B # {}
               PROVE  \E i \in B : \A j \in B : f[j] <= f[i]
    OBVIOUS
  <2>1. k + 1 \in 1..n /\ f[k + 1] \in Nat
    OBVIOUS
  <2>2. B \ {k + 1} \subseteq 1..k /\ k <= n
    OBVIOUS
  <2>3. CASE B \ {k + 1} = {}
    <3>1. B = {k + 1}
      BY <2>3
    <3> QED BY <2>1, <3>1
  <2>4. CASE B \ {k + 1} # {}
    <3>1. PICK i \in B \ {k + 1} : \A j \in B \ {k + 1} : f[j] <= f[i]
      BY <1>2, <2>2, <2>4
    <3>2. \A j \in B : f[j] \in Nat
      OBVIOUS
    <3>3. CASE f[k + 1] <= f[i]
      BY <3>1, <3>3
    <3>4. CASE ~(f[k + 1] <= f[i]) /\ k + 1 \in B
      <4>1. \A j \in B \ {k + 1} : f[j] <= f[k + 1]
        BY <3>1, <3>2, <3>4
      <4> QED BY <2>1, <3>4, <4>1
    <3>5. CASE k + 1 \notin B
      BY <3>1, <3>5
    <3> QED BY <3>3, <3>4, <3>5
  <2> QED BY <2>3, <2>4
<1>3. Nat \subseteq C
  <2> HIDE DEF C
  <2> QED BY <1>1, <1>2, NatInductionOnSet
<1>4. n \in C
  BY <1>3
<1>5. n <= n
  OBVIOUS
<1> QED BY <1>4, <1>5

-----------------------------------------------------------------------------
(* The sums of a sequence, up to each of its places.                       *)

IsSums(sum, s) == sum = [i \in 0..Len(s) |-> IF i = 0 THEN 0 ELSE sum[i - 1] + s[i]]

Sums(s) == CHOOSE sum : IsSums(sum, s)

LEMMA TotalIsLast ==
  ASSUME NEW s
  PROVE  Total(s) = Sums(s)[Len(s)]
BY DEF Total, Sums, IsSums

LEMMA SumsExist ==
  ASSUME NEW s, Len(s) \in Nat
  PROVE  \E sum : IsSums(sum, s)
<1> DEFINE Good(sum, n) == \A i \in 0..n : sum[i] = IF i = 0 THEN 0 ELSE sum[i - 1] + s[i]
           C == {n \in Nat : \E sum : Good(sum, n)}
<1>1. 0 \in C
  <2>1. Good([i \in {0} |-> 0], 0)
    OBVIOUS
  <2> QED BY <2>1
<1>2. ASSUME NEW n \in Nat, n \in C
      PROVE  n + 1 \in C
  <2>1. PICK sum : Good(sum, n)
    BY <1>2
  <2> DEFINE next == [i \in 0..(n + 1) |-> IF i <= n THEN sum[i] ELSE sum[n] + s[n + 1]]
  <2>2. ASSUME NEW i \in 0..(n + 1)
        PROVE  next[i] = IF i = 0 THEN 0 ELSE next[i - 1] + s[i]
    <3>1. CASE i <= n /\ i # 0
      <4>1. i \in 0..n /\ i - 1 \in 0..(n + 1) /\ i - 1 <= n
        BY <3>1
      <4>2. next[i] = sum[i] /\ next[i - 1] = sum[i - 1]
        BY <3>1, <4>1
      <4> QED BY <2>1, <3>1, <4>1, <4>2
    <3>2. CASE i = 0
      BY <2>1, <3>2
    <3>3. CASE i = n + 1
      <4>1. ~(i <= n) /\ i # 0 /\ i - 1 = n /\ n \in 0..(n + 1)
        BY <3>3
      <4>2. next[i] = sum[n] + s[n + 1] /\ next[n] = sum[n]
        BY <4>1
      <4> QED BY <3>3, <4>1, <4>2
    <3>4. i <= n \/ i = n + 1
      OBVIOUS
    <3> QED BY <3>1, <3>2, <3>3, <3>4
  <2> HIDE DEF next
  <2>3. Good(next, n + 1)
    BY <2>2
  <2> QED BY <2>3
<1>3. Nat \subseteq C
  <2> HIDE DEF C
  <2> QED BY <1>1, <1>2, NatInductionOnSet
<1>4. PICK sum : Good(sum, Len(s))
  BY <1>3
<1> DEFINE all == [i \in 0..Len(s) |-> sum[i]]
<1>5. ASSUME NEW i \in 0..Len(s)
      PROVE  all[i] = IF i = 0 THEN 0 ELSE all[i - 1] + s[i]
  <2>1. CASE i = 0
    BY <1>4, <2>1
  <2>2. CASE i # 0
    <3>1. i - 1 \in 0..Len(s)
      BY <2>2
    <3> QED BY <1>4, <2>2, <3>1
  <2> QED BY <2>1, <2>2
<1>6. all = [i \in 0..Len(s) |-> IF i = 0 THEN 0 ELSE all[i - 1] + s[i]]
  <2> HIDE DEF all
  <2>1. all = [i \in 0..Len(s) |-> all[i]]
    BY DEF all
  <2> QED BY <1>5, <2>1
<1> QED BY <1>6 DEF IsSums

LEMMA SumsEquation ==
  ASSUME NEW s, Len(s) \in Nat
  PROVE  Sums(s)[0] = 0 /\ \A i \in 1..Len(s) : Sums(s)[i] = Sums(s)[i - 1] + s[i]
<1>1. IsSums(Sums(s), s)
  BY SumsExist DEF Sums
<1> DEFINE sum == Sums(s)
<1> HIDE DEF sum
<1>2. sum = [i \in 0..Len(s) |-> IF i = 0 THEN 0 ELSE sum[i - 1] + s[i]]
  BY <1>1 DEF IsSums, sum
<1>3. \A i \in 0..Len(s) : sum[i] = IF i = 0 THEN 0 ELSE sum[i - 1] + s[i]
  BY <1>2
<1> QED BY <1>3 DEF sum

LEMMA SumsType ==
  ASSUME NEW s, Len(s) \in Nat, \A i \in 1..Len(s) : s[i] \in Int
  PROVE  \A i \in 0..Len(s) : Sums(s)[i] \in Int
<1> DEFINE sum == Sums(s)
           C == {n \in Nat : n <= Len(s) => sum[n] \in Int}
<1>1. sum[0] = 0 /\ \A i \in 1..Len(s) : sum[i] = sum[i - 1] + s[i]
  BY SumsEquation
<1> HIDE DEF sum
<1>2. 0 \in C
  BY <1>1
<1>3. ASSUME NEW n \in Nat, n \in C
      PROVE  n + 1 \in C
  <2> SUFFICES ASSUME n + 1 <= Len(s) PROVE sum[n + 1] \in Int
    OBVIOUS
  <2>1. n + 1 \in 1..Len(s) /\ (n + 1) - 1 = n /\ sum[n] \in Int
    BY <1>3
  <2>2. sum[n + 1] = sum[n] + s[n + 1] /\ s[n + 1] \in Int
    BY <1>1, <2>1
  <2> QED BY <2>1, <2>2
<1>4. Nat \subseteq C
  <2> HIDE DEF C
  <2> QED BY <1>2, <1>3, NatInductionOnSet
<1> QED BY <1>4 DEF sum

-----------------------------------------------------------------------------
(* Cantelli's inequality, on integers.                                     *)

\* One more value: (a*v + b)^2 is added on one side, and on the other the bound, if
\* the value is counted.
LEMMA SquareStep ==
  ASSUME NEW a \in Int, NEW b \in Int, NEW v \in Int, NEW q \in Int, NEW t \in Int,
         NEW j \in Int, NEW c \in Int, NEW e \in Int, NEW bound \in Int,
         c * bound <= (a * a) * q + (2 * (a * b)) * t + (b * b) * j,
         e * bound <= (a * v + b) * (a * v + b)
  PROVE  (c + e) * bound <= (a * a) * (q + v * v) + (2 * (a * b)) * (t + v) + (b * b) * (j + 1)
<1>1. (a * v + b) * (a * v + b) = (a * a) * (v * v) + (2 * (a * b)) * v + b * b
  OBVIOUS
<1>2. (c + e) * bound = c * bound + e * bound
  OBVIOUS
<1>3. (a * a) * (q + v * v) + (2 * (a * b)) * (t + v) + (b * b) * (j + 1)
        = ((a * a) * q + (2 * (a * b)) * t + (b * b) * j)
            + ((a * a) * (v * v) + (2 * (a * b)) * v + b * b)
  OBVIOUS
<1> DEFINE left == c * bound
           more == e * bound
           sum  == (a * a) * q + (2 * (a * b)) * t + (b * b) * j
           new  == (a * v + b) * (a * v + b)
<1>4. left \in Int /\ more \in Int /\ sum \in Int /\ new \in Int
  OBVIOUS
<1>5. left <= sum /\ more <= new
  OBVIOUS
<1>6. left + more <= sum + new
  <2> HIDE DEF left, more, sum, new
  <2> QED BY <1>4, <1>5
<1> QED BY <1>1, <1>2, <1>3, <1>6

\* The sum of the squares of a*v + b over all values v is at least as much as the
\* values of a set contribute to it.
LEMMA SquaresOfASet ==
  ASSUME NEW n \in Nat, NEW v, \A i \in 1..n : v[i] \in Int,
         NEW t, \A i \in 0..n : t[i] \in Int, t[0] = 0,
         \A i \in 1..n : t[i] = t[i - 1] + v[i],
         NEW q, \A i \in 0..n : q[i] \in Int, q[0] = 0,
         \A i \in 1..n : q[i] = q[i - 1] + v[i] * v[i],
         NEW a \in Int, NEW b \in Int, NEW bound \in Int, NEW A \in SUBSET (1..n),
         \A i \in A : bound <= (a * v[i] + b) * (a * v[i] + b)
  PROVE  /\ Cardinality(A) \in Nat
         /\ Cardinality(A) * bound <= (a * a) * q[n] + (2 * (a * b)) * t[n] + (b * b) * n
<1> DEFINE Upto(j)  == A \cap (1..j)
           AtLeast(j) == (a * a) * q[j] + (2 * (a * b)) * t[j] + (b * b) * j
           C == {j \in Nat : j <= n => Cardinality(Upto(j)) * bound <= AtLeast(j)}
<1>1. \A j \in Nat : IsFiniteSet(Upto(j)) /\ Cardinality(Upto(j)) \in Nat
  <2> TAKE j \in Nat
  <2>1. IsFiniteSet(1..j)
    BY FS_Interval
  <2>2. Upto(j) \subseteq 1..j
    OBVIOUS
  <2> QED BY <2>1, <2>2, FS_Subset, FS_CardinalityType
<1>2. 0 \in C
  <2>1. Upto(0) = {}
    OBVIOUS
  <2>2. Cardinality(Upto(0)) = 0
    BY <2>1, FS_EmptySet
  <2>3. AtLeast(0) = 0
    OBVIOUS
  <2>4. Cardinality(Upto(0)) * bound <= AtLeast(0)
    <3>1. 0 * bound = 0
      OBVIOUS
    <3> HIDE DEF Upto, AtLeast
    <3> QED BY <2>2, <2>3, <3>1
  <2> HIDE DEF Upto, AtLeast
  <2> QED BY <2>4
<1>3. ASSUME NEW j \in Nat, j \in C
      PROVE  j + 1 \in C
  <2> SUFFICES ASSUME j + 1 <= n
               PROVE  Cardinality(Upto(j + 1)) * bound <= AtLeast(j + 1)
    OBVIOUS
  <2> DEFINE e == IF j + 1 \in A THEN 1 ELSE 0
             c == Cardinality(Upto(j))
             x == v[j + 1]
  <2>1. Cardinality(Upto(j + 1)) = c + e
    <3>1. CASE j + 1 \in A
      <4>1. Upto(j + 1) = Upto(j) \cup {j + 1} /\ j + 1 \notin Upto(j)
        BY <3>1
      <4>2. Cardinality(Upto(j) \cup {j + 1}) = Cardinality(Upto(j)) + 1
        BY <1>1, <4>1, FS_AddElement
      <4> QED BY <3>1, <4>1, <4>2
    <3>2. CASE j + 1 \notin A
      <4>1. Upto(j + 1) = Upto(j)
        BY <3>2
      <4>2. c \in Nat
        BY <1>1
      <4> QED BY <3>2, <4>1, <4>2
    <3> QED BY <3>1, <3>2
  <2>2. c * bound <= AtLeast(j) /\ c \in Int /\ e \in Int
    <3>1. c \in Nat
      BY <1>1
    <3>2. j <= n
      OBVIOUS
    <3>3. c * bound <= AtLeast(j)
      <4> HIDE DEF Upto, AtLeast
      <4> QED BY <1>3, <3>2
    <3> QED BY <3>1, <3>3
  <2>3. /\ j + 1 \in 1..n /\ (j + 1) - 1 = j /\ j \in 0..n /\ j \in Int
        /\ x \in Int /\ t[j] \in Int /\ q[j] \in Int
    OBVIOUS
  <2>4. t[j + 1] = t[j] + x /\ q[j + 1] = q[j] + x * x
    BY <2>3
  <2>5. e * bound <= (a * x + b) * (a * x + b)
    <3>1. CASE j + 1 \in A
      <4>1. bound <= (a * x + b) * (a * x + b)
        BY <3>1
      <4>2. e * bound = bound
        BY <3>1
      <4> QED BY <4>1, <4>2
    <3>2. CASE j + 1 \notin A
      <4>1. e * bound = 0
        BY <3>2
      <4>2. \A y \in Int : 0 <= y * y
        OBVIOUS
      <4>3. a * x + b \in Int
        BY <2>3
      <4>4. 0 <= (a * x + b) * (a * x + b)
        BY <4>2, <4>3
      <4> QED BY <4>1, <4>4
    <3> QED BY <3>1, <3>2
  <2> HIDE DEF e, c, x
  <2>6. (c + e) * bound
          <= (a * a) * (q[j] + x * x) + (2 * (a * b)) * (t[j] + x) + (b * b) * (j + 1)
    BY <2>2, <2>3, <2>5, SquareStep
  <2> QED BY <2>1, <2>4, <2>6
<1>4. n \in C
  <2>1. Nat \subseteq C
    <3> HIDE DEF C
    <3> QED BY <1>2, <1>3, NatInductionOnSet
  <2> QED BY <2>1
<1>5. Upto(n) = A
  OBVIOUS
<1>6. n <= n
  OBVIOUS
<1> QED BY <1>1, <1>4, <1>5, <1>6

LEMMA Cancel ==
  ASSUME NEW x \in Int, NEW y \in Int, NEW w \in Nat, w > 0
  PROVE  /\ x * w <= y * w => x <= y
         /\ x * w < y * w => x < y
<1>1. ASSUME y + 1 <= x
      PROVE  y * w + w <= x * w
  <2> DEFINE r == x - (y + 1)
  <2>1. r \in Nat /\ x = (y + 1) + r
    BY <1>1
  <2>2. x * w = (y * w + w) + r * w
    BY <2>1
  <2>3. r * w \in Nat /\ y * w + w \in Int
    BY <2>1
  <2> DEFINE rest == r * w
             base == y * w + w
  <2> HIDE DEF r, rest, base
  <2>4. base <= base + rest
    BY <2>3 DEF rest, base
  <2> QED BY <2>2, <2>4 DEF rest, base
<1> DEFINE xw == x * w
           yw == y * w
<1>2. xw \in Int /\ yw \in Int
  OBVIOUS
<1>3. xw <= yw => x <= y
  <2> SUFFICES ASSUME xw <= yw, ~(x <= y) PROVE FALSE
    OBVIOUS
  <2>1. yw + w <= xw
    BY <1>1
  <2> HIDE DEF xw, yw
  <2> QED BY <1>2, <2>1
<1>4. xw < yw => x < y
  <2> SUFFICES ASSUME xw < yw, ~(x < y) PROVE FALSE
    OBVIOUS
  <2>1. x = y \/ yw + w <= xw
    BY <1>1
  <2>2. x = y => xw = yw
    OBVIOUS
  <2> HIDE DEF xw, yw
  <2> QED BY <1>2, <2>1, <2>2
<1> QED BY <1>3, <1>4

LEMMA Fraction ==
  ASSUME NEW n \in Nat, n > 0, NEW m \in Nat, NEW e \in Nat, e > 0, NEW spread \in Nat,
         NEW kk \in Nat, kk * spread < e,
         m * ((e + spread) * (e + spread)) <= (n * spread) * (e + spread)
  PROVE  m * (kk + 1) < n
<1> DEFINE w == e + spread
<1>1. w \in Nat /\ w > 0
  OBVIOUS
<1>2. m * w <= n * spread
  <2>1. (m * w) * w <= (n * spread) * w
    OBVIOUS
  <2>2. m * w \in Int /\ n * spread \in Int
    OBVIOUS
  <2> HIDE DEF w
  <2> QED BY <1>1, <2>1, <2>2, Cancel
<1>3. CASE m = 0
  BY <1>3
<1>4. CASE m > 0 /\ spread > 0
  <2>1. (kk + 1) * spread < w
    OBVIOUS
  <2>2. ((kk + 1) * spread) * m < w * m
    <3> DEFINE x == (kk + 1) * spread
    <3>1. x \in Int /\ x + 1 <= w
      BY <2>1
    <3> HIDE DEF x, w
    <3>2. (x + 1) * m <= w * m
      <4> DEFINE r == w - (x + 1)
      <4>1. r \in Nat /\ w = (x + 1) + r
        BY <1>1, <3>1
      <4>2. w * m = (x + 1) * m + r * m
        BY <3>1, <4>1
      <4>3. r * m \in Nat /\ (x + 1) * m \in Int
        BY <3>1, <4>1
      <4> DEFINE rm == r * m
                 xm == (x + 1) * m
      <4> HIDE DEF r, rm, xm
      <4>4. xm <= xm + rm
        BY <4>3 DEF rm, xm
      <4> QED BY <4>2, <4>4 DEF rm, xm
    <3>3. (x + 1) * m = x * m + m
      BY <3>1
    <3> DEFINE xm == x * m
               wm == w * m
    <3>4. xm \in Int /\ wm \in Int
      BY <1>1, <3>1
    <3>5. xm + m <= wm
      BY <3>2, <3>3
    <3> HIDE DEF xm, wm
    <3>6. xm < wm
      BY <1>4, <3>4, <3>5
    <3> QED BY <3>6 DEF x, xm, wm
  <2>3. ((kk + 1) * spread) * m = (m * (kk + 1)) * spread /\ w * m = m * w
    BY <1>1
  <2>4. (m * (kk + 1)) * spread < n * spread
    <3> DEFINE left  == (m * (kk + 1)) * spread
               mid   == m * w
               right == n * spread
    <3>1. left \in Int /\ mid \in Int /\ right \in Int
      BY <1>1
    <3>2. left < mid /\ mid <= right
      BY <1>2, <2>2, <2>3
    <3> HIDE DEF left, mid, right
    <3>3. left < right
      BY <3>1, <3>2
    <3> QED BY <3>3 DEF left, right
  <2>5. m * (kk + 1) \in Int
    OBVIOUS
  <2> QED BY <1>4, <2>4, <2>5, Cancel
<1>5. CASE m > 0 /\ spread = 0
  <2>1. n * spread = 0
    BY <1>5
  <2>2. m * w \in Nat /\ m * w > 0
    BY <1>1, <1>5
  <2> QED BY <1>2, <2>1, <2>2
<1> QED BY <1>3, <1>4, <1>5

-----------------------------------------------------------------------------
(* The statistics of a window.                                             *)

AreSamples(samples) ==
  /\ samples \in Seq([age : Nat, value : Nat])
  /\ Len(samples) > 0

\* A function on 1..n is a sequence of that length.
LEMMA SequenceOver ==
  ASSUME NEW S, NEW n \in Nat, NEW f \in [1..n -> S]
  PROVE  f \in Seq(S) /\ Len(f) = n
<1>1. f \in Seq(S)
  BY SeqDef
<1>2. DOMAIN f = 1..n /\ DOMAIN f = 1..Len(f) /\ Len(f) \in Nat
  BY <1>1, LenProperties
<1> QED BY <1>1, <1>2

LEMMA SequenceOfInts ==
  ASSUME NEW n \in Nat, NEW f \in [1..n -> Int]
  PROVE  Len(f) = n
<1>1. f \in Seq(Int)
  BY SeqDef
<1>2. DOMAIN f = 1..n /\ DOMAIN f = 1..Len(f) /\ Len(f) \in Nat
  BY <1>1, LenProperties
<1> QED BY <1>2

LEMMA Moments ==
  ASSUME NEW samples, AreSamples(samples)
  PROVE  LET n == Len(samples)
             t == Sums(Plain(samples))
             q == Sums(Squares(samples))
         IN  /\ n \in Nat /\ n > 0
             /\ DOMAIN samples = 1..n
             /\ \A i \in 1..n : samples[i].value \in Nat
             /\ Stats(samples).n = n
             /\ Stats(samples).sum = t[n]
             /\ Stats(samples).spread = n * q[n] - t[n] * t[n]
             /\ \A i \in 0..n : t[i] \in Int /\ q[i] \in Int
             /\ t[0] = 0 /\ \A i \in 1..n : t[i] = t[i - 1] + samples[i].value
             /\ q[0] = 0 /\ \A i \in 1..n : q[i] = q[i - 1] + samples[i].value * samples[i].value
<1> DEFINE n == Len(samples)
           f == Plain(samples)
           g == Squares(samples)
<1>1. n \in Nat /\ n > 0 /\ DOMAIN samples = 1..n /\ \A i \in 1..n : samples[i].value \in Nat
  <2>1. n \in Nat /\ n > 0 /\ DOMAIN samples = 1..n
    BY LenProperties DEF AreSamples
  <2>2. \A i \in 1..n : samples[i] \in [age : Nat, value : Nat]
    BY ElementOfSeq DEF AreSamples
  <2> QED BY <2>1, <2>2
<1>2. /\ f = [i \in 1..n |-> samples[i].value]
      /\ g = [i \in 1..n |-> samples[i].value * samples[i].value]
  BY <1>1 DEF Plain, Squares
<1> HIDE DEF n, f, g
<1>3. f \in [1..n -> Int] /\ g \in [1..n -> Int]
  BY <1>1, <1>2
<1>4. Len(f) = n /\ Len(g) = n
  BY <1>1, <1>3, SequenceOfInts
<1>5. \A i \in 0..n : Sums(f)[i] \in Int /\ Sums(g)[i] \in Int
  BY <1>1, <1>3, <1>4, SumsType
<1>6. /\ Sums(f)[0] = 0 /\ \A i \in 1..n : Sums(f)[i] = Sums(f)[i - 1] + f[i]
      /\ Sums(g)[0] = 0 /\ \A i \in 1..n : Sums(g)[i] = Sums(g)[i - 1] + g[i]
  BY <1>1, <1>4, SumsEquation
<1>7. Total(f) = Sums(f)[n] /\ Total(g) = Sums(g)[n]
  BY <1>4, TotalIsLast
<1>8. /\ Stats(samples).n = n
      /\ Stats(samples).sum = Total(f)
      /\ Stats(samples).spread = n * Total(g) - Total(f) * Total(f)
  BY DEF Stats, n, f, g
<1>9. \A i \in 1..n : f[i] = samples[i].value /\ g[i] = samples[i].value * samples[i].value
  BY <1>2
<1> QED BY <1>1, <1>5, <1>6, <1>7, <1>8, <1>9 DEF n, f, g

LEMMA SpreadIsNatural ==
  ASSUME NEW samples, AreSamples(samples)
  PROVE  Stats(samples).spread \in Nat
<1> DEFINE n == Len(samples)
           v == [i \in 1..n |-> samples[i].value]
           t == Sums(Plain(samples))
           q == Sums(Squares(samples))
           b == -t[n]
<1>1. /\ n \in Nat /\ n > 0 /\ \A i \in 1..n : v[i] \in Int
      /\ Stats(samples).spread = n * q[n] - t[n] * t[n]
      /\ \A i \in 0..n : t[i] \in Int
      /\ \A i \in 0..n : q[i] \in Int
      /\ t[0] = 0 /\ \A i \in 1..n : t[i] = t[i - 1] + v[i]
      /\ q[0] = 0 /\ \A i \in 1..n : q[i] = q[i - 1] + v[i] * v[i]
  <2>1. /\ n \in Nat /\ n > 0 /\ \A i \in 1..n : samples[i].value \in Nat
        /\ Stats(samples).spread = n * q[n] - t[n] * t[n]
        /\ \A i \in 0..n : t[i] \in Int /\ q[i] \in Int
        /\ t[0] = 0 /\ \A i \in 1..n : t[i] = t[i - 1] + samples[i].value
        /\ q[0] = 0 /\ \A i \in 1..n : q[i] = q[i - 1] + samples[i].value * samples[i].value
    BY Moments
  <2>2. \A i \in 1..n : v[i] = samples[i].value
    OBVIOUS
  <2> HIDE DEF n, v, t, q
  <2>3. \A i \in 1..n : v[i] \in Int
    BY <2>1, <2>2
  <2>4. /\ \A i \in 1..n : t[i] = t[i - 1] + v[i]
        /\ \A i \in 1..n : q[i] = q[i - 1] + v[i] * v[i]
    BY <2>1, <2>2, Zenon
  <2> QED BY <2>1, <2>3, <2>4
<1> HIDE DEF n, v, t, q
<1>2. n \in 0..n /\ t[n] \in Int /\ q[n] \in Int
  BY <1>1
<1>3. Cardinality({}) * 0 <= (n * n) * q[n] + (2 * (n * b)) * t[n] + (b * b) * n
  <2>1. {} \in SUBSET (1..n) /\ b \in Int /\ n \in Int /\ 0 \in Int
    BY <1>1, <1>2
  <2> HIDE DEF b
  <2> QED BY <1>1, <2>1, SquaresOfASet
<1>4. Cardinality({}) = 0
  BY FS_EmptySet
<1> DEFINE T == t[n]
           Q == q[n]
           spread == n * Q - T * T
<1>5. T \in Int /\ Q \in Int /\ 0 <= (n * n) * Q + (2 * (n * (-T))) * T + ((-T) * (-T)) * n
  BY <1>2, <1>3, <1>4
<1> HIDE DEF T, Q
<1>6. (n * n) * Q + (2 * (n * (-T))) * T + ((-T) * (-T)) * n = (n * Q - T * T) * n
  BY <1>1, <1>5
<1>7. spread \in Int /\ 0 <= spread * n
  BY <1>1, <1>5, <1>6
<1> HIDE DEF spread
<1>8. 0 * n <= spread * n
  BY <1>1, <1>7
<1>9. 0 <= spread
  BY <1>1, <1>7, <1>8, Cancel
<1> QED BY <1>1, <1>7, <1>9 DEF spread, T, Q

\* Cantelli's inequality: of all samples a share of less than 1 in kk + 1 lies as far
\* from the mean as a value whose squared distance is more than kk variances.
LEMMA FewAreAsFar ==
  ASSUME NEW samples, AreSamples(samples), NEW value \in Int, NEW kk \in Nat,
         Distance(value, Stats(samples)) # 0,
         kk * Stats(samples).spread < Distance(value, Stats(samples)) * Distance(value, Stats(samples)),
         NEW A \in SUBSET (1..Len(samples)),
         \A i \in A : Distance(value, Stats(samples)) * Distance(value, Stats(samples))
                        <= Distance(value, Stats(samples)) * Distance(samples[i].value, Stats(samples))
  PROVE  Cardinality(A) * (kk + 1) < Len(samples)
<1> DEFINE n == Len(samples)
           v == [i \in 1..n |-> samples[i].value]
           t == Sums(Plain(samples))
           q == Sums(Squares(samples))
           spread == Stats(samples).spread
           T == t[n]
           Q == q[n]
           d == Distance(value, Stats(samples))
           a == d * n
           b == spread - d * T
           e == d * d
           bound == (e + spread) * (e + spread)
           m == Cardinality(A)
<1>1. /\ n \in Nat /\ n > 0 /\ \A i \in 1..n : v[i] \in Int
      /\ Stats(samples).n = n /\ Stats(samples).sum = T
      /\ spread = n * Q - T * T
      /\ \A i \in 0..n : t[i] \in Int
      /\ \A i \in 0..n : q[i] \in Int
      /\ t[0] = 0 /\ \A i \in 1..n : t[i] = t[i - 1] + v[i]
      /\ q[0] = 0 /\ \A i \in 1..n : q[i] = q[i - 1] + v[i] * v[i]
  BY Moments
<1>2. T \in Int /\ Q \in Int
  BY <1>1
<1>3. spread \in Nat
  BY SpreadIsNatural
<1>4. d = n * value - T /\ \A i \in 1..n : Distance(samples[i].value, Stats(samples)) = n * v[i] - T
  BY <1>1 DEF Distance
<1>5. d # 0 /\ kk * spread < e /\ \A i \in A : e <= d * (n * v[i] - T)
  BY <1>4
<1>6. d \in Int
  BY <1>1, <1>2, <1>4
<1> HIDE DEF n, v, t, q, spread, T, Q, d
<1>7. e \in Nat /\ e > 0
  BY <1>5, <1>6
<1>8. a \in Int /\ b \in Int /\ bound \in Int
  BY <1>1, <1>2, <1>3, <1>6, <1>7
<1>9. ASSUME NEW i \in A
      PROVE  bound <= (a * v[i] + b) * (a * v[i] + b)
  <2> DEFINE x == v[i]
             far == d * (n * x - T)
  <2>1. x \in Int
    BY <1>1 DEF n
  <2> HIDE DEF x
  <2>2. a * x + b = far + spread
    BY <1>1, <1>2, <1>3, <1>6, <2>1
  <2>3. far \in Int /\ e <= far
    BY <1>1, <1>2, <1>5, <1>6, <2>1 DEF x
  <2> HIDE DEF far, a, b, e
  <2>4. \A y, z \in Nat : y <= z => y * y <= z * z
    <3> SUFFICES ASSUME NEW y \in Nat, NEW z \in Nat, y <= z PROVE y * y <= z * z
      OBVIOUS
    <3> DEFINE r == z - y
    <3>1. r \in Nat /\ z = y + r
      OBVIOUS
    <3>2. z * z = y * y + (2 * (y * r) + r * r)
      BY <3>1
    <3>3. 2 * (y * r) + r * r \in Nat /\ y * y \in Nat
      BY <3>1
    <3> DEFINE rest == 2 * (y * r) + r * r
               yy == y * y
    <3> HIDE DEF r, rest, yy
    <3>4. yy <= yy + rest
      BY <3>3 DEF rest, yy
    <3> QED BY <3>2, <3>4 DEF rest, yy
  <2>5. e + spread \in Nat /\ far + spread \in Nat /\ e + spread <= far + spread
    BY <1>3, <1>7, <2>3
  <2> QED BY <2>2, <2>4, <2>5 DEF x
<1>10. /\ m \in Nat
       /\ m * bound <= (a * a) * Q + (2 * (a * b)) * T + (b * b) * n
  <2> HIDE DEF a, b, bound
  <2>1. A \in SUBSET (1..n)
    BY DEF n
  <2>2. /\ n \in Nat /\ \A i \in 1..n : v[i] \in Int
        /\ \A i \in 0..n : t[i] \in Int
        /\ \A i \in 0..n : q[i] \in Int
        /\ t[0] = 0 /\ \A i \in 1..n : t[i] = t[i - 1] + v[i]
        /\ q[0] = 0 /\ \A i \in 1..n : q[i] = q[i - 1] + v[i] * v[i]
    BY <1>1
  <2>3. \A i \in A : bound <= (a * v[i] + b) * (a * v[i] + b)
    BY <1>9
  <2>4. /\ Cardinality(A) \in Nat
        /\ Cardinality(A) * bound <= (a * a) * q[n] + (2 * (a * b)) * t[n] + (b * b) * n
    BY <1>8, <2>1, <2>2, <2>3, SquaresOfASet
  <2> QED BY <2>4 DEF T, Q
<1>11. (a * a) * Q + (2 * (a * b)) * T + (b * b) * n = (n * spread) * (e + spread)
  <2>1. /\ n \in Int /\ Q \in Int /\ T \in Int /\ d \in Int /\ spread \in Int
        /\ n * Q = spread + T * T
    BY <1>1, <1>2, <1>3, <1>6
  <2>2. (a * a) * Q = ((d * d) * n) * (n * Q)
    BY <2>1
  <2>3. (a * a) * Q = ((d * d) * n) * (spread + T * T)
    BY <2>1, <2>2
  <2>4. ((d * d) * n) * (spread + T * T) + (2 * (a * b)) * T + (b * b) * n
          = (n * spread) * (e + spread)
    <3>1. n \in Int /\ T \in Int /\ d \in Int /\ spread \in Int
      BY <2>1
    <3> QED BY <3>1
  <2> QED BY <2>3, <2>4
<1>12. m * ((e + spread) * (e + spread)) <= (n * spread) * (e + spread)
  BY <1>10, <1>11
<1> HIDE DEF m, e
<1>13. m * (kk + 1) < n
  BY <1>1, <1>3, <1>5, <1>7, <1>10, <1>12, Fraction
<1> QED BY <1>13 DEF m, n

-----------------------------------------------------------------------------
(* Detection.                                                              *)

Row == [age : Nat, value : Nat]
Signals == [age : Nat, value : Nat, num : Nat, den : Nat]

\* A signal that is raised has a denominator, and so is never mistaken for none.
LEMMA RaisedSignal ==
  ASSUME NEW m, NEW row \in Row, NEW samples, AreSamples(samples)
  PROVE  LET raised == Signal(m, row, Stats(samples)) IN
         /\ raised.age = row.age /\ raised.value = row.value
         /\ raised.num \in Nat
         /\ raised # NoSignal
         /\ raised \in Signals
<1> DEFINE stats  == Stats(samples)
           raised == Signal(m, row, stats)
           d      == Distance(row.value, stats)
<1>1. stats.n \in Int /\ stats.sum \in Int /\ stats.spread \in Nat
  <2>1. stats.n \in Int
    BY Moments
  <2>2. stats.sum = Sums(Plain(samples))[Len(samples)] /\ Len(samples) \in 0..Len(samples)
    BY Moments
  <2>3. stats.sum \in Int
    BY <2>2, Moments
  <2> QED BY <2>1, <2>3, SpreadIsNatural
<1> HIDE DEF stats
<1>2. row.value \in Nat
  BY DEF Row
<1>3. d \in Int
  BY <1>1, <1>2 DEF Distance
<1> HIDE DEF d
<1>4. raised = [age |-> row.age, value |-> row.value,
                num |-> CASE m = "dlq_depth" -> row.value * row.value
                          [] stats.spread = 0 /\ m # "dlq_depth" -> 0
                          [] OTHER -> d * d,
                den |-> IF m = "dlq_depth" \/ stats.spread = 0 THEN 1 ELSE stats.spread]
  BY DEF Signal, d
<1> HIDE DEF raised
<1>5. raised.num = CASE m = "dlq_depth" -> row.value * row.value
                     [] stats.spread = 0 /\ m # "dlq_depth" -> 0
                     [] OTHER -> d * d
  BY <1>4
<1>6. row.value * row.value \in Nat /\ d * d \in Nat
  BY <1>2, <1>3
<1>7. raised.num \in Nat
  BY <1>5, <1>6
<1>8. raised.den # 0
  BY <1>4
<1>9. raised # NoSignal
  BY <1>8 DEF NoSignal
<1>10. row.age \in Nat /\ raised.den \in Nat
  <2>1. raised.den = IF m = "dlq_depth" \/ stats.spread = 0 THEN 1 ELSE stats.spread
    BY <1>4
  <2> QED BY <1>1, <2>1 DEF Row
<1>11. raised \in Signals
  <2>1. \E num, den : raised = [age |-> row.age, value |-> row.value, num |-> num, den |-> den]
    BY <1>4
  <2> QED BY <1>2, <1>7, <1>10, <2>1 DEF Signals
<1> QED BY <1>4, <1>7, <1>9, <1>11 DEF raised, stats

\* Detect answers with the signal of an anomalous row, if there is one.
LEMMA DetectFinds ==
  ASSUME NEW m, NEW read \in Seq(Row), NEW samples, AreSamples(samples)
  PROVE  \/ /\ \A r \in Range(read) : ~Anomalous(m, r.value, Stats(samples))
            /\ Detect(m, read, samples) = NoSignal
         \/ /\ \E r \in Range(read) : /\ Anomalous(m, r.value, Stats(samples))
                                      /\ Detect(m, read, samples) = Signal(m, r, Stats(samples))
            /\ Detect(m, read, samples) # NoSignal
<1> DEFINE stats == Stats(samples)
           n     == Len(read)
           found == {Signal(m, r, stats) : r \in {r \in Range(read) : Anomalous(m, r.value, stats)}}
           worst == {s \in found : \A t \in found : t.num <= s.num}
           sig   == [i \in 1..n |-> Signal(m, read[i], stats)]
           num   == [i \in 1..n |-> sig[i].num]
           age   == [i \in 1..n |-> sig[i].age]
           A     == {i \in 1..n : Anomalous(m, read[i].value, stats)}
<1>1. /\ n \in Nat /\ DOMAIN read = 1..n
      /\ \A i \in 1..n : read[i] \in Row
  BY LenProperties, ElementOfSeq
<1>2. Range(read) = {read[i] : i \in 1..n}
  BY <1>1 DEF Range
<1>3. Detect(m, read, samples) =
        IF found = {} THEN NoSignal ELSE CHOOSE s \in worst : \A t \in worst : t.age <= s.age
  BY DEF Detect
<1>4. found = {sig[i] : i \in A}
  BY <1>2
<1>5. \A i \in 1..n : /\ sig[i].num \in Nat /\ sig[i].age \in Nat
                      /\ sig[i] # NoSignal
  <2> TAKE i \in 1..n
  <2>1. read[i] \in Row /\ sig[i] = Signal(m, read[i], Stats(samples))
    BY <1>1
  <2>2. read[i].age \in Nat
    BY <2>1 DEF Row
  <2> HIDE DEF sig
  <2> QED BY <2>1, <2>2, RaisedSignal
<1>6. \A i \in 1..n : sig[i] = Signal(m, read[i], stats)
  OBVIOUS
<1>7. CASE A = {}
  <2>1. found = {} /\ \A r \in Range(read) : ~Anomalous(m, r.value, stats)
    BY <1>2, <1>4, <1>7
  <2> QED BY <1>3, <2>1
<1>8. CASE A # {}
  <2>1. \A i \in 1..n : num[i] \in Nat /\ num[i] = sig[i].num /\ age[i] \in Nat /\ age[i] = sig[i].age
    BY <1>5
  <2>2. A \in SUBSET (1..n) /\ \A i \in A : i \in 1..n
    OBVIOUS
  <2> HIDE DEF sig, num, age, A, found
  <2>3. PICK x \in A : \A j \in A : num[j] <= num[x]
    BY <1>1, <1>8, <2>1, <2>2, GreatestExists
  <2> DEFINE B == {i \in A : sig[i] \in worst}
  <2>4. x \in B
    <3>1. sig[x] \in found /\ \A t \in found : t.num <= sig[x].num
      BY <1>4, <2>1, <2>2, <2>3
    <3> QED BY <3>1
  <2>5. B \in SUBSET (1..n) /\ B # {}
    BY <2>2, <2>4
  <2> HIDE DEF B
  <2>6. PICK y \in B : \A j \in B : age[j] <= age[y]
    BY <1>1, <2>1, <2>5, GreatestExists
  <2>7. sig[y] \in worst /\ \A t \in worst : t.age <= sig[y].age
    <3>1. \A t \in worst : \E j \in B : t = sig[j]
      BY <1>4 DEF B
    <3> QED BY <2>1, <2>5, <2>6, <3>1 DEF B
  <2> DEFINE chosen == CHOOSE s \in worst : \A t \in worst : t.age <= s.age
  <2>8. chosen \in worst
    <3> HIDE DEF worst
    <3> QED BY <2>7
  <2>9. PICK j \in A : chosen = sig[j]
    <3> HIDE DEF chosen
    <3> QED BY <1>4, <2>8
  <2>10. Detect(m, read, samples) = chosen
    <3>1. found # {}
      BY <2>8
    <3> QED BY <1>3, <3>1
  <2> HIDE DEF chosen
  <2>11. j \in 1..n /\ Anomalous(m, read[j].value, stats)
    BY DEF A
  <2>12. read[j] \in Range(read) /\ chosen = Signal(m, read[j], stats) /\ chosen # NoSignal
    BY <1>2, <1>5, <1>6, <2>9, <2>11
  <2> QED BY <2>10, <2>11, <2>12
<1> QED BY <1>7, <1>8

-----------------------------------------------------------------------------
(* An anomaly is rare in its window.                                       *)

LEMMA SigmasSquared ==
  ASSUME NEW m
  PROVE  Sigmas(m) \in Nat /\ Sigmas(m) * Sigmas(m) \in Nat /\ Sigmas(m) * Sigmas(m) <= 9
<1>1. CASE m \in {"error_rate", "p99_latency"}
  BY <1>1 DEF Sigmas
<1>2. CASE m \notin {"error_rate", "p99_latency"}
  BY <1>2 DEF Sigmas
<1> QED BY <1>1, <1>2

\* An anomalous value lies as far from the mean as its rule says, on the side its rule
\* says; a dead-letter queue has no such rule.
LEMMA AnomalousIsFar ==
  ASSUME NEW m, NEW v, NEW stats, Anomalous(m, v, stats), m # "dlq_depth"
  PROVE  /\ Beyond(Sigmas(m), v, stats)
         /\ m = "throughput" => Distance(v, stats) < 0
         /\ m # "throughput" => Distance(v, stats) > 0
BY DEF Anomalous, Above, Below

LEMMA AnomalousAreFew ==
  ASSUME NEW m, m # "dlq_depth", NEW samples, AreSamples(samples), NEW value \in Nat,
         Anomalous(m, value, Stats(samples)), NEW A,
         A = {i \in DOMAIN samples : IF m = "throughput" THEN samples[i].value <= value
                                                       ELSE samples[i].value >= value}
  PROVE  Cardinality(A) * (Sigmas(m) * Sigmas(m) + 1) < Len(samples)
<1> DEFINE n  == Len(samples)
           T  == Stats(samples).sum
           d  == Distance(value, Stats(samples))
           kk == Sigmas(m) * Sigmas(m)
           spread == Stats(samples).spread
<1>1. n \in Nat /\ n > 0 /\ DOMAIN samples = 1..n /\ Stats(samples).n = n
      /\ \A i \in 1..n : samples[i].value \in Nat
  BY Moments
<1>2. T \in Int
  <2>1. T = Sums(Plain(samples))[n] /\ n \in 0..n
    BY Moments
  <2> QED BY <2>1, Moments
<1>3. spread \in Nat /\ kk \in Nat
  BY SpreadIsNatural, SigmasSquared
<1>4. d = n * value - T /\ \A i \in 1..n : Distance(samples[i].value, Stats(samples)) = n * samples[i].value - T
  BY <1>1 DEF Distance
<1>5. /\ kk * spread < d * d
      /\ m = "throughput" => d < 0
      /\ m # "throughput" => d > 0
  BY AnomalousIsFar DEF Beyond
<1> HIDE DEF n, T, d, kk, spread
<1>6. d \in Int /\ d # 0
  <2>1. d \in Int
    BY <1>1, <1>2, <1>4
  <2> QED BY <2>1, <1>5
<1>7. ASSUME NEW i \in A
      PROVE  d * d <= d * Distance(samples[i].value, Stats(samples))
  <2> DEFINE x == samples[i].value
             y == x - value
             z == n * y
  <2>1. i \in 1..n /\ x \in Nat
    BY <1>1
  <2>2. IF m = "throughput" THEN x <= value ELSE x >= value
    OBVIOUS
  <2>3. Distance(x, Stats(samples)) = n * x - T
    BY <1>4, <2>1
  <2> HIDE DEF x
  <2>4. n * x - T = d + z
    BY <1>1, <1>2, <1>4, <2>1
  <2>5. IF m = "throughput" THEN y <= 0 ELSE y >= 0
    BY <2>1, <2>2
  <2>6. y \in Int
    BY <2>1
  <2>7. z \in Int /\ (y >= 0 => z >= 0) /\ (y <= 0 => z <= 0)
    <3> HIDE DEF y
    <3>1. z \in Int
      BY <1>1, <2>6
    <3>2. y >= 0 => z >= 0
      BY <1>1, <2>6
    <3>3. y <= 0 => z <= 0
      <4>1. z = -(n * (-y))
        BY <1>1, <2>6
      <4>2. y <= 0 => n * (-y) >= 0
        BY <1>1, <2>6
      <4>3. n * (-y) \in Int
        BY <1>1, <2>6
      <4> DEFINE u == n * (-y)
      <4> HIDE DEF u, z
      <4>4. u \in Int /\ z = -u /\ (y <= 0 => u >= 0)
        BY <4>1, <4>2, <4>3 DEF u
      <4> QED BY <4>4
    <3> QED BY <3>1, <3>2, <3>3
  <2> HIDE DEF z, y
  <2>8. d * z >= 0
    <3>1. CASE m = "throughput"
      <4>1. -d \in Nat /\ -z \in Nat
        BY <1>5, <1>6, <2>5, <2>7, <3>1
      <4>2. d * z = (-d) * (-z)
        BY <1>6, <2>7
      <4>3. (-d) * (-z) >= 0
        <5> DEFINE p == -d
                   r == -z
        <5> HIDE DEF p, r
        <5>1. p \in Nat /\ r \in Nat
          BY <4>1 DEF p, r
        <5>2. p * r >= 0
          BY <5>1
        <5> QED BY <5>2 DEF p, r
      <4> QED BY <4>2, <4>3
    <3>2. CASE m # "throughput"
      <4>1. d \in Nat /\ z \in Nat
        BY <1>5, <1>6, <2>5, <2>7, <3>2
      <4> QED BY <4>1
    <3> QED BY <3>1, <3>2
  <2>9. d * (d + z) = d * d + d * z /\ d * d \in Int /\ d * z \in Int
    BY <1>6, <2>7
  <2> DEFINE dd == d * d
             dz == d * z
  <2> HIDE DEF dd, dz
  <2>10. dd <= dd + dz
    BY <2>8, <2>9 DEF dd, dz
  <2> QED BY <2>3, <2>4, <2>9, <2>10 DEF dd, dz, x
<1>8. A \in SUBSET (1..Len(samples)) /\ value \in Int
  BY <1>1 DEF n
<1>9. Cardinality(A) * (kk + 1) < Len(samples)
  BY <1>3, <1>5, <1>6, <1>7, <1>8, FewAreAsFar DEF d, spread
<1> QED BY <1>9 DEF kk

-----------------------------------------------------------------------------
(* A fresh fault.                                                          *)

\* When all samples but the last agree, that one lies further from the mean than
\* three standard deviations.
LEMMA LastIsFar ==
  ASSUME NEW samples, AreSamples(samples), Len(samples) > 10,
         NEW a \in Nat, \A i \in 1..(Len(samples) - 1) : samples[i].value = a,
         NEW b \in Nat, samples[Len(samples)].value = b, a # b,
         NEW kk \in Nat, kk <= 9
  PROVE  LET d == Distance(b, Stats(samples)) IN
         /\ d * d > kk * Stats(samples).spread
         /\ a < b => d > 0
         /\ b < a => d < 0
<1> DEFINE n == Len(samples)
           p == n - 1
           t == Sums(Plain(samples))
           q == Sums(Squares(samples))
           T == Stats(samples).sum
           d == Distance(b, Stats(samples))
           spread == Stats(samples).spread
           y == b - a
<1>1. /\ n \in Nat /\ Stats(samples).n = n /\ T = t[n] /\ spread = n * q[n] - t[n] * t[n]
      /\ t[0] = 0 /\ \A i \in 1..n : t[i] = t[i - 1] + samples[i].value
      /\ q[0] = 0 /\ \A i \in 1..n : q[i] = q[i - 1] + samples[i].value * samples[i].value
  BY Moments
<1>2. p \in Nat /\ n = p + 1 /\ p >= 10 /\ n \in 1..n /\ n - 1 = p
  BY <1>1
<1>3. d = n * b - T
  BY <1>1 DEF Distance
<1>4. /\ \A i \in 1..p : samples[i].value = a
      /\ samples[n].value = b
  OBVIOUS
<1> HIDE DEF n, p, t, q, T, d, spread
<1>5. t[p] = p * a /\ q[p] = p * (a * a)
  <2> DEFINE C == {j \in Nat : j <= p => t[j] = j * a /\ q[j] = j * (a * a)}
  <2>1. 0 \in C
    <3>1. 0 * a = 0 /\ 0 * (a * a) = 0
      OBVIOUS
    <3> QED BY <1>1, <3>1
  <2>2. ASSUME NEW j \in Nat, j \in C
        PROVE  j + 1 \in C
    <3> SUFFICES ASSUME j + 1 <= p
                 PROVE  t[j + 1] = (j + 1) * a /\ q[j + 1] = (j + 1) * (a * a)
      OBVIOUS
    <3>1. j + 1 \in 1..p /\ j + 1 \in 1..n /\ (j + 1) - 1 = j /\ j <= p
      BY <1>2
    <3>2. t[j] = j * a /\ q[j] = j * (a * a)
      BY <2>2, <3>1
    <3>3. samples[j + 1].value = a
      BY <1>4, <3>1
    <3>4. t[j + 1] = t[j] + a /\ q[j + 1] = q[j] + a * a
      BY <1>1, <3>1, <3>3
    <3>5. j * a + a = (j + 1) * a /\ j * (a * a) + a * a = (j + 1) * (a * a)
      OBVIOUS
    <3> QED BY <3>2, <3>4, <3>5
  <2>3. Nat \subseteq C
    <3> HIDE DEF C
    <3> QED BY <2>1, <2>2, NatInductionOnSet
  <2>4. p <= p
    BY <1>2
  <2> QED BY <1>2, <2>3, <2>4
<1>6. t[n] = p * a + b /\ q[n] = p * (a * a) + b * b
  BY <1>1, <1>2, <1>4, <1>5
<1>7. d = p * y
  <2>1. T = p * a + b
    BY <1>1, <1>6
  <2>2. (p + 1) * b - (p * a + b) = p * (b - a)
    BY <1>2
  <2> QED BY <1>2, <1>3, <2>1, <2>2
<1>8. spread = p * (y * y)
  <2>1. (p + 1) * (p * (a * a) + b * b) - (p * a + b) * (p * a + b) = p * ((b - a) * (b - a))
    BY <1>2
  <2> QED BY <1>1, <1>2, <1>6, <2>1
<1>9. y \in Int /\ y # 0 /\ (a < b => y > 0) /\ (b < a => y < 0)
  OBVIOUS
<1> HIDE DEF y
<1> DEFINE yy == y * y
           s  == p * yy
<1>10. yy \in Nat /\ yy > 0
  BY <1>9
<1>11. s \in Nat /\ s > 0
  <2> HIDE DEF yy
  <2>1. s \in Nat
    BY <1>2, <1>10
  <2>2. s > 0
    BY <1>2, <1>10
  <2> QED BY <2>1, <2>2
<1>12. d * d = p * s
  BY <1>2, <1>7, <1>9
<1>13. kk * s < p * s
  <2> HIDE DEF s
  <2> DEFINE r == p - (kk + 1)
  <2>1. r \in Nat /\ p = (kk + 1) + r
    BY <1>2
  <2>2. p * s = (kk * s + s) + r * s
    BY <1>11, <2>1
  <2>3. kk * s \in Nat /\ r * s \in Nat
    BY <1>11, <2>1
  <2> DEFINE ks == kk * s
             rs == r * s
  <2> HIDE DEF r, ks, rs
  <2>4. ks < (ks + s) + rs
    BY <1>11, <2>3 DEF ks, rs
  <2> QED BY <2>2, <2>4 DEF ks, rs
<1>14. (y > 0 => p * y > 0) /\ (y < 0 => p * y < 0)
  <2>1. y > 0 => p * y > 0
    BY <1>2, <1>9
  <2>2. y < 0 => p * (-y) > 0
    BY <1>2, <1>9
  <2>3. p * y = -(p * (-y)) /\ p * (-y) \in Int
    BY <1>2, <1>9
  <2> DEFINE u == p * (-y)
             w == p * y
  <2> HIDE DEF u, w
  <2>4. u \in Int /\ w = -u /\ (y < 0 => u > 0)
    BY <2>2, <2>3 DEF u, w
  <2>5. y < 0 => w < 0
    BY <2>4
  <2> QED BY <2>1, <2>5 DEF w
<1>15. a < b => d > 0
  BY <1>7, <1>9, <1>14
<1>16. b < a => d < 0
  BY <1>7, <1>9, <1>14
<1>17. kk * spread = kk * s
  BY <1>8
<1>18. kk * spread < d * d
  BY <1>12, <1>13, <1>17
<1>19. kk * spread \in Int /\ d * d \in Int
  <2> HIDE DEF s
  <2> QED BY <1>2, <1>11, <1>12, <1>17
<1>20. d * d > kk * spread
  BY <1>18, <1>19
<1> QED BY <1>15, <1>16, <1>20 DEF d, spread

-----------------------------------------------------------------------------
(* The window.                                                             *)

\* What Since keeps is the end of the sequence, and it begins in time.
LEMMA SinceIsASuffix ==
  ASSUME NEW R, NEW s \in Seq(R), NEW age
  PROVE  \/ /\ Since(s, age) = <<>>
            /\ \A i \in 1..Len(s) : ~(s[i].age <= age)
         \/ \E k \in 1..Len(s) :
              /\ Since(s, age) \in Seq(R)
              /\ Len(Since(s, age)) = Len(s) - k + 1
              /\ \A i \in 1..(Len(s) - k + 1) : Since(s, age)[i] = s[k + i - 1]
              /\ s[k].age <= age
<1> DEFINE kept == {i \in DOMAIN s : s[i].age <= age}
           k    == Min(kept)
<1>1. DOMAIN s = 1..Len(s) /\ Len(s) \in Nat /\ \A i \in 1..Len(s) : s[i] \in R
  BY LenProperties, ElementOfSeq
<1>2. Since(s, age) = IF kept = {} THEN <<>> ELSE SubSeq(s, k, Len(s))
  BY DEF Since
<1>3. CASE kept = {}
  BY <1>1, <1>2, <1>3
<1>4. CASE kept # {}
  <2>1. kept \in SUBSET Nat
    BY <1>1
  <2>2. k \in kept
    <3> HIDE DEF kept
    <3> QED BY <1>4, <2>1, MinIsLeast
  <2>3. k \in 1..Len(s) /\ s[k].age <= age
    BY <1>1, <2>2
  <2> HIDE DEF k
  <2>4. /\ k \in Int /\ Len(s) \in Int /\ k <= Len(s)
        /\ \A i \in k..Len(s) : s[i] \in R
    BY <1>1, <2>3
  <2>5. /\ SubSeq(s, k, Len(s)) \in Seq(R)
        /\ Len(SubSeq(s, k, Len(s))) = Len(s) - k + 1
        /\ \A i \in 1..(Len(s) - k + 1) : SubSeq(s, k, Len(s))[i] = s[k + i - 1]
    BY <2>4, SubSeqProperties
  <2>6. Since(s, age) = SubSeq(s, k, Len(s))
    BY <1>2, <1>4
  <2> QED BY <2>3, <2>5, <2>6
<1> QED BY <1>3, <1>4

LEMMA AgedSequence ==
  ASSUME NEW V, NEW most \in 0..Old, NEW s \in Seq([age : 0..most, value : V])
  PROVE  /\ Aged(s) \in Seq([age : 0..Old, value : V])
         /\ Len(Aged(s)) = Len(s)
         /\ \A i \in 1..Len(s) :
              /\ Aged(s)[i].age = IF s[i].age < Old THEN s[i].age + 1 ELSE Old
              /\ Aged(s)[i].value = s[i].value
<1>1. /\ Len(s) \in Nat /\ DOMAIN s = 1..Len(s)
      /\ \A i \in 1..Len(s) : s[i] \in [age : 0..most, value : V]
  BY LenProperties, ElementOfSeq
<1>2. Old \in Nat
  BY Constants
<1>3. Aged(s) = [i \in 1..Len(s) |-> Older(s[i])]
  BY <1>1 DEF Aged
<1>4. ASSUME NEW i \in 1..Len(s)
      PROVE  /\ Older(s[i]).age = IF s[i].age < Old THEN s[i].age + 1 ELSE Old
             /\ Older(s[i]).value = s[i].value
             /\ Older(s[i]) \in [age : 0..Old, value : V]
  <2> DEFINE a == s[i].age
             b == IF a < Old THEN a + 1 ELSE Old
  <2>1. s[i] = [age |-> a, value |-> s[i].value] /\ a \in 0..most /\ s[i].value \in V
    BY <1>1
  <2>2. Older(s[i]) = [age |-> b, value |-> s[i].value]
    BY <2>1 DEF Older
  <2>3. b \in 0..Old
    <3> HIDE DEF a
    <3> QED BY <1>2, <2>1
  <2> HIDE DEF b
  <2>4. Older(s[i]).age = b /\ Older(s[i]).value = s[i].value
    BY <2>2
  <2> QED BY <2>1, <2>2, <2>3, <2>4 DEF b
<1>5. Aged(s) \in [1..Len(s) -> [age : 0..Old, value : V]]
  BY <1>3, <1>4
<1>6. Aged(s) \in Seq([age : 0..Old, value : V]) /\ Len(Aged(s)) = Len(s)
  BY <1>1, <1>5, SequenceOver
<1> QED BY <1>3, <1>4, <1>6

-----------------------------------------------------------------------------
(* The inductive invariant.                                                *)

\* The rows are in the order of ts, newest last.
Ordered(s) == \A i \in 1..Len(s) : \A j \in (i + 1)..Len(s) : s[i].age > s[j].age

\* A sample is added while it is within the read window, so it is older than one
\* added before it by at most as much.
Trails(s) == \A i \in 1..Len(s) : \A j \in i..Len(s) : s[j].age <= s[i].age + ReadWindow

\* The window begins in time.
Begins(s) == s # <<>> => s[1].age <= s[Len(s)].age + BaselineWindow

ReadRow(V) == [age : 0..ReadWindow, value : V]
Sample(V)  == [age : 0..Old, value : V]

SignalType ==
  /\ signal \in Signals
  /\ signal = NoSignal \/ /\ signal.age <= SignalWindow + misses
                          /\ PastFloor(metric, signal.value)

Types ==
  /\ metric \in Metrics
  /\ rows \in Seq(ReadRow(Levels[metric])) /\ Ordered(rows)
  /\ values \in Seq(Sample(Levels[metric]))
  /\ misses \in 0..MaxMisses
  /\ SignalType

Window == Trails(values) /\ Begins(values)

IInv == Types /\ Window /\ FreshFaultIsSeen

-----------------------------------------------------------------------------
(* The operators of a step.                                                *)

\* A cycle later the samples are a cycle older, and the window still holds together.
LEMMA AgedWindow ==
  ASSUME NEW V, NEW s \in Seq(Sample(V)), Trails(s), Begins(s)
  PROVE  /\ Aged(s) \in Seq(Sample(V))
         /\ Trails(Aged(s)) /\ Begins(Aged(s))
         /\ Len(Aged(s)) = Len(s)
         /\ \A i \in 1..Len(s) : Aged(s)[i].age > 0
<1> DEFINE n == Len(s)
           r == Aged(s)
<1>1. /\ n \in Nat
      /\ \A i \in 1..n : s[i].age \in 0..Old
  <2>1. n \in Nat /\ \A i \in 1..n : s[i] \in Sample(V)
    BY LenProperties, ElementOfSeq
  <2> QED BY <2>1 DEF Sample
<1>2. Old \in Nat /\ Old > 0 /\ ReadWindow \in Nat /\ BaselineWindow \in Nat
  BY Constants
<1>3. /\ r \in Seq(Sample(V)) /\ Len(r) = n
      /\ \A i \in 1..n : r[i].age = IF s[i].age < Old THEN s[i].age + 1 ELSE Old
  <2>1. Old \in 0..Old
    BY <1>2
  <2> QED BY <2>1, AgedSequence DEF Sample
<1> HIDE DEF n, r
<1>4. \A i \in 1..n : \A j \in i..n : s[j].age <= s[i].age + ReadWindow
  BY DEF Trails, n
<1>5. \A i \in 1..n : \A j \in i..n : r[j].age <= r[i].age + ReadWindow
  <2> SUFFICES ASSUME NEW i \in 1..n, NEW j \in i..n
               PROVE  r[j].age <= r[i].age + ReadWindow
    OBVIOUS
  <2>1. j \in 1..n /\ s[j].age <= s[i].age + ReadWindow
    BY <1>1, <1>4
  <2> DEFINE x == s[i].age
             y == s[j].age
  <2>2. x \in 0..Old /\ y \in 0..Old /\ y <= x + ReadWindow
    BY <1>1, <2>1
  <2>3. r[i].age = (IF x < Old THEN x + 1 ELSE Old) /\ r[j].age = (IF y < Old THEN y + 1 ELSE Old)
    BY <1>3, <2>1
  <2> HIDE DEF x, y
  <2> QED BY <1>2, <2>2, <2>3
<1>6. n > 0 => r[1].age <= r[n].age + BaselineWindow
  <2> SUFFICES ASSUME n > 0 PROVE r[1].age <= r[n].age + BaselineWindow
    OBVIOUS
  <2>1. 1 \in 1..n /\ n \in 1..n /\ s # <<>>
    BY <1>1, EmptySeq DEF n
  <2>2. s[1].age <= s[n].age + BaselineWindow
    BY <2>1 DEF Begins, n
  <2> QED BY <1>1, <1>2, <1>3, <2>1, <2>2, SMTT(30)
<1>7. Trails(r) /\ Begins(r)
  <2>1. r # <<>> => n > 0
    BY <1>1, <1>3, EmptySeq
  <2> QED BY <1>3, <1>5, <1>6, <2>1 DEF Trails, Begins
<1>8. \A i \in 1..n : r[i].age > 0
  BY <1>1, <1>2, <1>3
<1> QED BY <1>3, <1>7, <1>8 DEF n, r

\* A cycle that reads a row adds it last; the window begins in time again.
LEMMA AddedWindow ==
  ASSUME NEW V, NEW s \in Seq(Sample(V)), Trails(s),
         NEW read \in Seq(ReadRow(V)), read # <<>>
  PROVE  LET r == Add(s, read) IN
         /\ r \in Seq(Sample(V)) /\ Len(r) > 0
         /\ Trails(r) /\ Begins(r)
         /\ r[Len(r)] = read[Len(read)]
<1> DEFINE n == Len(s)
           m == Len(read)
           w == s \o read
           limit == Last(read).age + BaselineWindow
           r == Since(w, limit)
<1>1. Add(s, read) = r
  BY DEF Add
<1>2. /\ n \in Nat /\ m \in Nat /\ m > 0
      /\ \A i \in 1..n : s[i] \in Sample(V)
      /\ \A i \in 1..m : read[i] \in ReadRow(V)
  BY LenProperties, ElementOfSeq, EmptySeq
<1>3. ReadWindow \in Nat /\ BaselineWindow \in Nat /\ Old \in Nat /\ ReadWindow <= Old
  <2>1. ReadWindow \in Nat /\ BaselineWindow \in Nat /\ Old = BaselineWindow + ReadWindow + 1
    BY Constants
  <2> QED BY <2>1
<1>4. ReadRow(V) \subseteq Sample(V)
  BY <1>3 DEF ReadRow, Sample
<1>5. /\ w \in Seq(Sample(V)) /\ Len(w) = n + m
      /\ \A i \in 1..(n + m) : w[i] = IF i <= n THEN s[i] ELSE read[i - n]
  <2>1. read \in Seq(Sample(V))
    BY <1>4
  <2> QED BY <2>1, ConcatProperties
<1>6. Last(read) = read[m] /\ read[m] \in ReadRow(V)
  BY <1>2 DEF Last
<1>7. limit \in Int /\ read[m].age \in 0..ReadWindow /\ limit = read[m].age + BaselineWindow
  BY <1>3, <1>6 DEF ReadRow
<1>8. w[n + m] = read[m] /\ n + m \in 1..(n + m) /\ w[n + m].age <= limit
  <2>1. n + m \in 1..(n + m) /\ ~(n + m <= n) /\ (n + m) - n = m
    BY <1>2
  <2>2. w[n + m] = read[m]
    BY <1>5, <2>1
  <2> HIDE DEF limit
  <2> QED BY <1>3, <1>7, <2>1, <2>2
<1> HIDE DEF w, limit
<1>9. \A i \in 1..(n + m) : \A j \in i..(n + m) : w[j].age <= w[i].age + ReadWindow
  <2> SUFFICES ASSUME NEW i \in 1..(n + m), NEW j \in i..(n + m)
               PROVE  w[j].age <= w[i].age + ReadWindow
    OBVIOUS
  <2>1. j \in 1..(n + m) /\ i <= j
    BY <1>2
  <2>2. w[i] \in Sample(V)
    BY <1>5, ElementOfSeq
  <2>3. w[i].age \in 0..Old
    BY <2>2 DEF Sample
  <2>4. CASE j <= n
    <3>1. i \in 1..n /\ j \in i..n /\ i <= n
      BY <1>2, <2>1, <2>4
    <3>2. s[j].age <= s[i].age + ReadWindow
      BY <3>1 DEF Trails
    <3>3. w[i] = s[i] /\ w[j] = s[j]
      BY <1>5, <2>1, <2>4, <3>1
    <3> QED BY <3>2, <3>3
  <2>5. CASE ~(j <= n)
    <3>1. j - n \in 1..m
      BY <1>2, <2>1, <2>5
    <3>2. w[j] = read[j - n] /\ read[j - n] \in ReadRow(V)
      BY <1>2, <1>5, <2>1, <2>5, <3>1
    <3>3. w[j].age \in 0..ReadWindow
      BY <3>2 DEF ReadRow
    <3> QED BY <1>3, <2>3, <3>3
  <2> QED BY <2>4, <2>5
<1>10. PICK k \in 1..Len(w) :
         /\ r \in Seq(Sample(V)) /\ Len(r) = Len(w) - k + 1
         /\ \A i \in 1..(Len(w) - k + 1) : r[i] = w[k + i - 1]
         /\ w[k].age <= limit
  <2>1. ~ \A i \in 1..Len(w) : ~(w[i].age <= limit)
    BY <1>5, <1>8
  <2> QED BY <1>5, <2>1, SinceIsASuffix
<1> DEFINE l == n + m - k + 1
<1>11. /\ k \in 1..(n + m) /\ l \in Nat /\ l > 0 /\ Len(r) = l
       /\ \A i \in 1..l : r[i] = w[k + i - 1] /\ k + i - 1 \in 1..(n + m)
       /\ k + l - 1 = n + m /\ k + 1 - 1 = k
  BY <1>2, <1>5, <1>10
<1> HIDE DEF r, l
<1>12. Trails(r)
  <2> SUFFICES ASSUME NEW i \in 1..l, NEW j \in i..l
               PROVE  r[j].age <= r[i].age + ReadWindow
    BY <1>11 DEF Trails
  <2>1. j \in 1..l /\ k + j - 1 \in (k + i - 1)..(n + m)
    BY <1>2, <1>11
  <2>2. r[i] = w[k + i - 1] /\ r[j] = w[k + j - 1] /\ k + i - 1 \in 1..(n + m)
    BY <1>11, <2>1
  <2> QED BY <1>9, <2>1, <2>2
<1>13. r[1] = w[k] /\ r[l] = read[m]
  <2>1. 1 \in 1..l /\ l \in 1..l
    BY <1>11
  <2> QED BY <1>8, <1>11, <2>1
<1>14. Begins(r)
  BY <1>7, <1>10, <1>11, <1>13 DEF Begins
<1> QED BY <1>1, <1>10, <1>11, <1>12, <1>13, <1>14

\* The rows read are those within the read window, in the order of ts.
LEMMA RowsRead ==
  ASSUME Types, NEW new \in NewRows
  PROVE  /\ Rows(new) \in Seq(ReadRow(Levels[metric])) /\ Ordered(Rows(new))
<1> DEFINE V == Levels[metric]
           n == Len(rows)
           a == Aged(rows)
           s == Since(a, ReadWindow)
           p == Len(s)
           r == s \o new
<1>1. /\ rows \in Seq(ReadRow(V)) /\ Ordered(rows) /\ n \in Nat
      /\ \A i \in 1..n : rows[i] \in ReadRow(V)
  BY LenProperties, ElementOfSeq DEF Types
<1>2. ReadWindow \in Nat /\ Old \in Nat /\ ReadWindow < Old /\ ReadWindow \in 0..Old
  <2>1. ReadWindow \in Nat /\ BaselineWindow \in Nat /\ Old = BaselineWindow + ReadWindow + 1
    BY Constants
  <2> QED BY <2>1
<1>3. /\ a \in Seq(Sample(V)) /\ Len(a) = n
      /\ \A i \in 1..n : a[i].age = (IF rows[i].age < Old THEN rows[i].age + 1 ELSE Old)
      /\ \A i \in 1..n : a[i].value = rows[i].value
  BY <1>1, <1>2, AgedSequence DEF ReadRow, Sample
<1> HIDE DEF a
<1>4. \A i \in 1..n : rows[i].age \in 0..ReadWindow /\ rows[i].value \in V
  BY <1>1 DEF ReadRow
<1>5. \A i \in 1..n : a[i].age = rows[i].age + 1
  <2> TAKE i \in 1..n
  <2>1. rows[i].age < Old
    BY <1>2, <1>4
  <2> QED BY <1>3, <2>1
<1>6. \A i \in 1..n : \A j \in (i + 1)..n : a[i].age > a[j].age
  <2> TAKE i \in 1..n
  <2> TAKE j \in (i + 1)..n
  <2>1. j \in 1..n
    BY <1>1
  <2>2. rows[i].age > rows[j].age
    BY <1>1 DEF Ordered
  <2> QED BY <1>4, <1>5, <2>1, <2>2
<1>7. /\ s \in Seq(ReadRow(V)) /\ Ordered(s)
      /\ \A i \in 1..Len(s) : s[i].age > 0
  <2>1. CASE s = <<>>
    <3>1. <<>> \in Seq(ReadRow(V)) /\ Len(<<>>) = 0 /\ 1..0 = {}
      BY EmptySeq
    <3> QED BY <2>1, <3>1 DEF Ordered
  <2>2. CASE s # <<>>
    <3>1. PICK k \in 1..Len(a) :
            /\ s \in Seq(Sample(V)) /\ Len(s) = Len(a) - k + 1
            /\ \A i \in 1..(Len(a) - k + 1) : s[i] = a[k + i - 1]
            /\ a[k].age <= ReadWindow
      BY <1>3, <2>2, SinceIsASuffix
    <3> DEFINE l == n - k + 1
    <3>2. /\ k \in 1..n /\ l \in Nat /\ Len(s) = l
          /\ \A i \in 1..l : s[i] = a[k + i - 1] /\ k + i - 1 \in 1..n
      BY <1>1, <1>3, <3>1
    <3> HIDE DEF s
    <3>3. ASSUME NEW i \in 1..l
          PROVE  s[i].age \in 1..ReadWindow /\ s[i].value \in V /\ s[i] \in Sample(V)
      <4>1. s[i] = a[k + i - 1] /\ k + i - 1 \in 1..n
        BY <3>2
      <4>2. a[k + i - 1].age <= ReadWindow
        <5>1. CASE i = 1
          <6>1. k + i - 1 = k
            BY <3>2, <5>1
          <6> QED BY <3>1, <6>1
        <5>2. CASE i # 1
          <6>1. k + i - 1 \in (k + 1)..n
            BY <3>2, <5>2, <4>1
          <6>2. a[k].age > a[k + i - 1].age
            BY <1>6, <3>2, <6>1
          <6> DEFINE x == a[k].age
                     y == a[k + i - 1].age
          <6>3. x = rows[k].age + 1 /\ rows[k].age \in 0..ReadWindow
            BY <1>4, <1>5, <3>2
          <6>4. y = rows[k + i - 1].age + 1 /\ rows[k + i - 1].age \in 0..ReadWindow
            BY <1>4, <1>5, <4>1
          <6>5. x > y /\ x <= ReadWindow
            BY <3>1, <6>2
          <6> HIDE DEF x, y
          <6>6. x \in Int /\ y \in Int
            BY <6>3, <6>4, SMTT(30)
          <6>7. y <= ReadWindow
            BY <1>2, <6>5, <6>6
          <6> QED BY <6>7 DEF y
        <5> QED BY <5>1, <5>2
      <4>3. a[k + i - 1].age = rows[k + i - 1].age + 1 /\ rows[k + i - 1].age \in 0..ReadWindow
        BY <1>4, <1>5, <4>1
      <4>4. a[k + i - 1].age \in 1..ReadWindow
        BY <1>2, <4>2, <4>3
      <4>5. s[i] \in Sample(V)
        BY <3>1, <3>2, ElementOfSeq
      <4> QED BY <1>3, <1>4, <4>1, <4>4, <4>5
    <3>4. \A i \in 1..l : s[i] \in ReadRow(V)
      <4> TAKE i \in 1..l
      <4>1. s[i] = [age |-> s[i].age, value |-> s[i].value] /\ s[i].age \in 0..ReadWindow /\ s[i].value \in V
        BY <3>3 DEF Sample
      <4> QED BY <4>1 DEF ReadRow
    <3>5. s \in Seq(ReadRow(V))
      <4>1. s = [i \in 1..l |-> s[i]]
        BY <3>1, <3>2, LenProperties
      <4>2. s \in [1..l -> ReadRow(V)]
        BY <3>4, <4>1
      <4> QED BY <3>2, <4>2, SequenceOver
    <3>6. Ordered(s)
      <4> SUFFICES ASSUME NEW i \in 1..l, NEW j \in (i + 1)..l
                   PROVE  s[i].age > s[j].age
        BY <3>2 DEF Ordered
      <4>1. j \in 1..l /\ k + j - 1 \in ((k + i - 1) + 1)..n
        BY <3>2
      <4>2. s[i] = a[k + i - 1] /\ s[j] = a[k + j - 1] /\ k + i - 1 \in 1..n
        BY <3>2, <4>1
      <4> QED BY <1>6, <4>1, <4>2
    <3> QED BY <3>2, <3>3, <3>5, <3>6
  <2> QED BY <2>1, <2>2
<1>8. Rows(new) = r
  BY DEF Rows, a
<1>9. p \in Nat
  BY <1>7, LenProperties
<1> HIDE DEF s
<1>10. CASE new = <<>>
  BY <1>7, <1>8, <1>10, ConcatEmptySeq
<1>11. CASE new # <<>>
  <2>1. PICK v \in V : new = <<[age |-> 0, value |-> v]>>
    BY <1>11 DEF NewRows
  <2>2. [age |-> 0, value |-> v] \in ReadRow(V)
    BY <1>2 DEF ReadRow
  <2>3. new \in Seq(ReadRow(V)) /\ Len(new) = 1 /\ new[1].age = 0
    BY <2>1, <2>2
  <2> HIDE DEF V
  <2>4. /\ r \in Seq(ReadRow(V)) /\ Len(r) = p + 1
        /\ \A i \in 1..(p + 1) : r[i] = IF i <= p THEN s[i] ELSE new[i - p]
    <3>1. s \in Seq(ReadRow(V)) /\ new \in Seq(ReadRow(V)) /\ Len(new) = 1
      BY <1>7, <2>3
    <3>2. /\ s \o new \in Seq(ReadRow(V)) /\ Len(s \o new) = Len(s) + Len(new)
          /\ \A i \in 1..(Len(s) + Len(new)) :
               (s \o new)[i] = IF i <= Len(s) THEN s[i] ELSE new[i - Len(s)]
      BY <3>1, ConcatProperties
    <3> QED BY <3>1, <3>2
  <2> HIDE DEF r
  <2>5. r[p + 1].age = 0
    <3>1. p + 1 \in 1..(p + 1) /\ ~(p + 1 <= p) /\ (p + 1) - p = 1
      BY <1>9
    <3> QED BY <2>3, <2>4, <3>1
  <2>6. Ordered(r)
    <3> SUFFICES ASSUME NEW i \in 1..(p + 1), NEW j \in (i + 1)..(p + 1)
                 PROVE  r[i].age > r[j].age
      BY <2>4 DEF Ordered
    <3>1. i \in 1..p /\ j \in 1..(p + 1) /\ i <= p
      BY <1>9
    <3>2. r[i] = s[i]
      BY <2>4, <3>1
    <3>3. CASE j = p + 1
      BY <1>7, <2>5, <3>1, <3>2, <3>3
    <3>4. CASE j # p + 1
      <4>1. j <= p /\ j \in (i + 1)..p
        BY <1>9, <3>1, <3>4
      <4>2. r[j] = s[j]
        BY <2>4, <3>1, <4>1
      <4> QED BY <1>7, <3>1, <3>2, <4>1, <4>2 DEF Ordered
    <3> QED BY <3>3, <3>4
  <2> QED BY <1>8, <2>4, <2>6 DEF r, V
<1> QED BY <1>10, <1>11

\* Rows and samples of the model are rows and samples of the lemmas on detection.
LEMMA RowsAreRows ==
  ASSUME metric \in Metrics
  PROVE  /\ Seq(ReadRow(Levels[metric])) \subseteq Seq(Row)
         /\ Seq(Sample(Levels[metric])) \subseteq Seq(Row)
         /\ Levels[metric] \subseteq Nat
<1>1. Levels[metric] \subseteq Nat /\ ReadWindow \in Nat /\ Old \in Nat
  BY Constants
<1>2. ReadRow(Levels[metric]) \subseteq Row /\ Sample(Levels[metric]) \subseteq Row
  BY <1>1 DEF ReadRow, Sample, Row
<1> QED BY <1>1, <1>2

\* What a tick adds is the baseline by which it judges.
LEMMA TickAdds ==
  ASSUME Types, Window, NEW new \in NewRows, Rows(new) # <<>>
  PROVE  LET read == Rows(new)
             samples == Add(Aged(values), read)
         IN  /\ read \in Seq(Row) /\ samples \in Seq(Sample(Levels[metric]))
             /\ AreSamples(samples)
             /\ Trails(samples) /\ Begins(samples)
             /\ samples[Len(samples)] = read[Len(read)]
<1> DEFINE read == Rows(new)
           samples == Add(Aged(values), read)
           V == Levels[metric]
<1>1. read \in Seq(ReadRow(V)) /\ read # <<>>
  BY RowsRead
<1>2. Aged(values) \in Seq(Sample(V)) /\ Trails(Aged(values))
  BY AgedWindow DEF Types, Window
<1>3. /\ samples \in Seq(Sample(V)) /\ Len(samples) > 0
      /\ Trails(samples) /\ Begins(samples)
      /\ samples[Len(samples)] = read[Len(read)]
  <2> HIDE DEF read
  <2> QED BY <1>1, <1>2, AddedWindow
<1>4. read \in Seq(Row) /\ samples \in Seq(Row)
  BY <1>1, <1>3, RowsAreRows DEF Types
<1> QED BY <1>3, <1>4 DEF AreSamples, Row

\* The signal of an anomaly is one the correlator accepts, as old as the row it is about.
LEMMA DetectedSignal ==
  ASSUME metric \in Metrics, NEW read \in Seq(ReadRow(Levels[metric])),
         NEW samples, read # <<>> => AreSamples(samples)
  PROVE  LET found == Detect(metric, read, samples) IN
         /\ found \in Signals
         /\ found # NoSignal => found.age <= ReadWindow /\ PastFloor(metric, found.value)
<1> DEFINE found == Detect(metric, read, samples)
<1>1. NoSignal \in Signals
  BY DEF NoSignal, Signals
<1>2. CASE read = <<>>
  <2>1. Range(read) = {}
    BY <1>2 DEF Range
  <2>2. found = NoSignal
    BY <2>1 DEF Detect
  <2> QED BY <1>1, <2>2
<1>3. CASE read # <<>>
  <2>1. read \in Seq(Row) /\ AreSamples(samples)
    BY <1>3, RowsAreRows
  <2>2. CASE found = NoSignal
    BY <1>1, <2>2
  <2>3. CASE found # NoSignal
    <3>1. PICK r \in Range(read) : /\ Anomalous(metric, r.value, Stats(samples))
                                   /\ found = Signal(metric, r, Stats(samples))
      BY <2>1, <2>3, DetectFinds
    <3>2. r \in ReadRow(Levels[metric])
      <4>1. DOMAIN read = 1..Len(read) /\ \A i \in 1..Len(read) : read[i] \in ReadRow(Levels[metric])
        BY LenProperties, ElementOfSeq
      <4> QED BY <4>1 DEF Range
    <3>3. r \in Row /\ r.age \in 0..ReadWindow
      <4>1. ReadRow(Levels[metric]) \subseteq Row
        BY RowsAreRows, Constants DEF ReadRow, Row
      <4> QED BY <3>2, <4>1 DEF ReadRow
    <3>4. found \in Signals /\ found.age = r.age /\ found.value = r.value
      BY <2>1, <3>1, <3>3, RaisedSignal
    <3>5. PastFloor(metric, r.value)
      BY <3>1 DEF Anomalous
    <3>6. found.age <= ReadWindow
      BY <3>3, <3>4
    <3> QED BY <3>4, <3>5, <3>6
  <2> QED BY <2>2, <2>3
<1> QED BY <1>2, <1>3

\* A cycle later the signal is a cycle older.
LEMMA OlderSignalType ==
  ASSUME Types
  PROVE  /\ OlderSignal \in Signals
         /\ OlderSignal # NoSignal =>
              OlderSignal.age <= SignalWindow + misses + 1 /\ PastFloor(metric, OlderSignal.value)
<1> DEFINE b == IF signal.age < Old THEN signal.age + 1 ELSE Old
<1>1. /\ signal \in Signals /\ misses \in Nat /\ SignalWindow \in Nat /\ Old \in Nat
      /\ signal.age \in Nat
      /\ signal = NoSignal \/ (signal.age <= SignalWindow + misses /\ PastFloor(metric, signal.value))
  <2>1. misses \in 0..MaxMisses /\ MaxMisses \in Nat
    BY Constants DEF Types
  <2>2. misses \in Nat
    BY <2>1
  <2>3. /\ signal \in Signals
        /\ signal = NoSignal \/ (signal.age <= SignalWindow + misses /\ PastFloor(metric, signal.value))
    BY DEF Types, SignalType
  <2>4. signal.age \in Nat
    BY <2>3 DEF Signals
  <2> QED BY <2>2, <2>3, <2>4, Constants
<1>2. CASE signal = NoSignal
  BY <1>1, <1>2 DEF OlderSignal
<1>3. CASE signal # NoSignal
  <2>1. OlderSignal = [signal EXCEPT !.age = b]
    BY <1>3 DEF OlderSignal, Older
  <2>2. b \in Nat /\ b <= signal.age + 1
    BY <1>1
  <2> HIDE DEF b
  <2>3. OlderSignal \in Signals /\ OlderSignal.age = b /\ OlderSignal.value = signal.value
    BY <1>1, <2>1, <2>2 DEF Signals
  <2>4. b <= SignalWindow + misses + 1
    BY <1>1, <1>3, <2>2
  <2> QED BY <1>1, <1>3, <2>3, <2>4
<1> QED BY <1>2, <1>3

\* AddSignal drops what is too old, and never drops what is new unless it keeps another.
LEMMA AddedSignal ==
  ASSUME NEW active \in Signals, active # NoSignal => PastFloor(metric, active.value),
         NEW new \in Signals,
         new # NoSignal => new.age <= ReadWindow /\ PastFloor(metric, new.value)
  PROVE  LET r == AddSignal(active, new) IN
         /\ r \in Signals
         /\ r # NoSignal => r.age <= SignalWindow /\ PastFloor(metric, r.value)
         /\ new # NoSignal => r # NoSignal
<1> DEFINE kept == IF active.age > SignalWindow THEN NoSignal ELSE active
           r == AddSignal(active, new)
<1>1. SignalWindow \in Nat /\ ReadWindow \in Nat /\ ReadWindow <= SignalWindow
  BY Constants
<1>2. NoSignal \in Signals
  BY DEF NoSignal, Signals
<1>3. active.age \in Nat /\ new.age \in Nat
  BY DEF Signals
<1>4. kept \in Signals /\ (kept # NoSignal => kept.age <= SignalWindow /\ PastFloor(metric, kept.value))
  BY <1>1, <1>2, <1>3
<1>5. r = IF new # NoSignal /\ (kept = NoSignal \/ AtLeastAsExtreme(new, kept)) THEN new ELSE kept
  BY DEF AddSignal
<1> HIDE DEF kept, r
<1>6. new # NoSignal => new.age <= SignalWindow
  BY <1>1, <1>3
<1>7. r \in {new, kept} /\ (new # NoSignal => r # NoSignal)
  BY <1>5
<1> QED BY <1>4, <1>6, <1>7 DEF r

\* An anomalous row that was read is signalled.
LEMMA AnomalyIsSignalled ==
  ASSUME Types, Window, NEW new \in NewRows, Rows(new) # <<>>,
         NEW i \in 1..Len(Rows(new)),
         Anomalous(metric, Rows(new)[i].value, Stats(Add(Aged(values), Rows(new))))
  PROVE  AddSignal(OlderSignal, Detect(metric, Rows(new), Add(Aged(values), Rows(new)))) # NoSignal
<1> DEFINE read == Rows(new)
           samples == Add(Aged(values), read)
           found == Detect(metric, read, samples)
<1>1. read \in Seq(Row) /\ AreSamples(samples) /\ read \in Seq(ReadRow(Levels[metric]))
  BY TickAdds, RowsRead
<1>2. read[i] \in Range(read)
  BY <1>1, LenProperties DEF Range
<1>3. Anomalous(metric, read[i].value, Stats(samples))
  OBVIOUS
<1> HIDE DEF read, samples
<1>4. found # NoSignal
  BY <1>1, <1>2, <1>3, DetectFinds
<1>5. metric \in Metrics
  BY DEF Types
<1>6. found \in Signals /\ (found # NoSignal => found.age <= ReadWindow /\ PastFloor(metric, found.value))
  BY <1>1, <1>5, DetectedSignal
<1>7. OlderSignal \in Signals /\ (OlderSignal # NoSignal => PastFloor(metric, OlderSignal.value))
  BY OlderSignalType
<1> HIDE DEF found
<1>8. AddSignal(OlderSignal, found) # NoSignal
  BY <1>4, <1>6, <1>7, AddedSignal
<1> QED BY <1>8 DEF found, samples, read

\* The newest of more than MinSamples samples is bad and differs from all others, which agree.
Fresh(m, samples) ==
  LET n == Len(samples)
      a == samples[1].value
      b == samples[n].value
  IN  /\ m # "dlq_depth" /\ n > MinSamples /\ PastFloor(m, b)
      /\ \A i, j \in 1..(n - 1) : samples[i].value = samples[j].value
      /\ m = "throughput" => b < a
      /\ m # "throughput" => b > a

\* Then it is an anomaly ...
LEMMA FreshIsAnomalous ==
  ASSUME NEW m, NEW samples, AreSamples(samples), Fresh(m, samples)
  PROVE  Anomalous(m, samples[Len(samples)].value, Stats(samples))
<1> DEFINE stats == Stats(samples)
           n == Len(samples)
           a == samples[1].value
           b == samples[n].value
           k == Sigmas(m)
           kk == k * k
           d == Distance(b, stats)
<1> USE DEF Fresh
<1>1. /\ n \in Nat /\ n > 10 /\ n >= MinSamples
      /\ \A i \in 1..n : samples[i].value \in Nat
  <2>1. n \in Nat /\ MinSamples \in Nat /\ MinSamples >= 10
    BY Moments, Constants
  <2>2. \A i \in 1..n : samples[i].value \in Nat
    BY Moments
  <2> QED BY <2>1, <2>2
<1>2. a \in Nat /\ b \in Nat /\ \A i \in 1..(n - 1) : samples[i].value = a
  <2>1. 1 \in 1..(n - 1) /\ 1 \in 1..n /\ n \in 1..n
    BY <1>1
  <2> QED BY <1>1, <2>1
<1>3. kk \in Nat /\ kk <= 9 /\ a # b /\ (m # "throughput" => a < b)
  BY <1>2, SigmasSquared
<1> HIDE DEF kk
<1>4. /\ d * d > kk * stats.spread
      /\ a < b => d > 0
      /\ b < a => d < 0
  <2>1. Len(samples) > 10 /\ samples[Len(samples)].value = b
        /\ \A i \in 1..(Len(samples) - 1) : samples[i].value = a
    BY <1>1, <1>2
  <2> QED BY <1>2, <1>3, <2>1, LastIsFar
<1>5. Beyond(k, b, stats)
  BY <1>4 DEF Beyond, kk
<1>6. Valid(stats)
  <2>1. stats.n = n
    BY Moments
  <2> QED BY <1>1, <2>1 DEF Valid
<1>7. m = "throughput" => b < a
  OBVIOUS
<1>8. PastFloor(m, b)
  OBVIOUS
<1>9. CASE m = "throughput"
  <2>1. Below(k, b, stats)
    BY <1>4, <1>5, <1>9, <1>7 DEF Below
  <2> QED BY <1>6, <1>9, <1>8, <2>1 DEF Anomalous
<1>10. CASE m # "throughput"
  <2>1. Above(k, b, stats)
    BY <1>3, <1>4, <1>5, <1>10 DEF Above
  <2> QED BY <1>6, <1>10, <1>8, <2>1 DEF Anomalous
<1> QED BY <1>9, <1>10

\* ... and if a tick has just added it, it is signalled.
LEMMA FreshIsSignalled ==
  ASSUME Types, Window, NEW new \in NewRows,
         NEW samples, samples = Add(Aged(values), Rows(new)),
         Fresh(metric, samples), samples[Len(samples)].age = 0
  PROVE  AddSignal(OlderSignal, Detect(metric, Rows(new), samples)) # NoSignal
<1> DEFINE n == Len(samples)
           read == Rows(new)
           m == Len(read)
           stats == Stats(samples)
           b == samples[n].value
<1>1. read # <<>>
  <2> SUFFICES ASSUME read = <<>> PROVE FALSE
    OBVIOUS
  <2>1. samples = Aged(values)
    BY DEF Add
  <2>2. values \in Seq(Sample(Levels[metric])) /\ Trails(values) /\ Begins(values)
    BY DEF Types, Window
  <2>3. n = Len(values) /\ \A i \in 1..n : samples[i].age > 0
    BY <2>1, <2>2, AgedWindow
  <2>4. n \in Nat /\ MinSamples \in Nat /\ n > MinSamples
    BY <2>2, <2>3, LenProperties, Constants DEF Fresh
  <2>5. n \in 1..n
    BY <2>4
  <2>6. samples[n].age > 0 /\ samples[n].age = 0
    BY <2>3, <2>5
  <2> QED BY <2>6
<1>2. /\ read \in Seq(Row) /\ AreSamples(samples) /\ samples[n] = read[m]
  BY <1>1, TickAdds
<1>3. m \in 1..m
  <2>1. m \in Nat /\ m # 0
    BY <1>1, <1>2, EmptySeq, LenProperties
  <2> QED BY <2>1
<1>4. Anomalous(metric, b, stats)
  BY <1>2, FreshIsAnomalous
<1>5. Anomalous(metric, Rows(new)[m].value, Stats(Add(Aged(values), Rows(new))))
  BY <1>2, <1>4
<1>6. m \in 1..Len(Rows(new))
  BY <1>3
<1> QED BY <1>1, <1>5, <1>6, AnomalyIsSignalled

-----------------------------------------------------------------------------
(* The steps.                                                              *)

LEMMA InitStep == Init => IInv
<1> SUFFICES ASSUME Init PROVE IInv
  OBVIOUS
<1> USE DEF Init
<1>1. Len(<<>>) = 0 /\ 1..0 = {}
  OBVIOUS
<1>2. Types
  <2>1. Ordered(rows)
    BY <1>1 DEF Ordered
  <2>2. rows \in Seq(ReadRow(Levels[metric])) /\ values \in Seq(Sample(Levels[metric]))
    BY EmptySeq
  <2>3. SignalType
    BY DEF SignalType, Signals, NoSignal
  <2>4. misses \in 0..MaxMisses
    BY Constants
  <2> QED BY <2>1, <2>2, <2>3, <2>4 DEF Types
<1>3. Window
  BY <1>1 DEF Window, Trails, Begins
<1>4. FreshFaultIsSeen
  <2>1. MinSamples >= 10 /\ MinSamples \in Nat /\ Len(values) = 0
    BY <1>1, Constants
  <2>2. ~(Len(values) > MinSamples)
    BY <2>1
  <2> QED BY <2>2 DEF FreshFaultIsSeen
<1> QED BY <1>2, <1>3, <1>4 DEF IInv

\* The signal after a tick, from what it detected.
LEMMA TickSignal ==
  ASSUME Types, Window, NEW new \in NewRows
  PROVE  LET r == AddSignal(OlderSignal, Detect(metric, Rows(new), Add(Aged(values), Rows(new))))
         IN  /\ r \in Signals
             /\ r # NoSignal => r.age <= SignalWindow /\ PastFloor(metric, r.value)
<1> DEFINE read == Rows(new)
           samples == Add(Aged(values), read)
           found == Detect(metric, read, samples)
<1>1. metric \in Metrics /\ read \in Seq(ReadRow(Levels[metric]))
  BY RowsRead DEF Types
<1>2. read # <<>> => AreSamples(samples)
  BY TickAdds
<1> HIDE DEF read, samples
<1>3. found \in Signals /\ (found # NoSignal => found.age <= ReadWindow /\ PastFloor(metric, found.value))
  BY <1>1, <1>2, DetectedSignal
<1>4. OlderSignal \in Signals /\ (OlderSignal # NoSignal => PastFloor(metric, OlderSignal.value))
  BY OlderSignalType
<1> HIDE DEF found
<1> DEFINE r == AddSignal(OlderSignal, found)
<1>5. r \in Signals /\ (r # NoSignal => r.age <= SignalWindow /\ PastFloor(metric, r.value))
  BY <1>3, <1>4, AddedSignal
<1> QED BY <1>5 DEF found, samples, read

LEMMA TickStep ==
  ASSUME IInv, NEW new \in NewRows, Tick(new)
  PROVE  IInv'
<1> DEFINE samples == Add(Aged(values), Rows(new))
           s == AddSignal(OlderSignal, Detect(metric, Rows(new), samples))
<1>1. /\ rows' = Rows(new) /\ values' = samples /\ signal' = s
      /\ metric' = metric /\ misses' = misses
  BY DEF Tick
<1>2. Types /\ Window
  BY DEF IInv
<1>3. /\ metric \in Metrics /\ misses \in 0..MaxMisses
      /\ Rows(new) \in Seq(ReadRow(Levels[metric])) /\ Ordered(Rows(new))
  BY <1>2, RowsRead DEF Types
<1>4. samples \in Seq(Sample(Levels[metric])) /\ Trails(samples) /\ Begins(samples)
  <2>1. CASE Rows(new) = <<>>
    <3>1. samples = Aged(values)
      BY <2>1 DEF Add
    <3> QED BY <1>2, <3>1, AgedWindow DEF Types, Window
  <2>2. CASE Rows(new) # <<>>
    BY <1>2, <2>2, TickAdds
  <2> QED BY <2>1, <2>2
<1>5. s \in Signals /\ (s # NoSignal => s.age <= SignalWindow /\ PastFloor(metric, s.value))
  BY <1>2, TickSignal
<1>6. Fresh(metric, samples) /\ samples[Len(samples)].age = 0 => s # NoSignal
  BY <1>2, FreshIsSignalled
<1> HIDE DEF samples, s
<1>7. Types'
  <2>1. SignalType'
    <3>1. s # NoSignal => s.age <= SignalWindow + misses
      <4>1. s.age \in Nat /\ SignalWindow \in Nat /\ misses \in Nat
        BY <1>3, <1>5, Constants DEF Signals
      <4> QED BY <1>5, <4>1
    <3> QED BY <1>1, <1>5, <3>1 DEF SignalType
  <2> QED BY <1>1, <1>3, <1>4, <2>1 DEF Types
<1>8. Window'
  BY <1>1, <1>4 DEF Window
<1>9. FreshFaultIsSeen'
  BY <1>1, <1>6 DEF FreshFaultIsSeen, Fresh
<1> QED BY <1>7, <1>8, <1>9 DEF IInv

LEMMA MissStep ==
  ASSUME IInv, NEW new \in NewRows, Miss(new)
  PROVE  IInv'
<1> DEFINE samples == Aged(values)
<1>1. /\ rows' = Rows(new) /\ values' = samples /\ signal' = OlderSignal
      /\ metric' = metric /\ misses' = misses + 1 /\ misses < MaxMisses
  BY DEF Miss
<1>2. Types /\ Window
  BY DEF IInv
<1>3. /\ metric \in Metrics /\ misses \in 0..MaxMisses
      /\ Rows(new) \in Seq(ReadRow(Levels[metric])) /\ Ordered(Rows(new))
  BY <1>2, RowsRead DEF Types
<1>4. /\ samples \in Seq(Sample(Levels[metric])) /\ Trails(samples) /\ Begins(samples)
      /\ \A i \in 1..Len(samples) : samples[i].age > 0
  BY <1>2, AgedWindow DEF Types, Window
<1>5. /\ OlderSignal \in Signals
      /\ OlderSignal # NoSignal =>
           OlderSignal.age <= SignalWindow + misses + 1 /\ PastFloor(metric, OlderSignal.value)
  BY <1>2, OlderSignalType
<1>6. ~(Len(samples) > MinSamples /\ samples[Len(samples)].age = 0)
  <2> SUFFICES ASSUME Len(samples) > MinSamples, samples[Len(samples)].age = 0 PROVE FALSE
    OBVIOUS
  <2> HIDE DEF samples
  <2>1. Len(samples) \in Nat /\ MinSamples \in Nat
    BY <1>4, LenProperties, Constants
  <2>2. Len(samples) \in 1..Len(samples)
    BY <2>1
  <2>3. samples[Len(samples)].age > 0 /\ samples[Len(samples)].age = 0
    BY <1>4, <2>2
  <2> QED BY <2>3
<1> HIDE DEF samples
<1>7. Types'
  <2>1. misses + 1 \in 0..MaxMisses /\ MaxMisses \in Nat
    BY <1>1, <1>3, Constants
  <2>2. SignalType'
    <3>1. OlderSignal # NoSignal => OlderSignal.age <= SignalWindow + (misses + 1)
      <4>1. OlderSignal.age \in Nat /\ SignalWindow \in Nat /\ misses \in Nat
        BY <1>3, <1>5, Constants DEF Signals
      <4> QED BY <1>5, <4>1
    <3> QED BY <1>1, <1>5, <3>1 DEF SignalType
  <2> QED BY <1>1, <1>3, <1>4, <2>1, <2>2 DEF Types
<1>8. Window'
  BY <1>1, <1>4 DEF Window
<1>9. FreshFaultIsSeen'
  BY <1>1, <1>6 DEF FreshFaultIsSeen
<1> QED BY <1>7, <1>8, <1>9 DEF IInv

LEMMA RestartStep ==
  ASSUME IInv, MonitorRestart
  PROVE  IInv'
<1>1. /\ rows' = rows /\ values' = <<>> /\ signal' = NoSignal
      /\ metric' = metric /\ misses' = misses
  BY DEF MonitorRestart
<1>2. Len(<<>>) = 0 /\ 1..0 = {}
  OBVIOUS
<1>3. Types'
  <2>1. SignalType'
    BY <1>1 DEF SignalType, Signals, NoSignal
  <2>2. <<>> \in Seq(Sample(Levels[metric]))
    BY EmptySeq
  <2> QED BY <1>1, <2>1, <2>2 DEF IInv, Types
<1>4. Window'
  BY <1>1, <1>2 DEF Window, Trails, Begins
<1>5. FreshFaultIsSeen'
  <2>1. MinSamples >= 10 /\ MinSamples \in Nat
    BY Constants
  <2>2. ~(0 > MinSamples)
    BY <2>1
  <2> QED BY <1>1, <1>2, <2>2 DEF FreshFaultIsSeen
<1> QED BY <1>3, <1>4, <1>5 DEF IInv

LEMMA StutterStep ==
  ASSUME IInv, UNCHANGED vars
  PROVE  IInv'
<1>1. metric' = metric /\ rows' = rows /\ values' = values /\ signal' = signal /\ misses' = misses
  BY DEF vars
<1> QED BY <1>1 DEF IInv, Types, SignalType, Window, FreshFaultIsSeen

\* The invariant is inductive ...
LEMMA InvariantStep == IInv /\ [Next]_vars => IInv'
<1> SUFFICES ASSUME IInv, [Next]_vars PROVE IInv'
  OBVIOUS
<1>1. ASSUME NEW new \in NewRows, Tick(new) PROVE IInv'
  BY <1>1, TickStep
<1>2. ASSUME NEW new \in NewRows, Miss(new) PROVE IInv'
  BY <1>2, MissStep
<1>3. CASE MonitorRestart
  BY <1>3, RestartStep
<1>4. CASE UNCHANGED vars
  BY <1>4, StutterStep
<1> QED BY <1>1, <1>2, <1>3, <1>4 DEF Next

\* ... and holds of every reachable state.
LEMMA Invariant == Spec => []IInv
<1> QED BY InitStep, InvariantStep, PTL DEF Spec

-----------------------------------------------------------------------------
(* What follows.                                                           *)

LEMMA TypesImplyTypeOK == IInv => TypeOK
<1> SUFFICES ASSUME IInv PROVE TypeOK
  OBVIOUS
<1>1. Types /\ SignalType
  BY DEF IInv, Types
<1>2. /\ metric \in Metrics
      /\ rows \in Seq([age : 0..ReadWindow, value : Levels[metric]])
      /\ values \in Seq(Samples)
  BY <1>1 DEF Types, ReadRow, Sample, Samples
<1>3. \A i \in 1..(Len(rows) - 1) : rows[i].age > rows[i + 1].age
  <2> TAKE i \in 1..(Len(rows) - 1)
  <2>1. Len(rows) \in Nat
    BY <1>2, LenProperties
  <2>2. i \in 1..Len(rows) /\ i + 1 \in (i + 1)..Len(rows)
    BY <2>1
  <2> QED BY <1>1, <2>2 DEF Types, Ordered
<1>4. signal = NoSignal \/ (signal.age <= SignalWindow + MaxMisses /\ PastFloor(metric, signal.value))
  <2>1. CASE signal = NoSignal
    BY <2>1
  <2>2. CASE signal # NoSignal
    <3>1. signal.age <= SignalWindow + misses /\ PastFloor(metric, signal.value) /\ signal.age \in Nat
      BY <1>1, <2>2 DEF SignalType, Signals
    <3>2. misses \in 0..MaxMisses /\ SignalWindow \in Nat /\ MaxMisses \in Nat
      BY <1>1, Constants DEF Types
    <3>3. signal.age <= SignalWindow + MaxMisses
      BY <3>1, <3>2
    <3> QED BY <3>1, <3>3
  <2> QED BY <2>1, <2>2
<1> QED BY <1>2, <1>3, <1>4 DEF TypeOK

LEMMA WindowImpliesBounded == IInv => WindowBounded
<1> SUFFICES ASSUME IInv PROVE WindowBounded
  OBVIOUS
<1> DEFINE n == Len(values)
<1>1. /\ values \in Seq(Sample(Levels[metric])) /\ Trails(values) /\ Begins(values)
      /\ DOMAIN values = 1..n /\ n \in Nat
      /\ \A i \in 1..n : values[i].age \in 0..Old
  <2>1. values \in Seq(Sample(Levels[metric])) /\ Trails(values) /\ Begins(values)
    BY DEF IInv, Types, Window
  <2>2. \A i \in 1..n : values[i] \in Sample(Levels[metric])
    BY <2>1, ElementOfSeq
  <2> QED BY <2>1, <2>2, LenProperties DEF Sample
<1> SUFFICES ASSUME NEW i \in 1..n
             PROVE  /\ values[i].age <= values[n].age + BaselineWindow + ReadWindow
                    /\ i = 1 => values[1].age <= values[n].age + BaselineWindow
  BY <1>1 DEF WindowBounded
<1>2. 1 \in 1..n /\ n \in 1..n /\ i \in 1..n /\ values # <<>>
  BY <1>1, EmptySeq
<1> DEFINE x == values[1].age
           y == values[i].age
           z == values[n].age
<1>3. y <= x + ReadWindow
  BY <1>1, <1>2 DEF Trails
<1>4. x <= z + BaselineWindow
  BY <1>1, <1>2 DEF Begins
<1>5. x \in Nat /\ y \in Nat /\ z \in Nat /\ ReadWindow \in Nat /\ BaselineWindow \in Nat
  <2>1. 0..Old \subseteq Nat
    OBVIOUS
  <2> QED BY <1>1, <1>2, <2>1, Constants
<1> HIDE DEF x, y, z
<1>6. y <= z + BaselineWindow + ReadWindow
  BY <1>3, <1>4, <1>5
<1> QED BY <1>4, <1>6 DEF x, y, z

LEMMA AnomaliesAreFew == IInv => AnomaliesAreRare
<1> SUFFICES ASSUME IInv, metric # "dlq_depth", Found # NoSignal
             PROVE  Cardinality(AsExtreme(Found.value)) * (Sigmas(metric) * Sigmas(metric) + 1) < Len(values)
  BY DEF AnomaliesAreRare
<1>1. /\ metric \in Metrics
      /\ rows \in Seq(ReadRow(Levels[metric])) /\ values \in Seq(Sample(Levels[metric]))
  BY DEF IInv, Types
<1>2. rows \in Seq(Row) /\ values \in Seq(Row)
  BY <1>1, RowsAreRows
<1>3. Judged /\ Found = Detect(metric, rows, values)
  BY DEF Found
<1>4. AreSamples(values)
  <2>1. Len(values) \in Nat /\ Len(values) # 0
    BY <1>2, <1>3, EmptySeq, LenProperties DEF Judged
  <2> QED BY <1>2, <2>1 DEF AreSamples, Row
<1>5. PICK r \in Range(rows) : /\ Anomalous(metric, r.value, Stats(values))
                               /\ Found = Signal(metric, r, Stats(values))
  BY <1>2, <1>3, <1>4, DetectFinds
<1>6. r \in Row
  <2>1. DOMAIN rows = 1..Len(rows) /\ \A i \in 1..Len(rows) : rows[i] \in Row
    BY <1>2, LenProperties, ElementOfSeq
  <2> QED BY <2>1 DEF Range
<1>7. Found.value = r.value /\ r.value \in Nat
  BY <1>4, <1>5, <1>6, RaisedSignal DEF Row
<1>8. AsExtreme(Found.value) =
        {i \in DOMAIN values : IF metric = "throughput" THEN values[i].value <= r.value
                                                        ELSE values[i].value >= r.value}
  BY <1>7 DEF AsExtreme
<1> QED BY <1>4, <1>5, <1>7, <1>8, AnomalousAreFew

\* A row of a dead-letter queue that is read and not empty is signalled.
LEMMA DeadLetterStep ==
  IInv /\ [Next]_vars =>
    [metric = "dlq_depth" /\ (\E new \in NewRows : Tick(new)) =>
       ((\E i \in DOMAIN rows' : rows'[i].value > 0) => signal' # NoSignal)]_vars
<1> SUFFICES ASSUME IInv, metric = "dlq_depth", NEW new \in NewRows, Tick(new),
                    NEW i \in DOMAIN rows', rows'[i].value > 0
             PROVE  signal' # NoSignal
  OBVIOUS
<1> DEFINE read == Rows(new)
           samples == Add(Aged(values), read)
<1>1. Types /\ Window
  BY DEF IInv
<1>2. rows' = read /\ signal' = AddSignal(OlderSignal, Detect(metric, read, samples))
  BY DEF Tick
<1>3. read \in Seq(ReadRow(Levels[metric]))
  BY <1>1, RowsRead
<1>4. i \in 1..Len(read) /\ read # <<>>
  BY <1>2, <1>3, LenProperties, EmptySeq
<1>5. Anomalous(metric, read[i].value, Stats(samples))
  <2> HIDE DEF read, samples
  <2>1. read[i].value > 0
    BY <1>2
  <2> QED BY <2>1 DEF Anomalous, PastFloor
<1> QED BY <1>1, <1>2, <1>4, <1>5, AnomalyIsSignalled

-----------------------------------------------------------------------------
(* The theorems.                                                           *)

\* Every state of the baselines has its type (anomaly.go, correlator.go).
THEOREM TypesHold == Spec => []TypeOK
<1> QED BY Invariant, TypesImplyTypeOK, PTL

\* The baseline is bounded in time, whatever rows are missing and cycles skipped.
THEOREM WindowIsBounded == Spec => []WindowBounded
<1> QED BY Invariant, WindowImpliesBounded, PTL

\* An anomaly is rare in the window it is judged by, for every sequence of samples: this
\* is Cantelli's inequality for stats and the thresholds of the Detect functions.
THEOREM AnomaliesStayRare == Spec => []AnomaliesAreRare
<1> QED BY Invariant, AnomaliesAreFew, PTL

\* The first bad row after a steady time is signalled in the cycle that reads it.
THEOREM FreshFaultsAreSeen == Spec => []FreshFaultIsSeen
<1>1. IInv => FreshFaultIsSeen
  BY DEF IInv
<1> QED BY <1>1, Invariant, PTL

\* A dead-letter queue that was read and not empty always has a signal.
THEOREM DeadLettersAlwaysSignalled == Spec => DeadLettersAreSignalled
<1> QED BY Invariant, DeadLetterStep, PTL DEF Spec, DeadLettersAreSignalled
=============================================================================
