---------------------------- MODULE SumTheorems ----------------------------
(***************************************************************************)
(* Induction over the naturals and over finite sets, with the set of the   *)
(* values for which a fact holds in the place of a predicate, and what     *)
(* follows from it for SumFunctionOnSet of the community modules, which    *)
(* adds up counters over goroutines.                                       *)
(***************************************************************************)
EXTENDS Integers, FiniteSets, Functions, FiniteSetTheorems, WellFoundedInduction, TLAPS

-----------------------------------------------------------------------------
\* A set of naturals with 0 and the successor of each member has them all.
LEMMA NatInductionOnSet ==
  ASSUME NEW A, 0 \in A, \A n \in Nat : n \in A => n + 1 \in A
  PROVE  Nat \subseteq A
<1> DEFINE B == {n \in Nat : n \notin A}
<1> SUFFICES ASSUME B # {} PROVE FALSE
  OBVIOUS
<1>1. IsWellFoundedOn(OpToRel(<, Nat), Nat)
  BY NatLessThanWellFounded
<1>2. PICK x \in B : \A y \in B : <<y, x>> \notin OpToRel(<, Nat)
  BY <1>1, WFMin
<1>3. \A y \in B : ~(y < x)
  BY <1>2 DEF OpToRel
<1>4. x # 0 /\ x \in Nat
  OBVIOUS
<1>5. x - 1 \in Nat /\ x - 1 < x /\ (x - 1) + 1 = x
  BY <1>4
<1>6. x - 1 \in A
  BY <1>3, <1>5
<1>7. QED
  BY <1>5, <1>6

\* A collection that has a subset of a finite set as soon as it has all that lack one of
\* its elements has all the subsets.
LEMMA SubsetInductionOnSet ==
  ASSUME NEW S, IsFiniteSet(S), NEW A,
         \A T \in SUBSET S : (\A x \in T : T \ {x} \in A) => T \in A
  PROVE  SUBSET S \subseteq A
<1> DEFINE C == {n \in Nat : \A T \in SUBSET S : Cardinality(T) = n => T \in A}
<1>1. \A T \in SUBSET S : IsFiniteSet(T) /\ Cardinality(T) \in Nat
  BY FS_Subset, FS_CardinalityType
<1>2. 0 \in C
  <2>1. \A T \in SUBSET S : Cardinality(T) = 0 => T = {}
    BY <1>1, FS_EmptySet
  <2>2. QED
    BY <2>1
<1>3. ASSUME NEW n \in Nat, n \in C PROVE n + 1 \in C
  <2> SUFFICES ASSUME NEW T \in SUBSET S, Cardinality(T) = n + 1 PROVE T \in A
    OBVIOUS
  <2>1. ASSUME NEW x \in T PROVE T \ {x} \in A
    <3>1. IsFiniteSet(T)
      BY <1>1
    <3>2. Cardinality(T \ {x}) = (n + 1) - 1
      BY <3>1, FS_RemoveElement
    <3>3. (n + 1) - 1 = n
      OBVIOUS
    <3>4. QED
      BY <1>3, <3>2, <3>3
  <2>2. QED
    BY <2>1
<1>4. Nat \subseteq C
  <2> HIDE DEF C
  <2>1. QED
    BY <1>2, <1>3, NatInductionOnSet
<1>5. QED
  BY <1>1, <1>4

-----------------------------------------------------------------------------
\* How many elements of a finite set satisfy a condition, T before and U after a step that
\* concerns one of them only.
LEMMA CountStep ==
  ASSUME NEW S, IsFiniteSet(S), NEW T \in SUBSET S, NEW U \in SUBSET S,
         NEW a \in S, \A x \in S \ {a} : x \in U <=> x \in T
  PROVE  /\ Cardinality(T) \in Nat /\ Cardinality(U) \in Nat
         /\ Cardinality(U) = Cardinality(T) + (IF a \in U THEN 1 ELSE 0)
                                            - (IF a \in T THEN 1 ELSE 0)
<1>1. IsFiniteSet(T)
  BY FS_Subset
<1>2. /\ Cardinality(T) \in Nat
      /\ Cardinality(T \cup {a}) = IF a \in T THEN Cardinality(T) ELSE Cardinality(T) + 1
      /\ Cardinality(T \ {a}) = IF a \in T THEN Cardinality(T) - 1 ELSE Cardinality(T)
  BY <1>1, FS_CardinalityType, FS_AddElement, FS_RemoveElement
<1>3. IsFiniteSet(U) /\ Cardinality(U) \in Nat
  BY FS_Subset, FS_CardinalityType
<1>4. CASE a \in U
  <2>1. U = T \cup {a}
    BY <1>4
  <2>2. QED
    BY <1>2, <1>3, <1>4, <2>1
<1>5. CASE a \notin U
  <2>1. U = T \ {a}
    BY <1>5
  <2>2. QED
    BY <1>2, <1>3, <1>5, <2>1
<1>6. QED
  BY <1>4, <1>5

-----------------------------------------------------------------------------
\* The recursion of SumFunctionOnSet over the subsets of S.
Pick(T) == CHOOSE x \in T : TRUE

IsIter(it, f, S) ==
  it = [T \in SUBSET S |-> IF T = {} THEN 0 ELSE f[Pick(T)] + it[T \ {Pick(T)}]]

Iter(f, S) == CHOOSE it : IsIter(it, f, S)

LEMMA SumIsIter ==
  ASSUME NEW f, NEW S
  PROVE  SumFunctionOnSet(f, S) = Iter(f, S)[S]
BY DEF SumFunctionOnSet, FoldFunctionOnSet, MapThenFoldSet, Iter, IsIter, Pick

LEMMA PickFacts ==
  ASSUME NEW T, T # {}
  PROVE  Pick(T) \in T
BY DEF Pick

\* The function that the recursion defines exists ...
LEMMA IterExists ==
  ASSUME NEW f, NEW S, IsFiniteSet(S)
  PROVE  \E it : IsIter(it, f, S)
<1> DEFINE Upto(n) == {T \in SUBSET S : Cardinality(T) <= n}
           Good(it, n) == \A T \in Upto(n) :
                            it[T] = IF T = {} THEN 0 ELSE f[Pick(T)] + it[T \ {Pick(T)}]
           A == {n \in Nat : \E it : Good(it, n)}
<1>1. \A T \in SUBSET S : IsFiniteSet(T) /\ Cardinality(T) \in Nat
  BY FS_Subset, FS_CardinalityType
<1>2. 0 \in A
  <2> DEFINE it == [T \in SUBSET S |-> 0]
  <2>1. \A T \in Upto(0) : T = {}
    BY <1>1, FS_EmptySet
  <2>2. Good(it, 0)
    BY <2>1
  <2>3. QED
    BY <2>2
<1>3. ASSUME NEW n \in Nat, n \in A PROVE n + 1 \in A
  <2>1. PICK it : Good(it, n)
    BY <1>3
  <2> DEFINE it2 == [T \in SUBSET S |-> IF Cardinality(T) <= n THEN it[T]
                                        ELSE f[Pick(T)] + it[T \ {Pick(T)}]]
  <2>2. ASSUME NEW T \in SUBSET S, Cardinality(T) <= n + 1
        PROVE  it2[T] = IF T = {} THEN 0 ELSE f[Pick(T)] + it2[T \ {Pick(T)}]
    <3>1. IsFiniteSet(T) /\ Cardinality(T) \in Nat
      BY <1>1
    <3>2. CASE T = {}
      <4>1. Cardinality(T) <= n
        BY <3>2, FS_EmptySet
      <4>2. QED
        BY <2>1, <3>2, <4>1
    <3>3. CASE T # {}
      <4>1. Pick(T) \in T
        BY <3>3, PickFacts
      <4>2. T \ {Pick(T)} \in SUBSET S /\ Cardinality(T \ {Pick(T)}) = Cardinality(T) - 1
        BY <3>1, <4>1, FS_RemoveElement
      <4>3. Cardinality(T \ {Pick(T)}) <= n
        BY <2>2, <3>1, <4>2
      <4>4. it2[T \ {Pick(T)}] = it[T \ {Pick(T)}]
        BY <4>2, <4>3
      <4>5. CASE Cardinality(T) <= n
        <5>1. it[T] = f[Pick(T)] + it[T \ {Pick(T)}]
          BY <2>1, <3>3, <4>5
        <5>2. it2[T] = it[T]
          BY <4>5
        <5>3. QED
          BY <3>3, <4>4, <5>1, <5>2
      <4>6. CASE ~(Cardinality(T) <= n)
        <5>1. it2[T] = f[Pick(T)] + it[T \ {Pick(T)}]
          BY <4>6
        <5>2. QED
          BY <3>3, <4>4, <5>1
      <4>7. QED
        BY <4>5, <4>6
    <3>4. QED
      BY <3>2, <3>3
  <2> HIDE DEF it2
  <2>3. Good(it2, n + 1)
    BY <2>2
  <2>4. QED
    BY <2>3
<1>4. Nat \subseteq A
  <2> HIDE DEF A
  <2>1. QED
    BY <1>2, <1>3, NatInductionOnSet
<1>5. PICK it : Good(it, Cardinality(S))
  BY <1>1, <1>4
<1>6. \A T \in SUBSET S : T \in Upto(Cardinality(S))
  BY FS_Subset
<1> DEFINE h == [T \in SUBSET S |-> it[T]]
<1>7. \A T \in SUBSET S : T \ {Pick(T)} \in SUBSET S
  OBVIOUS
<1>8. h = [T \in SUBSET S |-> IF T = {} THEN 0 ELSE f[Pick(T)] + h[T \ {Pick(T)}]]
  BY <1>5, <1>6, <1>7
<1>9. QED
  BY <1>8 DEF IsIter

\* ... so that SumFunctionOnSet follows it, whatever larger set it is computed over.
LEMMA IterEquation ==
  ASSUME NEW f, NEW S, IsFiniteSet(S), NEW T \in SUBSET S
  PROVE  Iter(f, S)[T] = IF T = {} THEN 0 ELSE f[Pick(T)] + Iter(f, S)[T \ {Pick(T)}]
<1>1. IsIter(Iter(f, S), f, S)
  BY IterExists DEF Iter
<1>2. QED
  BY <1>1 DEF IsIter

LEMMA IterIsSum ==
  ASSUME NEW f, NEW S, IsFiniteSet(S), NEW R \in SUBSET S
  PROVE  Iter(f, S)[R] = SumFunctionOnSet(f, R)
<1> DEFINE A == {T \in SUBSET R : Iter(f, S)[T] = Iter(f, R)[T]}
<1>1. IsFiniteSet(R)
  BY FS_Subset
<1>2. ASSUME NEW T \in SUBSET R, \A x \in T : T \ {x} \in A
      PROVE  T \in A
  <2>1. Iter(f, S)[T] = IF T = {} THEN 0 ELSE f[Pick(T)] + Iter(f, S)[T \ {Pick(T)}]
    BY IterEquation
  <2>2. CASE T = {}
    <3>1. Iter(f, R)[T] = 0
      BY <1>1, <2>2, IterEquation
    <3>2. QED
      BY <2>1, <2>2, <3>1
  <2>3. CASE T # {}
    <3>1. Iter(f, S)[T \ {Pick(T)}] = Iter(f, R)[T \ {Pick(T)}]
      BY <1>2, <2>3, PickFacts
    <3>2. Iter(f, R)[T] = f[Pick(T)] + Iter(f, R)[T \ {Pick(T)}]
      BY <1>1, <2>3, IterEquation
    <3>3. QED
      BY <2>1, <2>3, <3>1, <3>2
  <2>4. QED
    BY <2>2, <2>3
<1>3. SUBSET R \subseteq A
  <2> HIDE DEF A
  <2>1. QED
    BY <1>1, <1>2, SubsetInductionOnSet
<1>4. QED
  BY <1>3, SumIsIter

-----------------------------------------------------------------------------
\* The sum over nothing, and the sum that one element begins.
LEMMA SumEmpty ==
  ASSUME NEW f
  PROVE  SumFunctionOnSet(f, {}) = 0
BY IterEquation, SumIsIter, FS_EmptySet

LEMMA SumPick ==
  ASSUME NEW f, NEW S, IsFiniteSet(S), S # {}
  PROVE  SumFunctionOnSet(f, S) = f[Pick(S)] + SumFunctionOnSet(f, S \ {Pick(S)})
<1>1. Iter(f, S)[S] = f[Pick(S)] + Iter(f, S)[S \ {Pick(S)}]
  BY IterEquation
<1>2. /\ Iter(f, S)[S] = SumFunctionOnSet(f, S)
      /\ Iter(f, S)[S \ {Pick(S)}] = SumFunctionOnSet(f, S \ {Pick(S)})
  BY IterIsSum
<1>3. QED
  BY <1>1, <1>2

LEMMA SumType ==
  ASSUME NEW S, IsFiniteSet(S), NEW f, \A x \in S : f[x] \in Int
  PROVE  SumFunctionOnSet(f, S) \in Int
<1> DEFINE A == {T \in SUBSET S : SumFunctionOnSet(f, T) \in Int}
<1>1. ASSUME NEW T \in SUBSET S, \A x \in T : T \ {x} \in A
      PROVE  T \in A
  <2>1. CASE T = {}
    BY <2>1, SumEmpty
  <2>2. CASE T # {}
    <3>1. Pick(T) \in T /\ IsFiniteSet(T)
      BY <2>2, PickFacts, FS_Subset
    <3>2. SumFunctionOnSet(f, T \ {Pick(T)}) \in Int /\ f[Pick(T)] \in Int
      BY <1>1, <3>1
    <3>3. SumFunctionOnSet(f, T) = f[Pick(T)] + SumFunctionOnSet(f, T \ {Pick(T)})
      BY <2>2, <3>1, SumPick
    <3>4. QED
      BY <3>2, <3>3
  <2>3. QED
    BY <2>1, <2>2
<1>2. SUBSET S \subseteq A
  <2> HIDE DEF A
  <2>1. QED
    BY <1>1, SubsetInductionOnSet
<1>3. QED
  BY <1>2

LEMMA SumTypeNat ==
  ASSUME NEW S, IsFiniteSet(S), NEW f, \A x \in S : f[x] \in Nat
  PROVE  SumFunctionOnSet(f, S) \in Nat
<1> DEFINE A == {T \in SUBSET S : SumFunctionOnSet(f, T) \in Nat}
<1>1. ASSUME NEW T \in SUBSET S, \A x \in T : T \ {x} \in A
      PROVE  T \in A
  <2>1. CASE T = {}
    BY <2>1, SumEmpty
  <2>2. CASE T # {}
    <3>1. Pick(T) \in T /\ IsFiniteSet(T)
      BY <2>2, PickFacts, FS_Subset
    <3>2. SumFunctionOnSet(f, T \ {Pick(T)}) \in Nat /\ f[Pick(T)] \in Nat
      BY <1>1, <3>1
    <3>3. SumFunctionOnSet(f, T) = f[Pick(T)] + SumFunctionOnSet(f, T \ {Pick(T)})
      BY <2>2, <3>1, SumPick
    <3>4. QED
      BY <3>2, <3>3
  <2>3. QED
    BY <2>1, <2>2
<1>2. SUBSET S \subseteq A
  <2> HIDE DEF A
  <2>1. QED
    BY <1>1, SubsetInductionOnSet
<1>3. QED
  BY <1>2

\* The sum does not depend on the order: any element may be taken out of it.
LEMMA SumRemove ==
  ASSUME NEW S, IsFiniteSet(S), NEW f, \A x \in S : f[x] \in Int, NEW a \in S
  PROVE  SumFunctionOnSet(f, S) = f[a] + SumFunctionOnSet(f, S \ {a})
<1> DEFINE A == {T \in SUBSET S : \A x \in T :
                   SumFunctionOnSet(f, T) = f[x] + SumFunctionOnSet(f, T \ {x})}
<1>1. ASSUME NEW T \in SUBSET S, \A x \in T : T \ {x} \in A
      PROVE  T \in A
  <2> SUFFICES ASSUME NEW x \in T
               PROVE  SumFunctionOnSet(f, T) = f[x] + SumFunctionOnSet(f, T \ {x})
    OBVIOUS
  <2> DEFINE c == Pick(T)
  <2>1. c \in T /\ IsFiniteSet(T)
    BY PickFacts, FS_Subset
  <2>2. SumFunctionOnSet(f, T) = f[c] + SumFunctionOnSet(f, T \ {c})
    BY <2>1, SumPick
  <2> HIDE DEF c
  <2>3. CASE x = c
    BY <2>2, <2>3
  <2>4. CASE x # c
    <3>1. SumFunctionOnSet(f, T \ {c}) = f[x] + SumFunctionOnSet(f, (T \ {c}) \ {x})
      BY <1>1, <2>1, <2>4
    <3>2. SumFunctionOnSet(f, T \ {x}) = f[c] + SumFunctionOnSet(f, (T \ {x}) \ {c})
      BY <1>1, <2>1, <2>4
    <3>3. (T \ {c}) \ {x} = (T \ {x}) \ {c}
      OBVIOUS
    <3>4. SumFunctionOnSet(f, (T \ {x}) \ {c}) \in Int
      <4>1. IsFiniteSet((T \ {x}) \ {c})
        BY <2>1, FS_Subset
      <4>2. \A y \in (T \ {x}) \ {c} : f[y] \in Int
        OBVIOUS
      <4>3. QED
        BY <4>1, <4>2, SumType
    <3>5. f[x] \in Int /\ f[c] \in Int
      BY <2>1
    <3>6. \A u, v, w \in Int : u + (v + w) = v + (u + w)
      OBVIOUS
    <3>7. SumFunctionOnSet(f, T) = f[c] + (f[x] + SumFunctionOnSet(f, (T \ {x}) \ {c}))
      BY <2>2, <3>1, <3>3
    <3>8. QED
      BY <3>2, <3>4, <3>5, <3>6, <3>7
  <2>5. QED
    BY <2>3, <2>4
<1>2. SUBSET S \subseteq A
  <2> HIDE DEF A
  <2>1. QED
    BY <1>1, SubsetInductionOnSet
<1>3. QED
  BY <1>2

\* No value is more than the sum.
LEMMA SumBound ==
  ASSUME NEW S, IsFiniteSet(S), NEW f, \A x \in S : f[x] \in Nat, NEW a \in S
  PROVE  f[a] <= SumFunctionOnSet(f, S)
<1>1. \A x \in S : f[x] \in Int
  OBVIOUS
<1>2. SumFunctionOnSet(f, S) = f[a] + SumFunctionOnSet(f, S \ {a})
  BY <1>1, SumRemove
<1>3. IsFiniteSet(S \ {a}) /\ \A x \in S \ {a} : f[x] \in Nat
  BY FS_Subset
<1>4. SumFunctionOnSet(f, S \ {a}) \in Nat /\ f[a] \in Nat
  BY <1>3, SumTypeNat
<1> DEFINE v == SumFunctionOnSet(f, S \ {a})
<1> HIDE DEF v
<1>5. f[a] <= f[a] + v
  BY <1>4 DEF v
<1>6. QED
  BY <1>2, <1>5 DEF v

\* It depends only on the values over the set.
LEMMA SumSame ==
  ASSUME NEW S, IsFiniteSet(S), NEW f, NEW g, \A x \in S : f[x] = g[x]
  PROVE  SumFunctionOnSet(f, S) = SumFunctionOnSet(g, S)
<1> DEFINE A == {T \in SUBSET S : SumFunctionOnSet(f, T) = SumFunctionOnSet(g, T)}
<1>1. ASSUME NEW T \in SUBSET S, \A x \in T : T \ {x} \in A
      PROVE  T \in A
  <2>1. CASE T = {}
    BY <2>1, SumEmpty
  <2>2. CASE T # {}
    <3>1. Pick(T) \in T /\ IsFiniteSet(T)
      BY <2>2, PickFacts, FS_Subset
    <3>2. SumFunctionOnSet(f, T \ {Pick(T)}) = SumFunctionOnSet(g, T \ {Pick(T)})
      BY <1>1, <3>1
    <3>3. /\ SumFunctionOnSet(f, T) = f[Pick(T)] + SumFunctionOnSet(f, T \ {Pick(T)})
          /\ SumFunctionOnSet(g, T) = g[Pick(T)] + SumFunctionOnSet(g, T \ {Pick(T)})
      BY <2>2, <3>1, SumPick
    <3>4. QED
      BY <3>1, <3>2, <3>3
  <2>3. QED
    BY <2>1, <2>2
<1>2. SUBSET S \subseteq A
  <2> HIDE DEF A
  <2>1. QED
    BY <1>1, SubsetInductionOnSet
<1>3. QED
  BY <1>2

\* It is 0 when every value is.
LEMMA SumZero ==
  ASSUME NEW S, IsFiniteSet(S), NEW f, \A x \in S : f[x] = 0
  PROVE  SumFunctionOnSet(f, S) = 0
<1> DEFINE A == {T \in SUBSET S : SumFunctionOnSet(f, T) = 0}
<1>1. ASSUME NEW T \in SUBSET S, \A x \in T : T \ {x} \in A
      PROVE  T \in A
  <2>1. CASE T = {}
    BY <2>1, SumEmpty
  <2>2. CASE T # {}
    <3>1. Pick(T) \in T /\ IsFiniteSet(T)
      BY <2>2, PickFacts, FS_Subset
    <3>2. SumFunctionOnSet(f, T \ {Pick(T)}) = 0 /\ f[Pick(T)] = 0
      BY <1>1, <3>1
    <3>3. SumFunctionOnSet(f, T) = f[Pick(T)] + SumFunctionOnSet(f, T \ {Pick(T)})
      BY <2>2, <3>1, SumPick
    <3>4. QED
      BY <3>2, <3>3
  <2>3. QED
    BY <2>1, <2>2
<1>2. SUBSET S \subseteq A
  <2> HIDE DEF A
  <2>1. QED
    BY <1>1, SubsetInductionOnSet
<1>3. QED
  BY <1>2

\* A change of one value changes the sum by as much.
LEMMA SumChange ==
  ASSUME NEW S, IsFiniteSet(S), NEW a \in S, NEW f, NEW g,
         \A x \in S : f[x] \in Int, g[a] \in Int,
         \A x \in S \ {a} : g[x] = f[x]
  PROVE  SumFunctionOnSet(g, S) = SumFunctionOnSet(f, S) - f[a] + g[a]
<1>1. \A x \in S : g[x] \in Int
  OBVIOUS
<1>2. IsFiniteSet(S \ {a})
  BY FS_Subset
<1>3. SumFunctionOnSet(f, S) = f[a] + SumFunctionOnSet(f, S \ {a})
  BY SumRemove
<1>4. SumFunctionOnSet(g, S) = g[a] + SumFunctionOnSet(g, S \ {a})
  BY <1>1, SumRemove
<1>5. SumFunctionOnSet(g, S \ {a}) = SumFunctionOnSet(f, S \ {a})
  BY <1>2, SumSame
<1>6. SumFunctionOnSet(f, S \ {a}) \in Int
  BY <1>2, SumType
<1>7. QED
  BY <1>3, <1>4, <1>5, <1>6
=============================================================================
