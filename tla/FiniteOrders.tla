----------------------------- MODULE FiniteOrders -----------------------------
(***************************************************************************)
(* Every finite set that is not empty has a first element in a strict      *)
(* total order; hence the extrema that the models CHOOSE exist.            *)
(***************************************************************************)
EXTENDS Integers, FiniteSets, FiniteSetTheorems, WellFoundedInduction, TLAPS

\* R relates any two elements of S one way, and is transitive.
TransitiveOn(R, S) == \A x, y, z \in S : <<x, y>> \in R /\ <<y, z>> \in R => <<x, z>> \in R
TotalOn(R, S) == \A x, y \in S : x = y \/ <<x, y>> \in R \/ <<y, x>> \in R

FirstIn(x, R, S) == x \in S /\ \A y \in S \ {x} : <<x, y>> \in R

\* A set has a first element: remove one, and compare it with the first of the rest.
LEMMA FirstExists ==
  ASSUME NEW S, IsFiniteSet(S), S # {}, NEW R, TransitiveOn(R, S), TotalOn(R, S)
  PROVE  \E x : FirstIn(x, R, S)
<1> DEFINE Headless(T) == T # {} /\ \A x \in T : ~FirstIn(x, R, T)
           Bad == {T \in FiniteSubsetsOf(S) : Headless(T)}
<1>1. SUFFICES ASSUME \A x : ~FirstIn(x, R, S) PROVE FALSE
  OBVIOUS
<1>2. ASSUME NEW T PROVE T \in FiniteSubsetsOf(S) <=> T \subseteq S /\ IsFiniteSet(T)
  BY DEF FiniteSubsetsOf
<1>3. S \in Bad
  BY <1>1, <1>2
<1>4. PICK T \in Bad : \A U \in Bad : <<U, T>> \notin StrictSubsetOrdering(S)
  <2>1. Bad \subseteq FiniteSubsetsOf(S)
    OBVIOUS
  <2> HIDE DEF Bad
  <2> QED BY <1>3, <2>1, FS_StrictSubsetOrderingWellFounded, WFMin
<1>5. T \subseteq S /\ IsFiniteSet(T) /\ Headless(T)
  <2> HIDE DEF Headless
  <2> QED BY <1>2
<1>6. PICK x \in T : TRUE
  BY <1>5
<1>7. T \ {x} \subseteq S /\ IsFiniteSet(T \ {x}) /\ T \ {x} # T
  <2> HIDE DEF Headless
  <2>1. IsFiniteSet(T \ {x})
    BY <1>5, FS_RemoveElement
  <2> QED BY <1>5, <1>6, <2>1
<1>8. ~Headless(T \ {x})
  <2> HIDE DEF Headless
  <2>1. <<T \ {x}, T>> \in StrictSubsetOrdering(S)
    BY <1>5, <1>7 DEF StrictSubsetOrdering
  <2> QED BY <1>2, <1>4, <1>7, <2>1
<1>9. CASE T \ {x} = {}
  BY <1>5, <1>6, <1>9 DEF FirstIn
<1>10. CASE T \ {x} # {}
  <2>1. PICK y \in T \ {x} : FirstIn(y, R, T \ {x})
    BY <1>8, <1>10
  <2>2. CASE <<y, x>> \in R
    BY <1>5, <1>6, <2>1, <2>2 DEF FirstIn
  <2>3. CASE <<x, y>> \in R
    BY <1>5, <1>6, <2>1, <2>3 DEF FirstIn, TransitiveOn
  <2> QED BY <1>5, <1>6, <2>1, <2>2, <2>3 DEF TotalOn
<1> QED BY <1>9, <1>10

\* The extrema of a finite set of integers.
LEMMA GreatestExists ==
  ASSUME NEW S \in SUBSET Int, IsFiniteSet(S), S # {}
  PROVE  \E x \in S : \A y \in S : x >= y
<1> DEFINE R == {p \in S \X S : p[1] > p[2]}
<1>1. TransitiveOn(R, S) /\ TotalOn(R, S)
  BY DEF TransitiveOn, TotalOn
<1>2. PICK x : FirstIn(x, R, S)
  <2> HIDE DEF R
  <2> QED BY <1>1, FirstExists
<1>3. x \in S /\ \A y \in S \ {x} : x > y
  BY <1>2 DEF FirstIn
<1> QED BY <1>3

LEMMA LeastExists ==
  ASSUME NEW S \in SUBSET Int, IsFiniteSet(S), S # {}
  PROVE  \E x \in S : \A y \in S : x =< y
<1> DEFINE R == {p \in S \X S : p[1] < p[2]}
<1>1. TransitiveOn(R, S) /\ TotalOn(R, S)
  BY DEF TransitiveOn, TotalOn
<1>2. PICK x : FirstIn(x, R, S)
  <2> HIDE DEF R
  <2> QED BY <1>1, FirstExists
<1>3. x \in S /\ \A y \in S \ {x} : x < y
  BY <1>2 DEF FirstIn
<1> QED BY <1>3

-----------------------------------------------------------------------------
LEMMA ImageIsFinite ==
  ASSUME NEW S, IsFiniteSet(S), NEW g
  PROVE  IsFiniteSet({g[x] : x \in S})
<1> DEFINE T == {g[x] : x \in S}
           h == [x \in S |-> g[x]]
<1>1. h \in Surjection(S, T)
  BY DEF Surjection
<1>2. IsFiniteSet(T)
  <2> HIDE DEF T, h
  <2> QED BY <1>1, FS_Surjection
<1> QED BY <1>2

\* Ranks that are told apart number a finite set through.
LEMMA RanksNumber ==
  ASSUME NEW S, IsFiniteSet(S), NEW rank \in [S -> 1..Cardinality(S)],
         \A x, y \in S : rank[x] = rank[y] => x = y
  PROVE  \A i \in 1..Cardinality(S) : \E x \in S : rank[x] = i
<1> DEFINE T == 1..Cardinality(S)
<1>1. Cardinality(S) \in Nat
  BY FS_CardinalityType
<1>2. IsFiniteSet(T) /\ Cardinality(T) = Cardinality(S)
  BY <1>1, FS_Interval
<1>3. rank \in [S -> T]
  OBVIOUS
<1> HIDE DEF T
<1>4. rank \in Injection(S, T)
  BY <1>3 DEF Injection, IsInjective
<1>5. rank \in Surjection(S, T)
  BY <1>2, <1>4, FS_Injection
<1> QED BY <1>5 DEF Surjection, T

\* The members of a finite set are numbered through by how many come before them.
LEMMA RanksInOrder ==
  ASSUME NEW S, IsFiniteSet(S), NEW R, TransitiveOn(R, S), TotalOn(R, S),
         \A x \in S : <<x, x>> \notin R,
         NEW below \in [S -> SUBSET S], \A x, y \in S : y \in below[x] <=> <<y, x>> \in R
  PROVE  /\ \A x \in S : IsFiniteSet(below[x]) /\ Cardinality(below[x]) \in 0..(Cardinality(S) - 1)
         /\ \A x, y \in S : <<x, y>> \in R <=> Cardinality(below[x]) < Cardinality(below[y])
         /\ \A n \in 1..Cardinality(S) : \E x \in S : Cardinality(below[x]) = n - 1
<1>1. Cardinality(S) \in Nat
  BY FS_CardinalityType
<1>2. ASSUME NEW x \in S
      PROVE  IsFiniteSet(below[x]) /\ Cardinality(below[x]) \in 0..(Cardinality(S) - 1)
  <2>1. below[x] \in SUBSET S /\ x \notin below[x]
    OBVIOUS
  <2>2. /\ IsFiniteSet(below[x]) /\ Cardinality(below[x]) <= Cardinality(S)
        /\ (Cardinality(S) = Cardinality(below[x]) => S = below[x])
    BY <2>1, FS_Subset
  <2>3. Cardinality(below[x]) \in Nat
    BY <2>2, FS_CardinalityType
  <2> QED BY <1>1, <2>1, <2>2, <2>3
<1>3. ASSUME NEW x \in S, NEW y \in S, <<x, y>> \in R
      PROVE  Cardinality(below[x]) < Cardinality(below[y])
  <2>1. below[x] \in SUBSET below[y] /\ x \in below[y] /\ x \notin below[x]
    BY <1>3 DEF TransitiveOn
  <2>2. IsFiniteSet(below[x]) /\ IsFiniteSet(below[y])
    BY <1>2
  <2>3. /\ Cardinality(below[x]) <= Cardinality(below[y])
        /\ (Cardinality(below[y]) = Cardinality(below[x]) => below[y] = below[x])
    BY <2>1, <2>2, FS_Subset
  <2>4. Cardinality(below[x]) \in Nat /\ Cardinality(below[y]) \in Nat
    BY <2>2, FS_CardinalityType
  <2> QED BY <2>1, <2>3, <2>4
<1>4. \A x, y \in S : Cardinality(below[x]) \in Int
  BY <1>1, <1>2
<1>5. ASSUME NEW x \in S, NEW y \in S, Cardinality(below[x]) < Cardinality(below[y])
      PROVE  <<x, y>> \in R
  <2>1. x # y /\ <<y, x>> \notin R
    <3>1. ~(Cardinality(below[y]) < Cardinality(below[x]))
      BY <1>4, <1>5
    <3>2. x # y
      BY <1>4, <1>5
    <3> QED BY <1>3, <3>1, <3>2
  <2> QED BY <2>1 DEF TotalOn
<1>6. ASSUME NEW n \in 1..Cardinality(S) PROVE \E x \in S : Cardinality(below[x]) = n - 1
  <2> DEFINE rank == [x \in S |-> Cardinality(below[x]) + 1]
  <2>1. rank \in [S -> 1..Cardinality(S)]
    <3>1. \A x \in S : Cardinality(below[x]) + 1 \in 1..Cardinality(S)
      BY <1>1, <1>2
    <3> QED BY <3>1
  <2>2. ASSUME NEW x \in S, NEW y \in S, x # y PROVE rank[x] # rank[y]
    <3>1. Cardinality(below[x]) \in Int /\ Cardinality(below[y]) \in Int
      BY <1>4
    <3>2. Cardinality(below[x]) < Cardinality(below[y]) \/ Cardinality(below[y]) < Cardinality(below[x])
      BY <1>3, <2>2 DEF TotalOn
    <3>3. rank[x] = Cardinality(below[x]) + 1 /\ rank[y] = Cardinality(below[y]) + 1
      OBVIOUS
    <3> QED BY <3>1, <3>2, <3>3
  <2>3. PICK x \in S : rank[x] = n
    <3>1. \A x, y \in S : rank[x] = rank[y] => x = y
      BY <2>2
    <3> HIDE DEF rank
    <3> QED BY <2>1, <3>1, RanksNumber
  <2>4. Cardinality(below[x]) = n - 1
    <3>1. Cardinality(below[x]) + 1 = n
      BY <2>3
    <3> QED BY <1>4, <3>1
  <2> QED BY <2>4
<1> QED BY <1>2, <1>3, <1>5, <1>6

\* The members of a finite set of integers with fewer than max members below them:
\* the first max of the set, or all of it.
LEMMA FirstOfIntegers ==
  ASSUME NEW S \in SUBSET Int, IsFiniteSet(S), NEW max \in Nat, NEW below \in [S -> SUBSET S],
         \A i, j \in S : j \in below[i] <=> j < i,
         NEW P, \A i : i \in P <=> i \in S /\ Cardinality(below[i]) < max
  PROVE  /\ IsFiniteSet(P) /\ Cardinality(P) <= max
         /\ \A i \in S \ P : Cardinality(P) = max /\ \A j \in P : j < i
<1> DEFINE R == {p \in S \X S : p[1] < p[2]}
<1>1. TransitiveOn(R, S) /\ TotalOn(R, S) /\ (\A x \in S : <<x, x>> \notin R)
      /\ (\A x, y \in S : y \in below[x] <=> <<y, x>> \in R)
  BY DEF TransitiveOn, TotalOn
<1>2. \A x, y \in S : <<x, y>> \in R <=> x < y
  OBVIOUS
<1>3. /\ \A x \in S : Cardinality(below[x]) \in 0..(Cardinality(S) - 1)
      /\ \A x, y \in S : x < y <=> Cardinality(below[x]) < Cardinality(below[y])
      /\ \A n \in 1..Cardinality(S) : \E x \in S : Cardinality(below[x]) = n - 1
  <2> HIDE DEF R
  <2>1. /\ \A x \in S : IsFiniteSet(below[x]) /\ Cardinality(below[x]) \in 0..(Cardinality(S) - 1)
        /\ \A x, y \in S : <<x, y>> \in R <=> Cardinality(below[x]) < Cardinality(below[y])
        /\ \A n \in 1..Cardinality(S) : \E x \in S : Cardinality(below[x]) = n - 1
    BY <1>1, RanksInOrder
  <2> QED BY <1>2, <2>1
<1>4. P \in SUBSET S /\ IsFiniteSet(P) /\ Cardinality(S) \in Nat
  <2>1. P \in SUBSET S
    OBVIOUS
  <2> QED BY <2>1, FS_Subset, FS_CardinalityType
<1> DEFINE rank == [i \in P |-> Cardinality(below[i]) + 1]
<1>5. rank \in [P -> 1..max]
  <2>1. \A i \in P : Cardinality(below[i]) + 1 \in 1..max
    BY <1>3, <1>4
  <2> QED BY <2>1
<1>6. rank \in Injection(P, 1..max)
  <2>1. ASSUME NEW i \in P, NEW j \in P, rank[i] = rank[j] PROVE i = j
    <3>1. Cardinality(below[i]) \in Int /\ Cardinality(below[j]) \in Int
      BY <1>3, <1>4
    <3>2. Cardinality(below[i]) = Cardinality(below[j])
      BY <2>1, <3>1
    <3>3. ~(i < j) /\ ~(j < i) /\ i \in Int /\ j \in Int
      BY <1>3, <1>4, <3>1, <3>2
    <3> QED BY <3>3
  <2> HIDE DEF rank
  <2> QED BY <1>5, <2>1 DEF Injection, IsInjective
<1>7. IsFiniteSet(1..max) /\ Cardinality(1..max) = max
  BY FS_Interval
<1>8. Cardinality(P) <= max /\ (rank \in Surjection(P, 1..max) => Cardinality(P) = max)
  <2> HIDE DEF rank
  <2> QED BY <1>6, <1>7, FS_Injection
<1>9. ASSUME NEW i \in S \ P PROVE Cardinality(P) = max /\ \A j \in P : j < i
  <2>1. Cardinality(below[i]) \in 0..(Cardinality(S) - 1) /\ ~(Cardinality(below[i]) < max)
    BY <1>3
  <2>2. max <= Cardinality(S)
    BY <1>4, <2>1
  <2>3. ASSUME NEW n \in 1..max PROVE \E j \in P : rank[j] = n
    <3>1. n \in 1..Cardinality(S)
      BY <1>4, <2>2
    <3>2. PICK j \in S : Cardinality(below[j]) = n - 1
      BY <1>3, <3>1
    <3>3. j \in P
      BY <3>2
    <3> QED BY <3>2, <3>3
  <2>4. rank \in Surjection(P, 1..max)
    <3> HIDE DEF rank
    <3> QED BY <1>5, <2>3 DEF Surjection
  <2>5. ASSUME NEW j \in P PROVE j < i
    <3>1. Cardinality(below[j]) \in Int /\ Cardinality(below[i]) \in Int /\ Cardinality(below[j]) < max
      BY <1>3, <1>4
    <3>2. Cardinality(below[j]) < Cardinality(below[i])
      BY <2>1, <3>1
    <3> QED BY <1>3, <1>4, <3>2
  <2> QED BY <1>8, <2>4, <2>5
<1> QED BY <1>4, <1>8, <1>9
=============================================================================
