------------------------------ MODULE Induction ------------------------------
(***************************************************************************)
(* Induction over the natural numbers for the proofs of this directory,    *)
(* stated with sets and functions: the form in which the provers can use   *)
(* it.  It rests on the inclusion of finite sets being well-founded.       *)
(***************************************************************************)
EXTENDS FiniteSetTheorems, FiniteSetsExt, TLAPS

\* A set with 0 and with the successor of each of its numbers has every number.
LEMMA SetInduction ==
  ASSUME NEW S, 0 \in S, \A n \in Nat : n \in S => n + 1 \in S
  PROVE  \A n \in Nat : n \in S
<1> DEFINE T == Nat \ S
           Below == {0..n : n \in T}
<1>1. SUFFICES ASSUME T # {} PROVE FALSE
  OBVIOUS
<1>2. Below \in SUBSET FiniteSubsetsOf(Nat) /\ Below # {}
  <2>1. ASSUME NEW n \in T PROVE 0..n \in FiniteSubsetsOf(Nat)
    BY FS_Interval DEF FiniteSubsetsOf
  <2> QED
    BY <1>1, <2>1
<1>3. PICK b \in Below : \A y \in Below : ~(<<y, b>> \in StrictSubsetOrdering(Nat))
  <2>1. IsWellFoundedOn(StrictSubsetOrdering(Nat), FiniteSubsetsOf(Nat))
    BY FS_StrictSubsetOrderingWellFounded
  <2> HIDE DEF Below
  <2> QED
    BY <1>2, <2>1, WFMin
<1>4. PICK x \in T : b = 0..x
  OBVIOUS
<1>5. ASSUME NEW y \in T, y < x PROVE FALSE
  <2>1. 0..y \in SUBSET Nat /\ 0..x \in SUBSET Nat /\ 0..y \subseteq 0..x
    BY <1>5
  <2>2. x \in 0..x /\ x \notin 0..y
    BY <1>5
  <2>3. <<0..y, b>> \in StrictSubsetOrdering(Nat)
    BY <1>4, <2>1, <2>2 DEF StrictSubsetOrdering
  <2> QED
    BY <1>3, <2>3
<1>6. x # 0 /\ x \in Nat
  OBVIOUS
<1>7. x - 1 \in Nat /\ x - 1 < x /\ x - 1 + 1 = x
  BY <1>6
<1>8. x - 1 \in S
  BY <1>5, <1>7
<1> QED
  BY <1>6, <1>7, <1>8

\* f leads from start through the steps of F.
IsStep(F, T) == F \in [T -> T]
Iterates(f, F, start, T) ==
  f \in [Nat -> T] /\ f[0] = start /\ \A n \in Nat : f[n + 1] = F[f[n]]

\* Every step and every start have the sequence of the states they lead through.
LEMMA Iteration ==
  ASSUME NEW T, NEW F, NEW start, IsStep(F, T), start \in T
  PROVE  \E f : Iterates(f, F, start, T)
<1> USE DEF IsStep
<1> DEFINE Upto(g, n) == /\ g \in [0..n -> T] /\ g[0] = start
                         /\ \A i \in 0..n : i # n => g[i + 1] = F[g[i]]
           S == {n \in Nat : \E g : Upto(g, n)}
<1>1. 0 \in S
  <2>1. Upto([i \in 0..0 |-> start], 0)
    OBVIOUS
  <2> QED
    BY <2>1
<1>2. ASSUME NEW n \in Nat, n \in S PROVE n + 1 \in S
  <2>1. PICK g : Upto(g, n)
    BY <1>2
  <2> DEFINE h == [i \in 0..n + 1 |-> IF i = n + 1 THEN F[g[n]] ELSE g[i]]
  <2>2. h \in [0..n + 1 -> T]
    BY <2>1
  <2>3. h[0] = start
    BY <2>1
  <2>4. ASSUME NEW i \in 0..n + 1, i # n + 1 PROVE h[i + 1] = F[h[i]]
    BY <2>1, <2>4
  <2> HIDE DEF h
  <2>5. Upto(h, n + 1)
    BY <2>2, <2>3, <2>4
  <2> QED
    BY <2>5
<1>3. \A n \in Nat : n \in S
  <2> HIDE DEF S
  <2> QED
    BY <1>1, <1>2, SetInduction
<1>4. ASSUME NEW n \in Nat, NEW k \in Nat, k >= n, NEW g, NEW h, Upto(g, n), Upto(h, k)
      PROVE  g[n] = h[n]
  <2> DEFINE A == {i \in Nat : i <= n => g[i] = h[i]}
  <2>1. 0 \in A
    BY <1>4
  <2>2. ASSUME NEW i \in Nat, i \in A PROVE i + 1 \in A
    <3>1. SUFFICES ASSUME i + 1 <= n PROVE g[i + 1] = h[i + 1]
      OBVIOUS
    <3>2. i \in 0..n /\ i # n /\ i \in 0..k /\ i # k
      BY <1>4, <3>1
    <3>3. g[i] = h[i]
      BY <2>2, <3>2
    <3> QED
      BY <1>4, <3>2, <3>3
  <2>3. n \in A
    <3> HIDE DEF A
    <3> QED
      BY <2>1, <2>2, SetInduction
  <2> QED
    BY <2>3
<1> DEFINE Prefix(n) == CHOOSE g : Upto(g, n)
           f == [n \in Nat |-> Prefix(n)[n]]
<1>5. \A n \in Nat : Upto(Prefix(n), n)
  <2> HIDE DEF Upto
  <2> QED
    BY <1>3
<1> HIDE DEF Prefix
<1>6. \A n \in Nat : Prefix(n)[n] \in T
  BY <1>5
<1>7. f \in [Nat -> T]
  BY <1>6
<1>8. f[0] = start
  BY <1>5
<1>9. ASSUME NEW n \in Nat PROVE f[n + 1] = F[f[n]]
  <2>1. Upto(Prefix(n), n) /\ Upto(Prefix(n + 1), n + 1)
    BY <1>5
  <2>2. Prefix(n)[n] = Prefix(n + 1)[n]
    <3>1. n + 1 \in Nat /\ n + 1 >= n
      OBVIOUS
    <3> HIDE DEF Upto
    <3> QED
      BY <1>4, <2>1, <3>1
  <2>3. Prefix(n + 1)[n + 1] = F[Prefix(n + 1)[n]]
    BY <2>1
  <2> QED
    BY <2>2, <2>3
<1> HIDE DEF f
<1>10. Iterates(f, F, start, T)
  BY <1>7, <1>8, <1>9 DEF Iterates
<1> QED
  BY <1>10

\* A finite set of numbers that is not empty has a greatest one.
LEMMA MaxOfFinite ==
  ASSUME NEW S \in SUBSET Nat, IsFiniteSet(S), S # {}
  PROVE  Max(S) \in S /\ \A x \in S : x <= Max(S)
<1> DEFINE A == {n \in Nat : \A R \in SUBSET Nat :
                   IsFiniteSet(R) /\ Cardinality(R) = n + 1 => \E m \in R : \A x \in R : x <= m}
<1>1. 0 \in A
  <2>1. ASSUME NEW R \in SUBSET Nat, IsFiniteSet(R), Cardinality(R) = 1
        PROVE  \E m \in R : \A x \in R : x <= m
    <3>1. PICK y : R = {y}
      BY <2>1, FS_Singleton
    <3> QED
      BY <3>1
  <2> QED
    BY <2>1
<1>2. ASSUME NEW n \in Nat, n \in A PROVE n + 1 \in A
  <2>1. SUFFICES ASSUME NEW R \in SUBSET Nat, IsFiniteSet(R), Cardinality(R) = n + 2
                 PROVE  \E m \in R : \A x \in R : x <= m
    OBVIOUS
  <2>2. PICK y : y \in R
    BY <2>1, FS_EmptySet
  <2>3. IsFiniteSet(R \ {y}) /\ Cardinality(R \ {y}) = n + 1
    BY <2>1, <2>2, FS_RemoveElement
  <2>4. R \ {y} \in SUBSET Nat
    OBVIOUS
  <2>5. PICK m \in R \ {y} : \A x \in R \ {y} : x <= m
    BY <1>2, <2>3, <2>4
  <2> QED
    BY <2>2, <2>5
<1>3. \A n \in Nat : n \in A
  <2> HIDE DEF A
  <2> QED
    BY <1>1, <1>2, SetInduction
<1>4. Cardinality(S) \in Nat /\ Cardinality(S) # 0
  BY FS_EmptySet, FS_CardinalityType
<1>5. Cardinality(S) - 1 \in Nat /\ Cardinality(S) = Cardinality(S) - 1 + 1
  BY <1>4
<1>6. \E m \in S : \A x \in S : x <= m
  BY <1>3, <1>5
<1> QED
  BY <1>6 DEF Max

\* R orders the elements of S, and Below are those before x.
Orders(R, S) ==
  /\ \A x \in S : <<x, x>> \notin R
  /\ \A x, y \in S : x # y => <<x, y>> \in R \/ <<y, x>> \in R
  /\ \A x, y, z \in S : <<x, y>> \in R /\ <<y, z>> \in R => <<x, z>> \in R
Below(R, S, x) == {y \in S : <<y, x>> \in R}

\* The elements of a finite ordered set with fewer than n before them are n, as far as
\* there are so many.
LEMMA FirstOnes ==
  ASSUME NEW S, IsFiniteSet(S), NEW R, Orders(R, S), NEW n \in Int
  PROVE  LET T == {x \in S : Cardinality(Below(R, S, x)) < n}
         IN /\ IsFiniteSet(T)
            /\ Cardinality(T) = IF n <= 0 THEN 0
                                ELSE IF n <= Cardinality(S) THEN n ELSE Cardinality(S)
<1> DEFINE k == Cardinality(S)
           rank == [x \in S |-> Cardinality(Below(R, S, x))]
           T == {x \in S : Cardinality(Below(R, S, x)) < n}
<1>1. k \in Nat
  BY FS_CardinalityType
<1>2. ASSUME NEW x \in S
      PROVE  /\ IsFiniteSet(Below(R, S, x)) /\ Cardinality(Below(R, S, x)) \in 0..k - 1
  <2>1. IsFiniteSet(S \ {x}) /\ Cardinality(S \ {x}) = k - 1
    BY FS_RemoveElement
  <2>2. Below(R, S, x) \in SUBSET (S \ {x})
    BY DEF Below, Orders
  <2>3. IsFiniteSet(Below(R, S, x)) /\ Cardinality(Below(R, S, x)) <= k - 1
    BY <2>1, <2>2, FS_Subset
  <2> QED
    BY <1>1, <2>3, FS_CardinalityType
<1>3. ASSUME NEW x \in S, NEW y \in S, <<x, y>> \in R
      PROVE  Cardinality(Below(R, S, x)) # Cardinality(Below(R, S, y))
  <2>1. Below(R, S, x) \in SUBSET Below(R, S, y) /\ x \in Below(R, S, y)
    BY <1>3 DEF Below, Orders
  <2>2. x \notin Below(R, S, x)
    BY DEF Below, Orders
  <2> QED
    BY <1>2, <2>1, <2>2, FS_Subset
<1>4. rank \in Injection(S, 0..k - 1)
  <2>1. rank \in [S -> 0..k - 1]
    BY <1>2
  <2>2. ASSUME NEW x \in S, NEW y \in S, x # y PROVE rank[x] # rank[y]
    BY <1>3, <2>2 DEF Orders
  <2> HIDE DEF rank
  <2> QED
    BY <2>1, <2>2 DEF Injection, IsInjective
<1>5. IsFiniteSet(0..k - 1) /\ Cardinality(0..k - 1) = k
  BY <1>1, FS_Interval
<1>6. rank \in Surjection(S, 0..k - 1)
  <2> HIDE DEF rank
  <2> QED
    BY <1>4, <1>5, FS_Injection
<1>7. IsFiniteSet(T)
  BY FS_Subset
<1>8. CASE n <= 0
  <2>1. T = {}
    BY <1>2, <1>8
  <2> QED
    BY <1>8, <2>1, FS_EmptySet
<1>9. CASE n > k
  <2>1. T = S
    BY <1>1, <1>2, <1>9
  <2> QED
    BY <1>1, <1>7, <1>9, <2>1
<1>10. CASE n > 0 /\ n <= k
  <2> DEFINE f == [x \in T |-> rank[x]]
  <2>1. f \in [T -> 0..n - 1]
    BY <1>2
  <2>2. \A x, y \in T : x # y => f[x] # f[y]
    <3> HIDE DEF rank
    <3> QED
      BY <1>4 DEF Injection, IsInjective
  <2>3. ASSUME NEW i \in 0..n - 1 PROVE \E x \in T : f[x] = i
    <3>1. i \in 0..k - 1
      BY <1>1, <1>10
    <3>2. PICK x \in S : rank[x] = i
      <4> HIDE DEF rank
      <4> QED
        BY <1>6, <3>1 DEF Surjection
    <3>3. x \in T
      BY <3>2
    <3> QED
      BY <3>2, <3>3
  <2> HIDE DEF f, T
  <2>4. f \in Injection(T, 0..n - 1) /\ f \in Surjection(T, 0..n - 1)
    BY <2>1, <2>2, <2>3 DEF Injection, IsInjective, Surjection
  <2>5. IsFiniteSet(0..n - 1) /\ Cardinality(0..n - 1) = n
    BY <1>10, FS_Interval
  <2>6. Cardinality(T) = n
    BY <2>4, <2>5, FS_Injection
  <2> QED
    BY <1>7, <1>10, <2>6 DEF T
<1> QED
  BY <1>1, <1>8, <1>9, <1>10
==============================================================================
