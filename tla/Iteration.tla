------------------------------ MODULE Iteration ------------------------------
(* Sets of states are often defined by iteration: start with a set, add what *)
(* one step reaches, and do so a given number of times.  The facts the proofs*)
(* need about such definitions, for every set, step and number.              *)
EXTENDS Integers, FiniteSets, FiniteSetTheorems, WellFoundedInduction, TLAPS

\* f iterates the function step n times, from start.
Iterates(f, start, step, n) ==
    f = [k \in 0 .. n |-> IF k = 0 THEN start ELSE step[f[k - 1]]]

\* f computes each of its values, all in D, from the number and the one before.
Recurs(f, n, D, start, next) ==
    /\ f \in [0 .. n -> D]
    /\ f[0] = start
    /\ \A k \in 1 .. n : f[k] = next[k][f[k - 1]]

-----------------------------------------------------------------------------

\* Induction, for a set of numbers: it has 0, and with k the number after it.
\* Stated of a set, so that no formula has to be instantiated.
LEMMA IntervalInduction ==
    ASSUME NEW n \in Nat, NEW G,
           0 \in G, \A k \in 0 .. n - 1 : k \in G => k + 1 \in G
    PROVE  0 .. n \subseteq G
<1>1. SUFFICES ASSUME ~(0 .. n \subseteq G) PROVE FALSE
  OBVIOUS
<1> DEFINE S == 0 .. n
           R == StrictSubsetOrdering(S)
           T == {U \in SUBSET S : \E m \in S \ G : U = 0 .. m}
<1>2. IsWellFoundedOn(R, FiniteSubsetsOf(S))
  BY FS_StrictSubsetOrderingWellFounded
<1>3. FiniteSubsetsOf(S) = SUBSET S
  <2>1. IsFiniteSet(S)
    BY FS_Interval
  <2>2. QED
    BY <2>1, FS_FiniteSubsetsOfFinite
<1>4. T \subseteq FiniteSubsetsOf(S)
  BY <1>3
<1>5. T # {}
  <2>1. PICK m \in S : m \notin G
    BY <1>1
  <2>2. 0 .. m \in T
    BY <2>1
  <2>3. QED
    BY <2>2
<1>6. PICK U \in T : \A V \in T : <<V, U>> \notin R
  <2> HIDE DEF R, T
  <2>1. QED
    BY <1>2, <1>4, <1>5, WFMin
<1>7. PICK m \in S : m \notin G /\ U = 0 .. m
  BY <1>6
<1>8. m # 0 /\ m - 1 \in S
  BY <1>7
<1>9. m - 1 \notin G
  BY <1>7, <1>8
<1>10. 0 .. m - 1 \in T
  BY <1>8, <1>9
<1>11. <<0 .. m - 1, U>> \in R
  BY <1>7, <1>8 DEF StrictSubsetOrdering
<1>12. QED
  BY <1>6, <1>10, <1>11

\* A set of numbers that has one has a least one.
LEMMA LeastElement ==
    ASSUME NEW S \in SUBSET Nat, NEW n \in S
    PROVE  \E m \in S : \A j \in S : m <= j
<1> SUFFICES ASSUME \A m \in S : \E j \in S : j < m PROVE FALSE
  OBVIOUS
<1> DEFINE G == {k \in 0 .. n : \A j \in 0 .. k : j \notin S}
<1>1. 0 \in G
  OBVIOUS
<1>2. ASSUME NEW k \in 0 .. n - 1, k \in G PROVE k + 1 \in G
  <2>1. k + 1 \notin S
    BY <1>2
  <2>2. QED
    BY <1>2, <2>1
<1>3. 0 .. n \subseteq G
  <2> HIDE DEF G
  <2>1. QED
    BY <1>1, <1>2, IntervalInduction
<1>4. QED
  BY <1>3

\* An iteration can be carried out: what is defined as one exists.
LEMMA IterationExists ==
    ASSUME NEW n \in Nat, NEW start, NEW step
    PROVE  \E f : Iterates(f, start, step, n)
<1> DEFINE G == {k \in 0 .. n : \E f : Iterates(f, start, step, k)}
<1>1. 0 \in G
  <2>1. Iterates([k \in 0 .. 0 |-> start], start, step, 0)
    BY DEF Iterates
  <2>2. QED
    BY <2>1
<1>2. ASSUME NEW k \in 0 .. n - 1, k \in G PROVE k + 1 \in G
  <2>1. PICK f : Iterates(f, start, step, k)
    BY <1>2
  <2> DEFINE g == [j \in 0 .. k + 1 |-> IF j = k + 1 THEN step[f[k]] ELSE f[j]]
  <2>2. ASSUME NEW j \in 0 .. k + 1
        PROVE  g[j] = IF j = 0 THEN start ELSE step[g[j - 1]]
    BY <2>1 DEF Iterates
  <2>3. Iterates(g, start, step, k + 1)
    BY <2>2 DEF Iterates
  <2>4. QED
    BY <2>3
<1>3. 0 .. n \subseteq G
  <2> HIDE DEF G
  <2>1. QED
    BY <1>1, <1>2, IntervalInduction
<1>4. QED
  BY <1>3

\* What the step adds to stays in a set that the step does not leave.
LEMMA IterationStays ==
    ASSUME NEW n \in Nat, NEW start, NEW step, NEW f, Iterates(f, start, step, n),
           NEW D, start \subseteq D, \A S \in SUBSET D : step[S] \subseteq D
    PROVE  \A k \in 0 .. n : f[k] \subseteq D
<1> DEFINE G == {k \in 0 .. n : f[k] \subseteq D}
<1>1. 0 \in G
  BY DEF Iterates
<1>2. ASSUME NEW k \in 0 .. n - 1, k \in G PROVE k + 1 \in G
  BY <1>2 DEF Iterates
<1>3. 0 .. n \subseteq G
  <2> HIDE DEF G
  <2>1. QED
    BY <1>1, <1>2, IntervalInduction
<1>4. QED
  BY <1>3

\* A step that only adds elements of a finite set has nothing to add after as
\* many rounds as the set has elements, and what was there at first is there.
LEMMA IterationCloses ==
    ASSUME NEW U, IsFiniteSet(U), NEW n \in Nat, Cardinality(U) <= n,
           NEW start, NEW step, NEW f, Iterates(f, start, step, n),
           start \subseteq U,
           \A S \in SUBSET U : S \subseteq step[S] /\ step[S] \subseteq U
    PROVE  f[n] \subseteq U /\ start \subseteq f[n] /\ step[f[n]] = f[n]
<1> DEFINE G == {k \in 0 .. n : start \subseteq f[k] /\ f[k] \subseteq U
                               /\ (step[f[k]] = f[k] \/ Cardinality(f[k]) >= k)}
<1>1. 0 \in G
  <2>1. f[0] = start
    BY DEF Iterates
  <2>2. Cardinality(start) \in Nat
    BY FS_Subset, FS_CardinalityType
  <2>3. QED
    BY <2>1, <2>2
<1>2. ASSUME NEW k \in 0 .. n - 1, k \in G PROVE k + 1 \in G
  <2>1. f[k + 1] = step[f[k]]
    BY DEF Iterates
  <2>2. f[k] \subseteq f[k + 1] /\ f[k + 1] \subseteq U /\ start \subseteq f[k + 1]
    BY <1>2, <2>1
  <2>3. CASE step[f[k]] = f[k]
    BY <2>1, <2>2, <2>3
  <2>4. CASE step[f[k]] # f[k]
    <3>1. Cardinality(f[k]) >= k
      BY <1>2, <2>4
    <3>2. IsFiniteSet(f[k + 1])
      BY <2>2, FS_Subset
    <3>3. /\ Cardinality(f[k]) <= Cardinality(f[k + 1])
          /\ Cardinality(f[k]) # Cardinality(f[k + 1])
      BY <3>2, <2>2, <2>1, <2>4, FS_Subset
    <3>4. Cardinality(f[k]) \in Nat /\ Cardinality(f[k + 1]) \in Nat
      BY <3>2, <2>2, FS_Subset, FS_CardinalityType
    <3>5. Cardinality(f[k + 1]) >= k + 1
      BY <3>1, <3>3, <3>4
    <3>6. QED
      BY <2>2, <3>5
  <2>5. QED
    BY <2>3, <2>4
<1>3. n \in G
  <2>1. 0 .. n \subseteq G
    <3> HIDE DEF G
    <3>1. QED
      BY <1>1, <1>2, IntervalInduction
  <2>2. QED
    BY <2>1
<1>4. CASE Cardinality(f[n]) >= n
  <2>1. /\ Cardinality(f[n]) <= Cardinality(U)
        /\ Cardinality(f[n]) = Cardinality(U) => f[n] = U
    BY <1>3, FS_Subset
  <2>2. Cardinality(f[n]) \in Nat /\ Cardinality(U) \in Nat
    BY <1>3, FS_Subset, FS_CardinalityType
  <2>3. f[n] = U
    BY <1>4, <2>1, <2>2
  <2>4. QED
    BY <1>3, <2>3
<1>5. QED
  BY <1>3, <1>4

\* A function whose value at a number is computed from the number and the value
\* before it: there is one, however far it goes.
LEMMA RecursionExists ==
    ASSUME NEW n \in Nat, NEW D, NEW start \in D,
           NEW next, \A k \in 1 .. n : \A x \in D : next[k][x] \in D
    PROVE  \E f : Recurs(f, n, D, start, next)
<1> DEFINE Eq(f, m) == /\ f[0] = start
                       /\ \A k \in 1 .. m : f[k] = next[k][f[k - 1]]
           G == {m \in 0 .. n : \E f \in [0 .. m -> D] : Eq(f, m)}
<1>1. 0 \in G
  <2>1. [k \in 0 .. 0 |-> start] \in [0 .. 0 -> D]
    OBVIOUS
  <2>2. Eq([k \in 0 .. 0 |-> start], 0)
    OBVIOUS
  <2>3. 0 \in 0 .. n
    OBVIOUS
  <2> HIDE DEF Eq
  <2>4. QED
    BY <2>1, <2>2, <2>3
<1>2. ASSUME NEW m \in 0 .. n - 1, m \in G PROVE m + 1 \in G
  <2>1. PICK f \in [0 .. m -> D] : Eq(f, m)
    BY <1>2
  <2> DEFINE g == [k \in 0 .. m + 1 |-> IF k = m + 1 THEN next[k][f[m]] ELSE f[k]]
  <2>2. f[m] \in D /\ m + 1 \in 1 .. n
    BY <1>2, <2>1
  <2>3. next[m + 1][f[m]] \in D
    BY <2>2
  <2>4. g \in [0 .. m + 1 -> D]
    BY <2>1, <2>3
  <2>5. \A k \in 0 .. m : g[k] = f[k]
    OBVIOUS
  <2>6. g[m + 1] = next[m + 1][f[m]]
    OBVIOUS
  <2>7. Eq(g, m + 1)
    <3> HIDE DEF g
    <3>1. g[0] = start
      BY <2>1, <2>5
    <3>2. ASSUME NEW k \in 1 .. m + 1 PROVE g[k] = next[k][g[k - 1]]
      <4>1. CASE k = m + 1
        BY <2>5, <2>6, <4>1
      <4>2. CASE k \in 1 .. m
        <5>1. g[k] = f[k] /\ g[k - 1] = f[k - 1]
          BY <2>5, <4>2
        <5>2. QED
          BY <2>1, <4>2, <5>1
      <4>3. QED
        BY <4>1, <4>2
    <3>3. QED
      BY <3>1, <3>2
  <2>8. m + 1 \in 0 .. n
    BY <1>2
  <2> HIDE DEF Eq, g
  <2>9. QED
    BY <2>4, <2>7, <2>8
<1>3. 0 .. n \subseteq G
  <2> HIDE DEF G
  <2>1. QED
    BY <1>1, <1>2, IntervalInduction
<1>4. QED
  BY <1>3 DEF Recurs

-----------------------------------------------------------------------------
(* Powers of two and remainders.                                             *)

\* The library counts the subsets of 1..n, which is how a power gets its type.
LEMMA PowerOfTwo ==
  ASSUME NEW n \in Nat
  PROVE  /\ 2 ^ n \in Nat \ {0}
         /\ IsFiniteSet(SUBSET (1 .. n)) /\ Cardinality(SUBSET (1 .. n)) = 2 ^ n
<1>1. IsFiniteSet(1 .. n) /\ Cardinality(1 .. n) = n
  BY FS_Interval
<1>2. IsFiniteSet(SUBSET (1 .. n)) /\ Cardinality(SUBSET (1 .. n)) = 2 ^ n
  BY <1>1, FS_SUBSET
<1>3. 2 ^ n \in Nat
  BY <1>2, FS_CardinalityType
<1>4. SUBSET (1 .. n) # {}
  OBVIOUS
<1>5. 2 ^ n # 0
  BY <1>2, <1>4, FS_EmptySet
<1>6. QED
  BY <1>2, <1>3, <1>5

LEMMA PowerOfZero == 2 ^ 0 = 1
<1>1. Cardinality(SUBSET (1 .. 0)) = 2 ^ 0
  BY PowerOfTwo
<1>2. 1 .. 0 = {}
  OBVIOUS
<1>3. SUBSET (1 .. 0) = {{}}
  BY <1>2
<1>4. Cardinality({{}}) = 1
  BY FS_Singleton
<1>5. QED
  BY <1>1, <1>3, <1>4

\* The sets with n + 1 are as many as those without.
LEMMA PowerDoubles ==
  ASSUME NEW n \in Nat
  PROVE  2 ^ (n + 1) = 2 ^ n + 2 ^ n
<1> DEFINE A == SUBSET (1 .. n)
           f == [X \in A |-> X \cup {n + 1}]
           B == {X \cup {n + 1} : X \in A}
<1>1. IsFiniteSet(A) /\ Cardinality(A) = 2 ^ n /\ 2 ^ n \in Nat
  BY PowerOfTwo
<1>2. Cardinality(SUBSET (1 .. n + 1)) = 2 ^ (n + 1)
  BY PowerOfTwo
<1>3. \A X \in A : n + 1 \notin X
  OBVIOUS
<1>4. f \in Surjection(A, B)
  BY DEF Surjection
<1>5. f \in Injection(A, B)
  <2>1. f \in [A -> B]
    OBVIOUS
  <2>2. ASSUME NEW X \in A, NEW Y \in A, f[X] = f[Y] PROVE X = Y
    <3>1. X \cup {n + 1} = Y \cup {n + 1}
      BY <2>2
    <3>2. n + 1 \notin X /\ n + 1 \notin Y
      BY <1>3
    <3>3. QED
      BY <3>1, <3>2
  <2> HIDE DEF f, A, B
  <2>3. QED
    BY <2>1, <2>2 DEF Injection, IsInjective
<1>6. IsFiniteSet(B) /\ Cardinality(B) = 2 ^ n
  <2> HIDE DEF f, A, B
  <2>1. QED
    BY <1>1, <1>4, <1>5, FS_Surjection
<1>7. A \cap B = {}
  BY <1>3
<1>8. A \cup B = SUBSET (1 .. n + 1)
  <2>1. ASSUME NEW X \in SUBSET (1 .. n + 1) PROVE X \in A \cup B
    <3>1. CASE n + 1 \notin X
      BY <2>1, <3>1
    <3>2. CASE n + 1 \in X
      <4>1. X \ {n + 1} \in A
        BY <2>1
      <4>2. X = (X \ {n + 1}) \cup {n + 1}
        BY <3>2
      <4>3. QED
        BY <4>1, <4>2
    <3>3. QED
      BY <3>1, <3>2
  <2>2. A \subseteq SUBSET (1 .. n + 1)
    OBVIOUS
  <2>3. ASSUME NEW X \in A PROVE X \cup {n + 1} \subseteq 1 .. n + 1
    OBVIOUS
  <2>4. B \subseteq SUBSET (1 .. n + 1)
    BY <2>3
  <2> HIDE DEF A, B
  <2>5. QED
    BY <2>1, <2>2, <2>4
<1> HIDE DEF A, B
<1>9. Cardinality(A \cup B) = 2 ^ n + 2 ^ n - Cardinality({})
  BY <1>1, <1>6, <1>7, FS_Union
<1>10. Cardinality({}) = 0
  BY FS_EmptySet
<1>11. 2 ^ (n + 1) = 2 ^ n + 2 ^ n - 0
  BY <1>2, <1>8, <1>9, <1>10
<1>12. PICK m \in Nat : m = 2 ^ n
  BY <1>1
<1>13. QED
  BY <1>11, <1>12

LEMMA Remainder ==
  ASSUME NEW m \in Nat \ {0}, NEW n \in Int
  PROVE  \E k \in Int : \E r \in 0 .. m - 1 : n = m * k + r /\ r = n % m
<1>1. n = (m * (n \div m)) + (n % m) /\ n % m \in 0 .. m - 1 /\ n \div m \in Int
  OBVIOUS
<1>2. QED
  BY <1>1

LEMMA RemainderUnique ==
  ASSUME NEW m \in Nat \ {0}, NEW q \in Int, NEW r \in 0 .. m - 1, NEW n \in Int,
         n = m * q + r
  PROVE  n % m = r
<1>1. PICK k \in Int : \E s \in 0 .. m - 1 : n = m * k + s /\ s = n % m
  BY Remainder
<1>2. PICK s \in 0 .. m - 1 : n = m * k + s /\ s = n % m
  BY <1>1
<1>3. m * (q - k) = m * q - m * k
  OBVIOUS
<1>4. m * (q - k) = s - r
  BY <1>2, <1>3
<1>5. CASE q - k >= 1
  <2>1. m * (q - k) >= m
    BY <1>5
  <2>2. QED
    BY <1>2, <1>4, <2>1
<1>6. CASE q - k <= -1
  <2>1. m * (q - k) <= -m
    BY <1>6
  <2>2. QED
    BY <1>2, <1>4, <2>1
<1>7. CASE q = k
  <2>1. PICK x \in Int : x = m * k
    OBVIOUS
  <2>2. n = x + s /\ n = x + r
    BY <1>2, <1>7, <2>1
  <2>3. s = r
    BY <2>1, <2>2
  <2>4. s = n % m
    BY <1>2
  <2>5. QED
    BY <2>3, <2>4, Zenon
<1>8. q - k >= 1 \/ q - k <= -1 \/ q = k
  OBVIOUS
<1>9. QED
  BY <1>5, <1>6, <1>7, <1>8

\* Multiples of the divisor make no difference.
LEMMA RemainderShift ==
  ASSUME NEW m \in Nat \ {0}, NEW q \in Int, NEW n \in Int
  PROVE  (n + m * q) % m = n % m
<1>1. PICK k \in Int : \E r \in 0 .. m - 1 : n = m * k + r /\ r = n % m
  BY Remainder
<1>2. PICK r \in 0 .. m - 1 : n = m * k + r /\ r = n % m
  BY <1>1
<1>3. n + m * q = m * (k + q) + r
  BY <1>2
<1>4. PICK j \in Int, p \in Int : j = k + q /\ p = n + m * q
  BY <1>1
<1>5. p % m = r
  <2>1. p = m * j + r
    BY <1>3, <1>4
  <2>2. QED
    BY <2>1, RemainderUnique
<1>6. QED
  BY <1>4, <1>5, <1>2

=============================================================================
