------------------------------ MODULE Induction ------------------------------
(***************************************************************************)
(* Induction over the naturals, stated of sets and functions instead of    *)
(* predicates: what proofs about recursive functions rest on.              *)
(***************************************************************************)
EXTENDS Integers, FiniteSets, FiniteSetTheorems, WellFoundedInduction, TLAPS

\* A set of naturals has a least one: the intervals up to its elements have a smallest.
LEMMA LeastElement ==
    ASSUME NEW T, T \subseteq Nat, T # {}
    PROVE  \E x \in T : \A y \in T : x <= y
<1>1. PICK n \in T : TRUE
  OBVIOUS
<1>2. PICK S : S = 1 .. n
  OBVIOUS
<1>3. IsFiniteSet(S)
  BY <1>1, <1>2, FS_Interval
<1>4. PICK R : R = StrictSubsetOrdering(S)
  OBVIOUS
<1>5. PICK F : F = FiniteSubsetsOf(S)
  OBVIOUS
<1>6. F = SUBSET S
  BY <1>3, <1>5, FS_FiniteSubsetsOfFinite
<1>7. IsWellFoundedOn(R, F)
  BY <1>4, <1>5, FS_StrictSubsetOrderingWellFounded
<1>8. PICK U : U = {1 .. k : k \in {t \in T : t <= n}}
  OBVIOUS
<1>9. U \subseteq F
  BY <1>1, <1>2, <1>6, <1>8, SMT
<1>10. U # {}
  BY <1>1, <1>8
<1>11. PICK x \in U : \A y \in U : <<y, x>> \notin R
  BY ONLY <1>7, <1>9, <1>10, WFMin
<1>12. PICK k \in T : k <= n /\ x = 1 .. k
  BY <1>8, <1>11
<1>13. ASSUME NEW y \in T, y < k PROVE FALSE
  <2>1. (1 .. y) \in U
    BY <1>1, <1>8, <1>12, <1>13
  <2>2. (1 .. y) \subseteq (1 .. k) /\ (1 .. y) # (1 .. k)
    BY <1>12, <1>13
  <2>3. (1 .. y) \in SUBSET S /\ (1 .. k) \in SUBSET S
    BY <1>1, <1>2, <1>12, <1>13
  <2>4. <<1 .. y, 1 .. k>> \in R
    BY <2>2, <2>3, <1>4 DEF StrictSubsetOrdering
  <2> QED BY <2>1, <2>4, <1>11, <1>12
<1> QED BY <1>12, <1>13

\* A finite set of integers has a greatest one: the one that fewest are above.
LEMMA GreatestElement ==
    ASSUME NEW S \in SUBSET Int, IsFiniteSet(S), S # {}
    PROVE  \E m \in S : \A i \in S : i <= m
<1> DEFINE above(e) == {y \in S : y > e}
<1>1. \A e \in S : IsFiniteSet(above(e)) /\ Cardinality(above(e)) \in Nat
  BY FS_Subset, FS_CardinalityType
<1>2. PICK T : T = {Cardinality(above(e)) : e \in S}
  OBVIOUS
<1>3. T \subseteq Nat /\ T # {}
  BY <1>1, <1>2
<1>4. PICK k \in T : \A j \in T : k <= j
  BY <1>3, LeastElement
<1>5. PICK m \in S : k = Cardinality(above(m))
  BY <1>2, <1>4
<1>6. ASSUME NEW i \in S, ~(i <= m) PROVE FALSE
  <2>0. i > m /\ i \in Int /\ m \in Int /\ \A y \in S : y \in Int
    BY <1>6
  <2>5. \A y \in S : y > i => y > m
    BY <2>0
  <2>6. ~(i > i)
    BY <2>0
  <2>1. above(i) \subseteq above(m) /\ i \in above(m) /\ i \notin above(i)
    BY <2>0, <2>5, <2>6
  <2>2. above(i) # above(m)
    BY <2>1
  <2> HIDE DEF above
  <2>3. Cardinality(above(i)) <= Cardinality(above(m)) /\ Cardinality(above(i)) # Cardinality(above(m))
    BY <2>1, <2>2, <1>1, FS_Subset
  <2>4. Cardinality(above(i)) \in T
    BY <1>2
  <2> QED BY <1>1, <1>4, <1>5, <2>3, <2>4
<1> QED BY <1>5, <1>6

Climbs(J, n) == 0 \in J /\ \A k \in 1..n : k - 1 \in J => k \in J

\* What holds at first, and from each step to the next, holds at last.
LEMMA StepByStep ==
    ASSUME NEW n \in Nat, NEW J, Climbs(J, n)
    PROVE  n \in J
<1> SUFFICES ASSUME n \notin J PROVE FALSE
  OBVIOUS
<1>1. PICK T : T = {k \in 0..n : k \notin J}
  OBVIOUS
<1>2. T \subseteq Nat /\ T # {}
  BY <1>1
<1>3. PICK k \in T : \A j \in T : k <= j
  BY <1>2, LeastElement
<1>4. k \in 1..n /\ k - 1 \notin T
  BY <1>1, <1>3 DEF Climbs
<1> QED BY <1>1, <1>3, <1>4 DEF Climbs

RunsOf(C, n, F, c) == {g \in [0..n -> C] : g[0] = c /\ \A k \in 1..n : g[k] = F[<<g[k - 1], k>>]}

\* A step function can be repeated any number of times: what recursive definitions rest on.
LEMMA Repeated ==
    ASSUME NEW C, NEW n \in Nat, NEW F \in [C \X (1..n) -> C], NEW c \in C
    PROVE  RunsOf(C, n, F, c) # {}
<1> DEFINE Lasts(k) == \E g \in [0..k -> C] : g[0] = c /\ \A i \in 1..k : g[i] = F[<<g[i - 1], i>>]
<1>1. PICK J : J = {k \in 0..n : Lasts(k)}
  OBVIOUS
<1>2. 0 \in J
  <2>1. PICK g : g = [i \in 0..0 |-> c]
    OBVIOUS
  <2>2. g \in [0..0 -> C] /\ g[0] = c /\ \A i \in 1..0 : g[i] = F[<<g[i - 1], i>>]
    BY <2>1
  <2> QED BY <1>1, <2>2
<1>3. ASSUME NEW k \in 1..n, k - 1 \in J PROVE k \in J
  <2>1. PICK g \in [0..(k - 1) -> C] : g[0] = c /\ \A i \in 1..(k - 1) : g[i] = F[<<g[i - 1], i>>]
    BY <1>1, <1>3
  <2>2. PICK h : h = [i \in 0..k |-> IF i = k THEN F[<<g[k - 1], k>>] ELSE g[i]]
    OBVIOUS
  <2>3. g[k - 1] \in C /\ F[<<g[k - 1], k>>] \in C
    BY <2>1
  <2>4. h \in [0..k -> C]
    BY <2>1, <2>2, <2>3
  <2>5. h[0] = c
    BY <2>1, <2>2
  <2>6. ASSUME NEW i \in 1..k PROVE h[i] = F[<<h[i - 1], i>>]
    <3>1. h[i - 1] = g[i - 1]
      BY <2>2
    <3>2. CASE i = k
      BY <3>1, <3>2, <2>2
    <3>3. CASE i # k
      <4>1. i \in 1..(k - 1) /\ h[i] = g[i]
        BY <3>3, <2>2
      <4> QED BY <4>1, <3>1, <2>1
    <3> QED BY <3>2, <3>3
  <2>7. Lasts(k)
    BY <2>4, <2>5, <2>6
  <2> QED BY <2>7, <1>1
<1> HIDE DEF Lasts
<1>4. n \in J
  <2> Climbs(J, n)
    BY <1>2, <1>3 DEF Climbs
  <2> QED BY StepByStep
<1>5. Lasts(n)
  BY <1>1, <1>4
<1> QED BY <1>5 DEF Lasts, RunsOf

\* Recursion over the subsets of a finite set, one element less at a time, has a solution.
RunsDown(S, C, c, L, H) ==
    {g \in [SUBSET S -> C] : \A T \in SUBSET S : g[T] = IF T = {} THEN c ELSE H[<<T, g[T \ {L[T]}]>>]}

LEMMA SubsetRecursion ==
    ASSUME NEW S, IsFiniteSet(S), NEW C, NEW c \in C, NEW L, \A T \in SUBSET S : T # {} => L[T] \in T,
           NEW H \in [(SUBSET S) \X C -> C]
    PROVE  RunsDown(S, C, c, L, H) # {}
<1>1. PICK D : D = [SUBSET S -> C]
  OBVIOUS
<1>2. PICK n \in Nat : n = Cardinality(S) + 1
  BY FS_CardinalityType
<1>3. PICK F : F = [p \in D \X (1..n) |-> [T \in SUBSET S |-> IF T = {} THEN c ELSE H[<<T, p[1][T \ {L[T]}]>>]]]
  OBVIOUS
<1>4. F \in [D \X (1..n) -> D]
  <2>1. ASSUME NEW p \in D \X (1..n)
        PROVE  [T \in SUBSET S |-> IF T = {} THEN c ELSE H[<<T, p[1][T \ {L[T]}]>>]] \in D
    <3>1. p[1] \in [SUBSET S -> C]
      BY <1>1
    <3>2. \A T \in SUBSET S : T \ {L[T]} \in SUBSET S
      OBVIOUS
    <3>3. \A T \in SUBSET S : H[<<T, p[1][T \ {L[T]}]>>] \in C
      BY <3>1, <3>2
    <3> QED BY <3>3, <1>1
  <2> QED BY <2>1, <1>3
<1>5. PICK d \in D : d = [T \in SUBSET S |-> c]
  <2>1. [T \in SUBSET S |-> c] \in D
    BY <1>1
  <2> QED BY <2>1
<1>6. RunsOf(D, n, F, d) # {}
  BY <1>4, <1>5, Repeated
<1>7. PICK g \in [0..n -> D] : g[0] = d /\ \A k \in 1..n : g[k] = F[<<g[k - 1], k>>]
  BY <1>6 DEF RunsOf
<1>8. ASSUME NEW k \in 1..n
      PROVE  /\ k - 1 \in 0..n /\ k \in 0..n
             /\ \A T \in SUBSET S : g[k][T] = IF T = {} THEN c ELSE H[<<T, g[k - 1][T \ {L[T]}]>>]
  <2>1. k - 1 \in 0..n /\ k \in 0..n
    OBVIOUS
  <2>2. <<g[k - 1], k>> \in D \X (1..n)
    BY <2>1, <1>7, Zenon
  <2>3. g[k] = [T \in SUBSET S |-> IF T = {} THEN c ELSE H[<<T, g[k - 1][T \ {L[T]}]>>]]
    BY <2>2, <1>3, <1>7
  <2> QED BY <2>1, <2>3
<1>9. ASSUME NEW T \in SUBSET S
      PROVE  /\ IsFiniteSet(T) /\ Cardinality(T) \in Nat /\ Cardinality(T) < n
             /\ T # {} => T \ {L[T]} \in SUBSET S /\ Cardinality(T \ {L[T]}) = Cardinality(T) - 1
  <2>1. IsFiniteSet(T) /\ Cardinality(T) <= Cardinality(S)
    BY FS_Subset
  <2>2. Cardinality(T) \in Nat /\ Cardinality(S) \in Nat
    BY <2>1, FS_CardinalityType
  <2>3. T # {} => Cardinality(T \ {L[T]}) = Cardinality(T) - 1
    BY <2>1, FS_RemoveElement
  <2> QED BY <2>1, <2>2, <2>3, <1>2
<1> DEFINE Same(k) == k = 0 \/ \A T \in SUBSET S : Cardinality(T) < k => g[k][T] = g[k - 1][T]
<1>10. PICK J : J = {k \in 0..n : Same(k)}
  OBVIOUS
<1>11. ASSUME NEW k \in 1..n, k - 1 \in J PROVE k \in J
  <2>1. ASSUME NEW T \in SUBSET S, Cardinality(T) < k PROVE g[k][T] = g[k - 1][T]
    <3>1. g[k][T] = IF T = {} THEN c ELSE H[<<T, g[k - 1][T \ {L[T]}]>>]
      BY <1>8
    <3>2. CASE T = {} /\ k - 1 = 0
      <4>1. g[0][T] = c
        BY <1>5, <1>7
      <4> QED BY <4>1, <3>1, <3>2
    <3>3. CASE T = {} /\ k - 1 # 0
      <4>1. k - 1 \in 1..n
        BY <3>3
      <4> QED BY <4>1, <3>3, <1>8
    <3>4. CASE T # {}
      <4>1. k - 1 \in 1..n
        <5>1. IsFiniteSet(T)
          BY <1>9
        <5>2. Cardinality(T) # 0
          BY <5>1, <3>4, FS_EmptySet
        <5>3. PICK z \in Nat : z = Cardinality(T)
          BY <1>9
        <5> QED BY <5>2, <5>3, <2>1
      <4>2. PICK U \in SUBSET S : U = T \ {L[T]} /\ Cardinality(U) < k - 1
        <5>1. PICK z \in Nat : z = Cardinality(T)
          BY <1>9
        <5>2. T \ {L[T]} \in SUBSET S /\ Cardinality(T \ {L[T]}) = z - 1
          BY <5>1, <3>4, <1>9
        <5>3. z - 1 < k - 1
          BY <5>1, <2>1
        <5> QED BY <5>2, <5>3
      <4>3. g[k - 1][U] = g[k - 1 - 1][U]
        BY <4>1, <4>2, <1>10, <1>11
      <4>4. g[k][T] = H[<<T, g[k - 1][U]>>]
        BY <4>2, <3>1, <3>4
      <4>5. g[k - 1][T] = H[<<T, g[k - 1 - 1][U]>>]
        BY <4>1, <4>2, <3>4, <1>8
      <4> QED BY <4>3, <4>4, <4>5
    <3> QED BY <3>2, <3>3, <3>4
  <2>2. k \in 0..n
    OBVIOUS
  <2> QED BY <2>1, <2>2, <1>10
<1>12. 0 \in J
  BY <1>10
<1> HIDE DEF Same
<1>13. n \in J
  <2> Climbs(J, n)
    BY <1>11, <1>12 DEF Climbs
  <2> QED BY StepByStep
<1>14. ASSUME NEW T \in SUBSET S PROVE g[n][T] = g[n - 1][T]
  <2>1. Cardinality(T) < n /\ n # 0
    <3>1. Cardinality(S) \in Nat
      BY FS_CardinalityType
    <3>2. n # 0
      BY <3>1, <1>2
    <3>3. Cardinality(T) < n
      BY <1>9
    <3> QED BY <3>2, <3>3
  <2>2. Same(n)
    BY <1>10, <1>13
  <2> QED BY <2>1, <2>2 DEF Same
<1>15. n \in 1..n
  BY <1>2, FS_CardinalityType
<1>16. g[n] \in [SUBSET S -> C]
  BY <1>1, <1>7, <1>8, <1>15
<1>17. ASSUME NEW T \in SUBSET S
       PROVE  g[n][T] = IF T = {} THEN c ELSE H[<<T, g[n][T \ {L[T]}]>>]
  <2>1. T # {} => g[n][T \ {L[T]}] = g[n - 1][T \ {L[T]}]
    BY <1>9, <1>14
  <2>2. g[n][T] = IF T = {} THEN c ELSE H[<<T, g[n - 1][T \ {L[T]}]>>]
    BY <1>8, <1>15
  <2> QED BY <2>1, <2>2
<1> QED BY <1>16, <1>17 DEF RunsDown

Shrinks(J, S, L) == {} \in J /\ \A T \in SUBSET S : T # {} /\ T \ {L[T]} \in J => T \in J

\* What holds of no element, and with each further one, holds of all.
LEMMA ElementByElement ==
    ASSUME NEW S, IsFiniteSet(S), NEW L, \A T \in SUBSET S : T # {} => L[T] \in T, NEW J, Shrinks(J, S, L)
    PROVE  S \in J
<1>1. PICK n \in Nat : n = Cardinality(S)
  BY FS_CardinalityType
<1>2. PICK K : K = {k \in 0..n : \A T \in SUBSET S : Cardinality(T) = k => T \in J}
  OBVIOUS
<1>3. ASSUME NEW T \in SUBSET S
      PROVE  /\ Cardinality(T) = 0 => T = {}
             /\ Cardinality(T) # 0 => T # {} /\ Cardinality(T \ {L[T]}) = Cardinality(T) - 1
  <2>1. IsFiniteSet(T)
    BY FS_Subset
  <2>2. Cardinality(T) = 0 => T = {}
    BY <2>1, FS_EmptySet
  <2>3. T = {} => Cardinality(T) = 0
    BY <2>1, FS_EmptySet
  <2>4. T # {} => Cardinality(T \ {L[T]}) = Cardinality(T) - 1
    BY <2>1, FS_RemoveElement
  <2> QED BY <2>2, <2>3, <2>4
<1>4. 0 \in K
  <2>1. {} \in J
    BY DEF Shrinks
  <2>2. ASSUME NEW T \in SUBSET S, Cardinality(T) = 0 PROVE T \in J
    BY <1>3, <2>1, <2>2
  <2> QED BY <2>2, <1>2
<1>5. ASSUME NEW k \in 1..n, k - 1 \in K PROVE k \in K
  <2>1. ASSUME NEW T \in SUBSET S, Cardinality(T) = k PROVE T \in J
    <3>1. T # {} /\ Cardinality(T \ {L[T]}) = Cardinality(T) - 1
      <4>1. Cardinality(T) # 0
        BY <2>1
      <4> QED BY <4>1, <1>3
    <3>2. PICK U \in SUBSET S : U = T \ {L[T]}
      OBVIOUS
    <3>3. Cardinality(U) = k - 1
      BY <2>1, <3>1, <3>2
    <3> QED BY <1>2, <1>5, <3>1, <3>2, <3>3 DEF Shrinks
  <2> QED BY <2>1, <1>2
<1>6. n \in K
  <2> Climbs(K, n)
    BY <1>4, <1>5 DEF Climbs
  <2> QED BY StepByStep
<1> QED BY <1>1, <1>2, <1>6
=============================================================================
