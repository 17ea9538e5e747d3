--------------------------- MODULE InductionProofs ---------------------------
(***************************************************************************)
(* Induction without an operator parameter: a set of numbers has a least   *)
(* one, a set of subsets of a finite set has a smallest one, so a claim is *)
(* proved from the least of its counterexamples.  With it, what a sum over *)
(* a finite set is, in whatever order its elements are taken.  Last, what  *)
(* numbers dealt in rows have to do with their rows and columns.           *)
(***************************************************************************)
EXTENDS Integers, FiniteSets, WellFoundedInduction, FiniteSetTheorems, TLAPS

LEMMA LeastNumber ==
  ASSUME NEW S \in SUBSET Nat, S # {}
  PROVE  \E n \in S : \A m \in S : n <= m
<1>1. PICK x \in S : \A y \in S : ~ (<<y, x>> \in OpToRel(<, Nat))
  BY NatLessThanWellFounded, WFMin
<1>2. \A y \in S : ~ (<<y, x>> \in OpToRel(<, Nat)) => ~(y < x)
  BY DEF OpToRel
<1>3. \A y \in S : ~(y < x)
  BY <1>1, <1>2, Zenon
<1> QED BY <1>3

(* Among subsets of a finite set there is one that has no smaller one.     *)
LEMMA LeastSubset ==
  ASSUME NEW S, IsFiniteSet(S), NEW B \in SUBSET SUBSET S, B # {}
  PROVE  \E s \in B : \A t \in B : ~(t \subseteq s /\ t # s)
<1> DEFINE N == {Cardinality(s) : s \in B}
<1>1. \A s \in B : IsFiniteSet(s) /\ Cardinality(s) \in Nat
  BY FS_Subset, FS_CardinalityType
<1>2. N \in SUBSET Nat /\ N # {}
  BY <1>1
<1>3. PICK n \in N : \A m \in N : n <= m
  <2> HIDE DEF N
  <2> QED BY <1>2, LeastNumber
<1>4. PICK s \in B : n = Cardinality(s)
  OBVIOUS
<1>5. \A t \in B : n <= Cardinality(t)
  BY <1>3
<1>6. ASSUME NEW t \in B, t \subseteq s, t # s PROVE FALSE
  <2>1. Cardinality(t) < Cardinality(s)
    BY <1>1, <1>6, FS_Subset
  <2> QED BY <1>1, <1>4, <1>5, <2>1
<1> QED BY <1>6

-----------------------------------------------------------------------------
(* The sums over the subsets of S, as the folds of the community modules   *)
(* compute them.                                                           *)

some(s) == CHOOSE x \in s : TRUE

Sums(g, f, S) ==
  g = [s \in SUBSET S |-> IF s = {} THEN 0 ELSE f[some(s)] + g[s \ {some(s)}]]

LEMMA SomeIn == ASSUME NEW s, s # {} PROVE some(s) \in s
  BY DEF some

LEMMA SumsNat ==
  ASSUME NEW S, IsFiniteSet(S), NEW f, \A x \in S : f[x] \in Nat, NEW g, Sums(g, f, S)
  PROVE  \A s \in SUBSET S : g[s] \in Nat
<1> DEFINE B == {s \in SUBSET S : g[s] \notin Nat}
<1>1. SUFFICES ASSUME B # {} PROVE FALSE
  OBVIOUS
<1>2. PICK s \in B : \A t \in B : ~(t \subseteq s /\ t # s)
  <2>1. B \in SUBSET SUBSET S
    OBVIOUS
  <2> HIDE DEF B
  <2> QED BY <1>1, <2>1, LeastSubset
<1>3. g[s] = IF s = {} THEN 0 ELSE f[some(s)] + g[s \ {some(s)}]
  BY DEF Sums
<1>4. s # {} 
  BY <1>3
<1>5. some(s) \in s
  BY <1>4, SomeIn
<1>6. g[s \ {some(s)}] \in Nat
  BY <1>2, <1>5
<1> QED BY <1>3, <1>4, <1>5, <1>6

(* Two such functions agree where their summands do.                       *)
LEMMA SumsSame ==
  ASSUME NEW S, NEW f, NEW g, Sums(g, f, S), NEW T, NEW d, NEW e, Sums(e, d, T),
         NEW r, IsFiniteSet(r), r \subseteq S, r \subseteq T, \A x \in r : f[x] = d[x]
  PROVE  g[r] = e[r]
<1> DEFINE B == {s \in SUBSET r : g[s] # e[s]}
<1>1. SUFFICES ASSUME B # {} PROVE FALSE
  OBVIOUS
<1>2. PICK s \in B : \A t \in B : ~(t \subseteq s /\ t # s)
  <2>1. B \in SUBSET SUBSET r
    OBVIOUS
  <2> HIDE DEF B
  <2> QED BY <1>1, <2>1, LeastSubset
<1>3. /\ g[s] = IF s = {} THEN 0 ELSE f[some(s)] + g[s \ {some(s)}]
      /\ e[s] = IF s = {} THEN 0 ELSE d[some(s)] + e[s \ {some(s)}]
  BY DEF Sums
<1>4. s # {}
  BY <1>3
<1>5. some(s) \in s
  BY <1>4, SomeIn
<1>6. g[s \ {some(s)}] = e[s \ {some(s)}]
  BY <1>2, <1>5
<1> QED BY <1>3, <1>4, <1>5, <1>6

(* The sum exists.                                                         *)
LEMMA SumsExist ==
  ASSUME NEW S, IsFiniteSet(S), NEW f
  PROVE  \E g : Sums(g, f, S)
<1> DEFINE Part(T) == \E g : Sums(g, f, T)
           B == {T \in SUBSET S : ~Part(T)}
<1>1. SUFFICES ASSUME B # {} PROVE FALSE
  OBVIOUS
<1>2. PICK T \in B : \A t \in B : ~(t \subseteq T /\ t # T)
  <2>1. B \in SUBSET SUBSET S
    OBVIOUS
  <2> HIDE DEF B
  <2> QED BY <1>1, <2>1, LeastSubset
(* Every proper subset of T has one: together they make one for T.         *)
<1> DEFINE h(t) == CHOOSE g : Sums(g, f, t)
           whole == [s \in SUBSET T |-> IF s = {} THEN 0
                       ELSE f[some(s)] + h(s \ {some(s)})[s \ {some(s)}]]
<1>3. \A t \in SUBSET T : t # T => Sums(h(t), f, t)
  BY <1>2
<1>4. ASSUME NEW s \in SUBSET T, s # {}
      PROVE  h(s \ {some(s)})[s \ {some(s)}] = whole[s \ {some(s)}]
  <2> DEFINE r == s \ {some(s)}
             q == r \ {some(r)}
  <2>1. r \in SUBSET T /\ r # T
    BY <1>4, SomeIn
  <2>2. Sums(h(r), f, r)
    BY <1>3, <2>1
  <2>3. h(r)[r] = IF r = {} THEN 0 ELSE f[some(r)] + h(r)[q]
    <3> HIDE DEF h, r
    <3> QED BY <2>2 DEF Sums
  <2>4. CASE r = {}
    BY <2>1, <2>3, <2>4
  <2>5. CASE r # {}
    <3>1. q \in SUBSET T /\ q # T /\ q \subseteq r
      BY <2>1, <2>5, SomeIn
    <3>2. Sums(h(q), f, q)
      BY <1>3, <3>1
    <3>3. IsFiniteSet(q)
      BY <3>1, FS_Subset
    <3>4. h(r)[q] = h(q)[q]
      <4> HIDE DEF h, q, r
      <4> QED BY <2>2, <3>1, <3>2, <3>3, SumsSame
    <3>5. whole[r] = f[some(r)] + h(q)[q]
      <4> HIDE DEF h
      <4> QED BY <2>1, <2>5
    <3>6. h(r)[r] = whole[r]
      <4> HIDE DEF h, whole, q, r
      <4> QED BY <2>3, <2>5, <3>4, <3>5
    <3> QED BY <3>6
  <2> QED BY <2>4, <2>5
<1>5. whole = [s \in SUBSET T |-> IF s = {} THEN 0 ELSE f[some(s)] + whole[s \ {some(s)}]]
  <2> HIDE DEF h
  <2> QED BY <1>4
<1>6. Part(T)
  <2> HIDE DEF whole
  <2> QED BY <1>5 DEF Sums
<1> QED BY <1>6

(* One element may be taken out first, whichever.                          *)
LEMMA SumsStep ==
  ASSUME NEW S, IsFiniteSet(S), NEW f, \A x \in S : f[x] \in Nat, NEW g, Sums(g, f, S),
         NEW r \in SUBSET S, NEW x \in r
  PROVE  g[r] = f[x] + g[r \ {x}]
<1> DEFINE B == {s \in SUBSET S : \E y \in s : g[s] # f[y] + g[s \ {y}]}
<1>1. SUFFICES ASSUME B # {} PROVE FALSE
  OBVIOUS
<1>2. PICK s \in B : \A t \in B : ~(t \subseteq s /\ t # s)
  <2>1. B \in SUBSET SUBSET S
    OBVIOUS
  <2> HIDE DEF B
  <2> QED BY <1>1, <2>1, LeastSubset
<1>3. PICK y \in s : g[s] # f[y] + g[s \ {y}]
  OBVIOUS
<1> DEFINE m == some(s)
           rest == s \ {m, y}
<1>4. m \in s
  BY SomeIn
<1>5. g[s] = f[m] + g[s \ {m}]
  BY <1>4 DEF Sums
<1> HIDE DEF m
<1>6. m # y
  BY <1>3, <1>5
<1>7. g[s \ {m}] = f[y] + g[rest]
  <2>1. s \ {m} \in SUBSET S /\ s \ {m} \notin B /\ y \in s \ {m}
    BY <1>2, <1>4, <1>6
  <2>2. (s \ {m}) \ {y} = rest
    OBVIOUS
  <2> QED BY <2>1, <2>2
<1>8. g[s \ {y}] = f[m] + g[rest]
  <2>1. s \ {y} \in SUBSET S /\ s \ {y} \notin B /\ m \in s \ {y}
    BY <1>2, <1>4, <1>6
  <2>2. (s \ {y}) \ {m} = rest
    OBVIOUS
  <2> QED BY <2>1, <2>2
<1>9. g[rest] \in Nat /\ f[m] \in Nat /\ f[y] \in Nat
  BY <1>4, SumsNat
<1> QED BY <1>3, <1>5, <1>7, <1>8, <1>9

-----------------------------------------------------------------------------
(* A deal of numbers round a ring.                                         *)

(* Numbers below n * m fall into m rows of n: the row is below m, and row  *)
(* and column determine the number.                                        *)
LEMMA RowBound ==
    ASSUME NEW n \in Nat \ {0}, NEW m \in Nat, NEW i \in Nat, i < n * m
    PROVE  /\ i \div n \in 0..(m - 1)
           /\ i % n \in 0..(n - 1)
           /\ i = n * (i \div n) + (i % n)
<1>1. i = n * (i \div n) + (i % n) /\ i % n \in 0..(n - 1) /\ i \div n \in Nat
  OBVIOUS
<1>2. i \div n < m
  <2>1. SUFFICES ASSUME i \div n >= m PROVE FALSE
    BY <1>1
  <2>2. n * (i \div n) >= n * m
    BY <1>1, <2>1
  <2> QED
    BY <1>1, <2>2
<1> QED
  BY <1>1, <1>2

(* A number is determined by its row and column.                           *)
LEMMA RowColumn ==
    ASSUME NEW n \in Nat \ {0}, NEW q \in Nat, NEW r \in 0..(n - 1)
    PROVE  (q * n + r) % n = r
  OBVIOUS

(* Of m rounds along a list without repetitions nobody gets more than m.   *)
(* What p gets all lies in one column, so dividing by the length of the    *)
(* list maps it injectively to 0..m-1.                                     *)
LEMMA DealWithin ==
    ASSUME NEW n \in Nat, NEW m \in Nat, NEW urls, NEW p,
           \A j, k \in 1..n : urls[j] = urls[k] => j = k,
           NEW S, \A i \in S : i \in Nat /\ i < n * m /\ urls[(i % n) + 1] = p
    PROVE  IsFiniteSet(S) /\ Cardinality(S) \in Nat /\ Cardinality(S) <= m
<1> DEFINE T == 0..(m - 1)
           row == [i \in S |-> i \div n]
<1>1. CASE S = {}
  BY <1>1, FS_EmptySet
<1>2. CASE S # {}
  <2>1. n \in Nat \ {0}
    BY <1>2
  <2>2. \A i \in S : i \div n \in T /\ (i % n) + 1 \in 1..n
                     /\ i = n * (i \div n) + (i % n)
    <3>1. SUFFICES ASSUME NEW i \in S
                   PROVE  i \div n \in T /\ (i % n) + 1 \in 1..n
                          /\ i = n * (i \div n) + (i % n)
      OBVIOUS
    <3>2. i \in Nat /\ i < n * m
      BY <3>1
    <3>3. /\ i \div n \in 0..(m - 1)
          /\ i % n \in 0..(n - 1)
          /\ i = n * (i \div n) + (i % n)
      BY <2>1, <3>2, RowBound
    <3>4. \A r \in 0..(n - 1) : r + 1 \in 1..n
      BY <2>1
    <3> QED
      BY <3>3, <3>4
  <2>3. row \in Injection(S, T)
    <3>1. row \in [S -> T]
      BY <2>2
    <3>2. ASSUME NEW i \in S, NEW j \in S, row[i] = row[j]
          PROVE  i = j
      <4>1. (i % n) + 1 = (j % n) + 1
        <5> DEFINE a == (i % n) + 1
                   b == (j % n) + 1
        <5>1. a \in 1..n /\ b \in 1..n /\ urls[a] = p /\ urls[b] = p
          BY <2>2
        <5> HIDE DEF a, b
        <5>2. a = b
          BY <5>1
        <5> QED
          BY <5>2 DEF a, b
      <4>2. i % n = j % n
        BY <4>1, <2>1
      <4>3. i \div n = j \div n
        BY <3>2
      <4> QED
        BY <2>2, <4>2, <4>3
    <3> QED
      BY <3>1, <3>2 DEF Injection, IsInjective
  <2>4. IsFiniteSet(T) /\ Cardinality(T) <= m
    <3>1. 0 \in Int /\ m - 1 \in Int
      OBVIOUS
    <3>2. IsFiniteSet(T) /\ Cardinality(T) = IF 0 > m - 1 THEN 0 ELSE (m - 1) - 0 + 1
      BY <3>1, FS_Interval
    <3> QED
      BY <3>2
  <2>5. IsFiniteSet(S) /\ Cardinality(S) <= Cardinality(T)
    BY <2>3, <2>4, FS_Injection
  <2> QED
    BY <2>4, <2>5, FS_CardinalityType
<1> QED
  BY <1>1, <1>2

=============================================================================
