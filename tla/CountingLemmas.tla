--------------------------- MODULE CountingLemmas ---------------------------
(***************************************************************************)
(* Facts about numbers and finite sets that the proofs of several          *)
(* components rest on: the smallest and the largest of a set of numbers,   *)
(* induction up to a bound for a property given as a set, the ascending    *)
(* listing of a finite set, the image of a finite set, and running totals. *)
(***************************************************************************)
EXTENDS Integers, FiniteSets, FiniteSetTheorems, TLAPS

(* A set of natural numbers that is not empty has a smallest. *)
LEMMA SmallestNumber ==
    ASSUME NEW S, S \subseteq Nat, S # {}
    PROVE  \E m \in S : \A x \in S : m <= x
<1>1. PICK k \in S : k \in Nat
  OBVIOUS
<1> DEFINE upTo(x) == 0..x
           N == upTo(k)
           T == {upTo(x) : x \in {y \in S : y <= k}}
<1>2. IsFiniteSet(N)
  BY <1>1, FS_Interval
<1>3. T \subseteq SUBSET N
  BY <1>1
<1>4. upTo(k) \in T
  BY <1>1
<1>5. IsWellFoundedOn(StrictSubsetOrdering(N), SUBSET N)
  BY <1>2, FS_StrictSubsetOrderingWellFounded, FS_FiniteSubsetsOfFinite
<1>6. \E X \in T : \A Y \in T : ~ (<<Y, X>> \in StrictSubsetOrdering(N))
  <2> HIDE DEF T, N
  <2> QED
    BY <1>3, <1>4, <1>5, WFMin
<1>7. PICK m \in S : m <= k /\ \A Y \in T : ~ (<<Y, upTo(m)>> \in StrictSubsetOrdering(N))
  BY <1>6
<1>8. \A x \in S : ~(x < m)
  <2> SUFFICES ASSUME NEW x \in S, x < m
               PROVE  FALSE
    OBVIOUS
  <2>1. x \in Nat /\ m \in Nat /\ x <= k
    BY <1>1, <1>7
  <2>2. upTo(x) \in T /\ upTo(m) \in T
    BY <1>7, <2>1
  <2>3. upTo(x) \subseteq upTo(m) /\ m \in upTo(m) /\ m \notin upTo(x)
    BY <2>1
  <2>4. <<upTo(x), upTo(m)>> \in StrictSubsetOrdering(N)
    <3> HIDE DEF upTo, T, N
    <3> QED
      BY <1>3, <2>2, <2>3 DEF StrictSubsetOrdering
  <2> QED
    BY <1>7, <2>2, <2>4
<1>9. \A x \in S : x \in Nat /\ m \in Nat
  BY <1>7
<1> QED
  BY <1>7, <1>8, <1>9

(* One with an upper bound has a largest. *)
LEMMA LargestNumber ==
    ASSUME NEW S, S \subseteq Nat, S # {}, NEW n \in Nat, \A x \in S : x <= n
    PROVE  \E m \in S : \A x \in S : x <= m
<1> DEFINE T == {n - x : x \in S}
<1>1. T \subseteq Nat /\ T # {}
  <2>1. \A x \in S : n - x \in Nat
    OBVIOUS
  <2> QED
    BY <2>1
<1> HIDE DEF T
<1>2. PICK d \in T : \A y \in T : d <= y
  BY <1>1, SmallestNumber
<1>3. PICK m \in S : d = n - m
  BY <1>2 DEF T
<1>4. \A x \in S : n - m <= n - x
  BY <1>2, <1>3 DEF T
<1>5. \A x \in S : x \in Nat /\ m \in Nat
  BY <1>3
<1> QED
  BY <1>3, <1>4, <1>5

(* Induction up to a bound: a set that has 0 and, with a number below the bound,
   the next one, has them all. *)
LEMMA CountingUp ==
    ASSUME NEW n \in Nat, NEW T, 0 \in T,
           \A i \in 0..n : i < n /\ i \in T => i + 1 \in T
    PROVE  \A i \in 0..n : i \in T
<1> DEFINE missing == {i \in 0..n : i \notin T}
<1> SUFFICES ASSUME missing # {}
             PROVE  FALSE
  OBVIOUS
<1>0. missing \subseteq Nat
  OBVIOUS
<1> HIDE DEF missing
<1>1. PICK m \in missing : \A x \in missing : m <= x
  BY <1>0, SmallestNumber
<1>2. m \in 0..n /\ m \notin T /\ m # 0
  BY DEF missing
<1>3. m - 1 \in 0..n /\ m - 1 < n /\ ~(m <= m - 1) /\ m - 1 + 1 = m
  BY <1>2
<1>4. m - 1 \in T
  BY <1>1, <1>3 DEF missing
<1> QED
  BY <1>2, <1>3, <1>4

(* A finite set of numbers can be listed in ascending order. *)
LEMMA AscendingListing ==
    ASSUME NEW S, S \subseteq Int, IsFiniteSet(S)
    PROVE  \E s \in [1..Cardinality(S) -> S] :
             /\ \A i, j \in DOMAIN s : i < j => s[i] < s[j]
             /\ \A x \in S : \E i \in DOMAIN s : s[i] = x
<1> DEFINE n == Cardinality(S)
           below(x) == {y \in S : y < x}
           f == [x \in S |-> Cardinality(below(x)) + 1]
<1>1. n \in Nat
  BY FS_CardinalityType
<1>2. \A x \in S : IsFiniteSet(below(x)) /\ Cardinality(below(x)) \in Nat
  <2> SUFFICES ASSUME NEW x \in S
               PROVE  IsFiniteSet(below(x)) /\ Cardinality(below(x)) \in Nat
    OBVIOUS
  <2>1. below(x) \in SUBSET S
    OBVIOUS
  <2>2. IsFiniteSet(below(x))
    BY <2>1, FS_Subset
  <2> QED
    BY <2>2, FS_CardinalityType
<1>3. \A x, y \in S : x < y => f[x] < f[y]
  <2> SUFFICES ASSUME NEW x \in S, NEW y \in S, x < y
               PROVE  f[x] < f[y]
    OBVIOUS
  <2>0. x \in Int /\ y \in Int /\ \A z \in S : z \in Int
    OBVIOUS
  <2>1. below(x) \cup {x} \in SUBSET below(y) /\ x \notin below(x)
    <3>1. \A z \in below(x) : z \in S /\ z < y /\ z # x
      BY <2>0
    <3>2. \A z \in below(x) : z \in below(y)
      BY <3>1
    <3>3. x \in below(y)
      OBVIOUS
    <3> HIDE DEF below
    <3> QED
      BY <3>1, <3>2, <3>3
  <2>2. Cardinality(below(x) \cup {x}) = Cardinality(below(x)) + 1
    BY <1>2, <2>1, FS_AddElement
  <2>3. Cardinality(below(x) \cup {x}) <= Cardinality(below(y))
    BY <1>2, <2>1, FS_Subset
  <2>4. f[x] = Cardinality(below(x)) + 1 /\ f[y] = Cardinality(below(y)) + 1
    OBVIOUS
  <2>5. Cardinality(below(x)) \in Nat /\ Cardinality(below(y)) \in Nat
    BY <1>2
  <2> HIDE DEF below, f
  <2> QED
    BY <2>2, <2>3, <2>4, <2>5
<1>4. \A x \in S : f[x] \in 1..n
  <2> SUFFICES ASSUME NEW x \in S
               PROVE  f[x] \in 1..n
    OBVIOUS
  <2>1. below(x) \cup {x} \in SUBSET S /\ x \notin below(x)
    OBVIOUS
  <2>2. Cardinality(below(x) \cup {x}) = Cardinality(below(x)) + 1
    BY <1>2, <2>1, FS_AddElement
  <2>3. Cardinality(below(x) \cup {x}) <= n
    BY <2>1, FS_Subset
  <2>4. f[x] = Cardinality(below(x)) + 1
    OBVIOUS
  <2>5. Cardinality(below(x)) \in Nat
    BY <1>2
  <2> HIDE DEF below, f
  <2> QED
    BY <1>1, <2>2, <2>3, <2>4, <2>5
<1>5. f \in [S -> 1..n]
  BY <1>4
<1> HIDE DEF f, n
<1>6. \A x, y \in S : f[x] = f[y] => x = y
  <2> SUFFICES ASSUME NEW x \in S, NEW y \in S, f[x] = f[y], x # y
               PROVE  FALSE
    OBVIOUS
  <2>1. x < y \/ y < x
    OBVIOUS
  <2>2. f[x] < f[y] \/ f[y] < f[x]
    BY <1>3, <2>1
  <2>3. f[x] \in Int /\ f[y] \in Int
    BY <1>4, <1>1
  <2> QED
    BY <2>2, <2>3
<1>7. f \in Injection(S, 1..n)
  BY <1>5, <1>6 DEF Injection, IsInjective
<1>8. IsFiniteSet(1..n) /\ Cardinality(1..n) = n
  BY <1>1, FS_Interval
<1>9. f \in Surjection(S, 1..n)
  BY <1>7, <1>8, FS_Injection DEF n
<1>10. \A i \in 1..n : \E x \in S : f[x] = i
  BY <1>9 DEF Surjection
<1> DEFINE s == [i \in 1..n |-> CHOOSE x \in S : f[x] = i]
<1>11. \A i \in 1..n : s[i] \in S /\ f[s[i]] = i
  BY <1>10
<1> HIDE DEF s
<1>12. s \in [1..n -> S] /\ DOMAIN s = 1..n
  BY <1>11 DEF s
<1>13. \A i, j \in 1..n : i < j => s[i] < s[j]
  <2> SUFFICES ASSUME NEW i \in 1..n, NEW j \in 1..n, i < j, ~(s[i] < s[j])
               PROVE  FALSE
    OBVIOUS
  <2>1. s[i] \in S /\ s[j] \in S /\ f[s[i]] = i /\ f[s[j]] = j
    BY <1>11
  <2>0. s[i] \in Int /\ s[j] \in Int
    BY <2>1
  <2>2. s[j] < s[i] \/ s[j] = s[i]
    BY <2>0
  <2>3. j < i \/ i = j
    BY <1>3, <2>1, <2>2
  <2> QED
    BY <1>1, <2>3
<1>14. \A x \in S : f[x] \in 1..n /\ s[f[x]] = x
  BY <1>4, <1>6, <1>11
<1>15. \A x \in S : \E i \in 1..n : s[i] = x
  BY <1>14
<1> QED
  BY <1>12, <1>13, <1>15 DEF n

(* A finite set of integers that is not empty has a largest. *)
LEMMA LargestOfFinite ==
    ASSUME NEW S, S \subseteq Int, S # {}, IsFiniteSet(S)
    PROVE  \E m \in S : \A x \in S : x <= m
<1> DEFINE n == Cardinality(S)
<1>1. n \in Nat /\ n # 0
  BY FS_CardinalityType, FS_EmptySet
<1>2. PICK s \in [1..n -> S] : /\ \A i, j \in DOMAIN s : i < j => s[i] < s[j]
                              /\ \A x \in S : \E i \in DOMAIN s : s[i] = x
  BY AscendingListing
<1> HIDE DEF n
<1>3. /\ DOMAIN s = 1..n /\ n \in 1..n /\ s[n] \in S
      /\ \A i \in 1..n : s[i] \in S
  BY <1>1, <1>2
<1>4. \A i \in 1..n : s[i] <= s[n]
  <2> SUFFICES ASSUME NEW i \in 1..n
               PROVE  s[i] <= s[n]
    OBVIOUS
  <2>1. i = n \/ i < n
    BY <1>1
  <2>2. s[i] \in Int /\ s[n] \in Int
    BY <1>3
  <2>3. s[i] = s[n] \/ s[i] < s[n]
    BY <1>2, <1>3, <2>1
  <2> QED
    BY <2>2, <2>3
<1> QED
  BY <1>2, <1>3, <1>4

(* A function takes finitely many values on a finite set. *)
LEMMA ImageIsFinite ==
    ASSUME NEW D, IsFiniteSet(D), NEW f
    PROVE  IsFiniteSet({f[x] : x \in D})
<1> DEFINE T == {f[x] : x \in D}
           g == [x \in D |-> f[x]]
<1>1. g \in [D -> T] /\ \A t \in T : \E x \in D : g[x] = t
  OBVIOUS
<1> HIDE DEF g, T
<1>2. g \in Surjection(D, T)
  BY <1>1 DEF Surjection
<1>3. IsFiniteSet(T)
  BY <1>2, FS_Surjection
<1> QED
  BY <1>3 DEF T

(* What is numbered anew, each under a number of its own, is as many. *)
LEMMA Relabelled ==
    ASSUME NEW S, IsFiniteSet(S), NEW T, NEW f, f \in [S -> T],
           \A x, y \in S : f[x] = f[y] => x = y,
           \A t \in T : \E x \in S : f[x] = t
    PROVE  IsFiniteSet(T) /\ Cardinality(T) = Cardinality(S)
<1>1. f \in Surjection(S, T) /\ f \in Injection(S, T)
  BY DEF Surjection, Injection, IsInjective
<1> QED
  BY <1>1, FS_Surjection

(* Terms that add up to nothing are not all negative. *)
LEMMA NotAllNegative ==
    ASSUME NEW k \in Nat, NEW w, NEW s,
           w \in [0..k -> Int], s \in [0..k -> Int],
           s[0] = w[0], \A n \in 0..k : n < k => s[n + 1] = s[n] + w[n + 1],
           s[k] = 0,
           NEW active, active \subseteq 0..k, active # {},
           \A n \in (0..k) \ active : w[n] = 0
    PROVE  \E n \in active : w[n] >= 0
<1> SUFFICES ASSUME \A n \in active : w[n] < 0
             PROVE  FALSE
  <2>1. \A n \in active : w[n] \in Int
    OBVIOUS
  <2> QED
    BY <2>1
<1> DEFINE T == {n \in 0..k : s[n] < 0 \/ (s[n] = 0 /\ \A m \in 0..n : m \notin active)}
<1>1. 0 \in T
  <2>1. 0 \in 0..k /\ 0..0 = {0}
    OBVIOUS
  <2>2. CASE 0 \in active
    BY <2>1, <2>2
  <2>3. CASE 0 \notin active
    BY <2>1, <2>3
  <2> QED
    BY <2>2, <2>3
<1>2. \A n \in 0..k : n < k /\ n \in T => n + 1 \in T
  <2> SUFFICES ASSUME NEW n \in 0..k, n < k, n \in T
               PROVE  n + 1 \in T
    OBVIOUS
  <2>1. /\ n + 1 \in 0..k /\ s[n + 1] = s[n] + w[n + 1]
        /\ s[n] \in Int /\ w[n + 1] \in Int
    OBVIOUS
  <2>2. CASE n + 1 \in active
    BY <2>1, <2>2
  <2>3. CASE n + 1 \notin active
    <3>1. s[n + 1] = s[n]
      BY <2>1, <2>3
    <3>2. \A m \in 0..(n + 1) : m \in 0..n \/ m = n + 1
      OBVIOUS
    <3> QED
      BY <2>1, <2>3, <3>1, <3>2
  <2> QED
    BY <2>2, <2>3
<1> HIDE DEF T
<1>3. k \in 0..k
  OBVIOUS
<1>4. k \in T
  BY <1>1, <1>2, <1>3, CountingUp
<1>5. \A m \in 0..k : m \notin active
  <2>1. ~(s[k] < 0)
    OBVIOUS
  <2> QED
    BY <1>4, <2>1 DEF T
<1> QED
  BY <1>5

(* ... nor all positive. *)
LEMMA NotAllPositive ==
    ASSUME NEW k \in Nat, NEW w, NEW s,
           w \in [0..k -> Int], s \in [0..k -> Int],
           s[0] = w[0], \A n \in 0..k : n < k => s[n + 1] = s[n] + w[n + 1],
           s[k] = 0,
           NEW active, active \subseteq 0..k, active # {},
           \A n \in (0..k) \ active : w[n] = 0
    PROVE  \E n \in active : w[n] <= 0
<1> DEFINE v == [n \in 0..k |-> -w[n]]
           t == [n \in 0..k |-> -s[n]]
<1>1. \A n \in 0..k : v[n] = -w[n] /\ t[n] = -s[n] /\ w[n] \in Int /\ s[n] \in Int
  OBVIOUS
<1>2. v \in [0..k -> Int] /\ t \in [0..k -> Int]
  BY <1>1
<1> HIDE DEF v, t
<1>3. 0 \in 0..k /\ k \in 0..k /\ \A n \in 0..k : n < k => n + 1 \in 0..k
  OBVIOUS
<1>4. t[0] = v[0] /\ t[k] = 0
  BY <1>1, <1>3
<1>5. \A n \in 0..k : n < k => t[n + 1] = t[n] + v[n + 1]
  BY <1>1, <1>3
<1>6. \A n \in (0..k) \ active : v[n] = 0
  BY <1>1
<1>7. PICK n \in active : v[n] >= 0
  BY <1>2, <1>4, <1>5, <1>6, NotAllNegative
<1> QED
  BY <1>1, <1>7

(* There is a function that is defined by itself in this way: the running
   totals of finitely many numbers. *)
LEMMA TotalsExist ==
    ASSUME NEW n \in Nat, NEW g \in [1..n -> Nat]
    PROVE  \E t \in [0..n -> Nat] :
             t = [m \in 0..n |-> IF m = 0 THEN 0 ELSE t[m - 1] + g[m]]
<1> DEFINE Totals(k) == {t \in [0..k -> Nat] : t[0] = 0 /\ \A m \in 1..k : t[m] = t[m - 1] + g[m]}
           T == {k \in 0..n : Totals(k) # {}}
<1>1. 0 \in T
  <2>1. [m \in 0..0 |-> 0] \in Totals(0)
    OBVIOUS
  <2> QED
    BY <2>1
<1>2. ASSUME NEW k \in 0..n, k < n, k \in T
      PROVE  k + 1 \in T
  <2>1. PICK t \in [0..k -> Nat] : t[0] = 0 /\ \A m \in 1..k : t[m] = t[m - 1] + g[m]
    BY <1>2
  <2> DEFINE u == [m \in 0..(k + 1) |-> IF m <= k THEN t[m] ELSE t[k] + g[k + 1]]
  <2>2. k \in Nat /\ k + 1 \in 1..n /\ k + 1 \in 0..n /\ k \in 0..k /\ 0 \in 0..k
    BY <1>2
  <2>3. t[k] \in Nat /\ g[k + 1] \in Nat /\ t[k] + g[k + 1] \in Nat
    BY <2>1, <2>2
  <2>4. \A m \in 0..k : u[m] = t[m]
    OBVIOUS
  <2>5. u[k + 1] = t[k] + g[k + 1]
    BY <2>2
  <2>6. u \in [0..(k + 1) -> Nat]
    BY <2>1, <2>3
  <2> HIDE DEF u
  <2>7. ASSUME NEW m \in 1..(k + 1)
        PROVE  u[m] = u[m - 1] + g[m]
    <3>1. m - 1 \in 0..k
      BY <2>2
    <3>2. CASE m <= k
      <4>1. m \in 1..k /\ m \in 0..k
        BY <2>2, <3>2
      <4> QED
        BY <2>1, <2>4, <3>1, <4>1
    <3>3. CASE ~(m <= k)
      <4>1. m = k + 1 /\ m - 1 = k
        BY <2>2, <3>3
      <4> QED
        BY <2>2, <2>4, <2>5, <4>1
    <3> QED
      BY <3>2, <3>3
  <2>8. u[0] = 0
    BY <2>1, <2>2, <2>4
  <2>9. u \in Totals(k + 1)
    BY <2>6, <2>7, <2>8
  <2> HIDE DEF Totals
  <2> QED
    BY <2>2, <2>9
<1>3. n \in T
  <2>1. n \in 0..n
    OBVIOUS
  <2> HIDE DEF T
  <2> QED
    BY <1>1, <1>2, <2>1, CountingUp
<1>4. PICK t \in [0..n -> Nat] : t[0] = 0 /\ \A m \in 1..n : t[m] = t[m - 1] + g[m]
  BY <1>3
<1>5. \A m \in 0..n : t[m] = IF m = 0 THEN 0 ELSE t[m - 1] + g[m]
  <2>1. \A m \in 0..n : m # 0 => m \in 1..n
    OBVIOUS
  <2> QED
    BY <1>4, <2>1
<1>6. t = [m \in 0..n |-> t[m]]
  OBVIOUS
<1> QED
  BY <1>5, <1>6
=============================================================================
