-------------------------- MODULE RankFusionProofs --------------------------
(***************************************************************************)
(* The promise of src/search/fusion.py for every rrf_k and every candidate *)
(* pool that fits it, every corpus and every pair of rankings.             *)
(***************************************************************************)
EXTENDS RankFusion, FiniteSetTheorems, TLAPS

(* The arithmetic behind the promise: 1/a + 1/b > 1/c when neither a nor b is
   as large as 2c. *)
LEMMA TwoBeatOne ==
    ASSUME NEW a \in Nat \ {0}, NEW b \in Nat \ {0}, NEW c \in Nat,
           a + 1 <= 2 * c, b + 1 <= 2 * c
    PROVE  a * b < (b + a) * c
<1> DEFINE e == 2 * c
<1>1. e \in Nat /\ b + 1 <= e /\ a + 1 <= e
  OBVIOUS
<1>2. a * (b + 1) <= a * e
  <2>1. \A x, y, z \in Nat : x <= y => z * x <= z * y
    BY Z3
  <2> HIDE DEF e
  <2> QED
    BY <1>1, <2>1
<1>3. b * (a + 1) <= b * e
  <2>1. \A x, y, z \in Nat : x <= y => z * x <= z * y
    BY Z3
  <2> HIDE DEF e
  <2> QED
    BY <1>1, <2>1
<1>4. a * (b + 1) = a * b + a /\ b * (a + 1) = a * b + b
  BY Z3
<1>5. a * e = 2 * (a * c) /\ b * e = 2 * (b * c) /\ (b + a) * c = a * c + b * c
  BY Z3
<1>6. a * b \in Nat /\ a * c \in Nat /\ b * c \in Nat /\ a * e \in Nat /\ b * e \in Nat
  BY Z3
<1> HIDE DEF e
<1> QED
  BY <1>2, <1>3, <1>4, <1>5, <1>6

(* Ranks come from a pool this small. *)
LEMMA RanksFit ==
    ASSUME FusionAssumption, PoolAssumption,
           NEW i \in 1..Pool, NEW j \in 1..Pool, NEW k \in 1..Pool
    PROVE  (RrfK + i) * (RrfK + j) < ((RrfK + j) + (RrfK + i)) * (RrfK + k)
<1>1. /\ RrfK + i \in Nat \ {0} /\ RrfK + j \in Nat \ {0} /\ RrfK + k \in Nat
      /\ (RrfK + i) + 1 <= 2 * (RrfK + k) /\ (RrfK + j) + 1 <= 2 * (RrfK + k)
  BY DEF FusionAssumption, PoolAssumption
<1> QED
  BY <1>1, TwoBeatOne

(* Once the lists are merged, whatever both backends found has the larger
   score. *)
LEMMA BothScoreHigher ==
    ASSUME ListsAreRankings, ScoresAreSums, stage = "collapse",
           NEW d \in Docs, NEW e \in Docs, InBoth(d), InOne(e)
    PROVE  /\ d \in DOMAIN merged /\ e \in DOMAIN merged
           /\ Less(merged[e].score, merged[d].score)
           /\ ~Less(merged[d].score, merged[e].score)
<1>1. Seen(1) = DOMAIN lists[1] /\ Seen(2) = DOMAIN lists[2]
  BY DEF Seen
<1>2. PICK i \in DOMAIN lists[1] : lists[1][i] = d
  BY DEF InBoth, FoundBy, Backends
<1>3. PICK j \in DOMAIN lists[2] : lists[2][j] = d
  BY DEF InBoth, FoundBy, Backends
<1>4. merged[d].score = <<(RrfK + j) + (RrfK + i), (RrfK + i) * (RrfK + j)>>
  BY <1>1, <1>2, <1>3 DEF ScoresAreSums
<1>5. PICK r \in Backends : FoundBy(e, r)
  BY DEF InOne
<1>6. PICK k \in DOMAIN lists[r] : lists[r][k] = e
  BY <1>5 DEF FoundBy
<1>7. merged[e].score = <<1, RrfK + k>>
  <2>1. CASE r = 1
    <3>1. \A x \in DOMAIN lists[2] : lists[2][x] # e
      BY <2>1, <1>5 DEF InOne, InBoth, FoundBy, Backends
    <3> QED
      BY <1>1, <1>6, <2>1, <3>1 DEF ScoresAreSums
  <2>2. CASE r = 2
    <3>1. \A x \in DOMAIN lists[1] : lists[1][x] # e
      BY <2>2, <1>5 DEF InOne, InBoth, FoundBy, Backends
    <3> QED
      BY <1>1, <1>6, <2>2, <3>1 DEF ScoresAreSums
  <2> QED
    BY <2>1, <2>2 DEF Backends
<1>8. i \in 1..Pool /\ j \in 1..Pool /\ k \in 1..Pool
  BY <1>2, <1>3, <1>6, FusionAssumption DEF ListsAreRankings, Backends, FusionAssumption
<1>9. (RrfK + i) * (RrfK + j) < ((RrfK + j) + (RrfK + i)) * (RrfK + k)
  BY <1>8, RanksFit, FusionAssumption, PoolAssumption
<1>10. d \in DOMAIN merged /\ e \in DOMAIN merged
  BY <1>1, <1>2, <1>5, <1>6 DEF ScoresAreSums, Backends
<1> DEFINE num == (RrfK + j) + (RrfK + i)
           den == (RrfK + i) * (RrfK + j)
           c == RrfK + k
<1>11. num \in Nat /\ den \in Nat /\ c \in Nat
  BY <1>8, FusionAssumption DEF FusionAssumption
<1>12. den < num * c /\ merged[d].score = <<num, den>> /\ merged[e].score = <<1, c>>
  BY <1>4, <1>7, <1>9
<1> HIDE DEF num, den, c
<1>13. num * c \in Nat /\ 1 * den = den
  BY <1>11, Z3
<1>14. ~(num * c < den)
  BY <1>11, <1>12, <1>13
<1> QED
  BY <1>10, <1>12, <1>13, <1>14 DEF Less

LEMMA BothComeBefore ==
    ASSUME ListsAreRankings, ScoresAreSums, stage = "collapse",
           NEW d \in Docs, NEW e \in Docs, InBoth(d), InOne(e)
    PROVE  Before(d, e) /\ ~Before(e, d)
BY BothScoreHigher DEF Before

(* Documents that were merged were found. *)
LEMMA MergedWereFound ==
    ASSUME ListsAreRankings, ScoresAreSums, stage = "collapse"
    PROVE  /\ \A d \in DOMAIN merged : d \in Docs /\ (InBoth(d) \/ InOne(d))
           /\ \A d \in Docs : InBoth(d) => d \in DOMAIN merged
<1>1. \A r \in Backends : Seen(r) = DOMAIN lists[r]
  BY DEF Seen
<1> QED
  BY <1>1 DEF ScoresAreSums, InOne, InBoth, FoundBy, Backends

(* What _Merged.add does to the score the first and the second time. *)
LEMMA AddedScores ==
    ASSUME NEW entry, NEW r, NEW rank \in Nat, NEW i \in Nat, RrfK \in Nat
    PROVE  /\ Added(NoEntry, r, rank).score = <<1, RrfK + rank>>
           /\ entry.score = <<1, RrfK + i>> =>
                Added(entry, r, rank).score =
                    <<(RrfK + rank) + (RrfK + i), (RrfK + i) * (RrfK + rank)>>
<1> DEFINE n == RrfK + rank
           m == RrfK + i
<1>1. n \in Nat /\ m \in Nat
  OBVIOUS
<1>2. Added(NoEntry, r, rank).score = Plus(<<0, 1>>, n)
  BY DEF Added, NoEntry
<1>3. Added(entry, r, rank).score = Plus(entry.score, n)
  BY DEF Added
<1> HIDE DEF n, m
<1>4. 0 * n + 1 = 1 /\ 1 * n = n /\ 1 * n + m = n + m
  BY <1>1, Z3
<1>5. Plus(<<0, 1>>, n) = <<1, n>> /\ Plus(<<1, m>>, n) = <<n + m, m * n>>
  BY <1>4 DEF Plus
<1>6. Added(NoEntry, r, rank).score = <<1, n>>
  BY <1>2, <1>5
<1>7. entry.score = <<1, m>> => Added(entry, r, rank).score = <<n + m, m * n>>
  BY <1>3, <1>5
<1> QED
  BY <1>6, <1>7 DEF n, m

(* A turn of the loop sees one more rank. *)
LEMMA MergeSeesOneMore ==
    ASSUME ListsAreRankings, MergesInOrder, Merge
    PROVE  /\ at[1] \in Backends /\ at[2] \in Nat \ {0}
           /\ at[2] \in DOMAIN lists[at[1]] /\ at[2] \notin Seen(at[1])
           /\ \A r \in Backends :
                Seen(r)' = IF r = at[1] THEN Seen(r) \cup {at[2]} ELSE Seen(r)
           /\ at[1] = 1 => Seen(2) = {}
           /\ at[1] = 2 => Seen(1) = DOMAIN lists[1]
           /\ \A r \in Backends : Seen(r) \subseteq DOMAIN lists[r]
<1>1. stage = "merge" /\ stage' = "merge" /\ lists' = lists
  BY DEF Merge, fusionInputs
<1>2. /\ at[1] \in Backends /\ at[2] \in Nat \ {0}
      /\ at[2] \in DOMAIN lists[at[1]]
      /\ at'[1] = at[1] /\ at'[2] = at[2] + 1
  BY <1>1 DEF Merge, MergesInOrder
<1>3. \A r \in Backends : r \in Nat
  BY DEF Backends
<1>4. Seen(at[1]) = 1..(at[2] - 1) /\ Seen(at[1])' = 1..((at[2] + 1) - 1)
  BY <1>1, <1>2, <1>3 DEF Seen
<1>5. /\ 1..((at[2] + 1) - 1) = 1..(at[2] - 1) \cup {at[2]}
      /\ at[2] \notin 1..(at[2] - 1)
  BY <1>2
<1>6. \A r \in Backends : r # at[1] => Seen(r)' = Seen(r)
  BY <1>1, <1>2, <1>3 DEF Seen
<1>7. /\ at[1] = 1 => Seen(2) = {}
      /\ at[1] = 2 => Seen(1) = DOMAIN lists[1]
  BY <1>1, <1>2 DEF Seen
<1>8. \A r \in Backends : Seen(r) \subseteq DOMAIN lists[r]
  BY <1>1, <1>2, <1>3, <1>4 DEF Seen, MergesInOrder
<1> QED
  BY <1>2, <1>4, <1>5, <1>6, <1>7, <1>8

LEMMA MergeKeepsScores ==
    ASSUME FusionAssumption, ListsAreRankings, MergesInOrder, ScoresAreSums, Merge
    PROVE  ScoresAreSums'
<1> DEFINE r == at[1]
           rank == at[2]
           d == lists[r][rank]
<1>1. /\ r \in Backends /\ rank \in Nat /\ rank \in DOMAIN lists[r] /\ rank \notin Seen(r)
      /\ \A x \in Backends : Seen(x)' = IF x = r THEN Seen(x) \cup {rank} ELSE Seen(x)
      /\ r = 1 => Seen(2) = {}
      /\ r = 2 => Seen(1) = DOMAIN lists[1]
      /\ \A x \in Backends : Seen(x) \subseteq DOMAIN lists[x]
  BY MergeSeesOneMore
<1>2. /\ lists' = lists
      /\ merged' = [x \in DOMAIN merged \cup {d} |->
                       IF x # d THEN merged[x]
                       ELSE Added(IF d \in DOMAIN merged THEN merged[d] ELSE NoEntry, r, rank)]
  BY DEF Merge, fusionInputs
<1>3. d \in Docs
  BY <1>1 DEF ListsAreRankings
<1>4. \A i \in Seen(r) : lists[r][i] # d
  BY <1>1 DEF ListsAreRankings
<1>5. /\ DOMAIN merged' = DOMAIN merged \cup {d}
      /\ \A x \in DOMAIN merged : x # d => merged'[x] = merged[x]
      /\ d \notin DOMAIN merged => merged'[d] = Added(NoEntry, r, rank)
      /\ d \in DOMAIN merged => merged'[d] = Added(merged[d], r, rank)
  BY <1>2
<1> DEFINE Has(x) == \E q \in Backends : \E i \in Seen(q) : lists[q][i] = x
           Has1(x) == \E q \in Backends : \E i \in Seen(q)' : lists'[q][i] = x
<1>6. DOMAIN merged = {x \in Docs : Has(x)}
  BY DEF ScoresAreSums
<1>7. DOMAIN merged' = {x \in Docs : Has1(x)}
  <2>1. \A x : Has1(x) <=> Has(x) \/ x = d
    BY <1>1, <1>2
  <2> HIDE DEF Has, Has1, d
  <2> QED
    BY <1>3, <1>5, <1>6, <2>1
<1>8. RrfK \in Nat
  BY FusionAssumption DEF FusionAssumption
<1>9. \A q \in Backends : \A i \in Seen(q) :
        i \in Nat /\ lists[q][i] \in Docs /\ lists[q][i] \in DOMAIN merged
  <2> SUFFICES ASSUME NEW q \in Backends, NEW i \in Seen(q)
               PROVE  i \in Nat /\ lists[q][i] \in Docs /\ lists[q][i] \in DOMAIN merged
    OBVIOUS
  <2>1. i \in DOMAIN lists[q]
    BY <1>1
  <2>2. PICK k \in 0..Pool : lists[q] \in [1..k -> Docs]
    BY DEF ListsAreRankings
  <2>3. Pool \in Nat
    BY FusionAssumption DEF FusionAssumption
  <2> QED
    BY <1>6, <2>1, <2>2, <2>3
<1>10. r = 1 \/ r = 2
  BY <1>1 DEF Backends
<1>11. 1 \in Backends /\ 2 \in Backends
  BY DEF Backends
<1>12. \A i \in Seen(1)' :
          (\A j \in Seen(2)' : lists[2][j] # lists[1][i]) =>
              merged'[lists[1][i]].score = <<1, RrfK + i>>
  <2> SUFFICES ASSUME NEW i \in Seen(1)', \A j \in Seen(2)' : lists[2][j] # lists[1][i]
               PROVE  merged'[lists[1][i]].score = <<1, RrfK + i>>
    OBVIOUS
  <2>1. CASE i \in Seen(1)
    <3>1. lists[1][i] # d
      BY <1>1, <1>4, <1>10, <1>11, <2>1
    <3>2. merged[lists[1][i]].score = <<1, RrfK + i>>
      <4>1. \A j \in Seen(2) : lists[2][j] # lists[1][i]
        BY <1>1, <1>11
      <4> QED
        BY <2>1, <4>1 DEF ScoresAreSums
    <3> QED
      BY <1>5, <1>9, <1>11, <2>1, <3>1, <3>2
  <2>2. CASE i \notin Seen(1)
    <3>1. r = 1 /\ i = rank /\ lists[1][i] = d
      BY <1>1, <1>10, <1>11, <2>2
    <3>2. d \notin DOMAIN merged
      BY <1>1, <1>4, <1>6, <3>1 DEF Backends
    <3>3. Added(NoEntry, r, rank).score = <<1, RrfK + rank>>
      BY <1>1, <1>8, AddedScores
    <3> QED
      BY <1>5, <3>1, <3>2, <3>3
  <2> QED
    BY <2>1, <2>2
<1>13. \A j \in Seen(2)' :
          (\A i \in Seen(1)' : lists[1][i] # lists[2][j]) =>
              merged'[lists[2][j]].score = <<1, RrfK + j>>
  <2> SUFFICES ASSUME NEW j \in Seen(2)', \A i \in Seen(1)' : lists[1][i] # lists[2][j]
               PROVE  merged'[lists[2][j]].score = <<1, RrfK + j>>
    OBVIOUS
  <2>0. r = 2
    BY <1>1, <1>10, <1>11
  <2>1. CASE j \in Seen(2)
    <3>1. lists[2][j] # d
      BY <1>4, <2>0, <2>1
    <3>2. merged[lists[2][j]].score = <<1, RrfK + j>>
      <4>1. \A i \in Seen(1) : lists[1][i] # lists[2][j]
        BY <1>1, <1>11
      <4> QED
        BY <2>1, <4>1 DEF ScoresAreSums
    <3> QED
      BY <1>5, <1>9, <1>11, <2>1, <3>1, <3>2
  <2>2. CASE j \notin Seen(2)
    <3>1. j = rank /\ lists[2][j] = d
      BY <1>1, <2>0, <2>2
    <3>2. d \notin DOMAIN merged
      BY <1>1, <1>4, <1>6, <1>11, <2>0, <3>1 DEF Backends
    <3>3. Added(NoEntry, r, rank).score = <<1, RrfK + rank>>
      BY <1>1, <1>8, AddedScores
    <3> QED
      BY <1>5, <3>1, <3>2, <3>3
  <2> QED
    BY <2>1, <2>2
<1>14. \A i \in Seen(1)', j \in Seen(2)' :
          lists[1][i] = lists[2][j] =>
              merged'[lists[1][i]].score = <<(RrfK + j) + (RrfK + i), (RrfK + i) * (RrfK + j)>>
  <2> SUFFICES ASSUME NEW i \in Seen(1)', NEW j \in Seen(2)', lists[1][i] = lists[2][j]
               PROVE  merged'[lists[1][i]].score
                        = <<(RrfK + j) + (RrfK + i), (RrfK + i) * (RrfK + j)>>
    OBVIOUS
  <2>0. r = 2 /\ i \in Seen(1)
    BY <1>1, <1>10, <1>11
  <2>1. CASE j \in Seen(2)
    <3>1. lists[1][i] # d
      BY <1>4, <2>0, <2>1
    <3>2. merged[lists[1][i]].score = <<(RrfK + j) + (RrfK + i), (RrfK + i) * (RrfK + j)>>
      BY <2>0, <2>1 DEF ScoresAreSums
    <3> QED
      BY <1>5, <1>9, <1>11, <2>0, <3>1, <3>2
  <2>2. CASE j \notin Seen(2)
    <3>1. j = rank /\ lists[1][i] = d
      BY <1>1, <2>0, <2>2
    <3>2. d \in DOMAIN merged
      BY <1>9, <1>11, <2>0, <3>1
    <3>3. merged[d].score = <<1, RrfK + i>>
      BY <1>4, <2>0, <3>1 DEF ScoresAreSums
    <3>4. i \in Nat /\ rank \in Nat
      BY <1>1, <1>9, <1>11, <2>0
    <3> DEFINE entry == merged[d]
    <3>5. entry.score = <<1, RrfK + i>>
      BY <3>3
    <3> HIDE DEF d, r, rank, entry
    <3>6. Added(entry, r, rank).score
            = <<(RrfK + rank) + (RrfK + i), (RrfK + i) * (RrfK + rank)>>
      BY <1>8, <3>4, <3>5, AddedScores, Zenon
    <3> QED
      BY <1>5, <3>1, <3>2, <3>6, Zenon DEF entry
  <2> QED
    BY <2>1, <2>2
<1>15. lists' = lists
  BY <1>2
<1> HIDE DEF r, rank, d
<1>16. \A i \in Seen(1)' :
          (\A j \in Seen(2)' : lists'[2][j] # lists'[1][i]) =>
              merged'[lists'[1][i]].score = <<1, RrfK + i>>
  BY <1>12, <1>15, Zenon
<1>17. \A j \in Seen(2)' :
          (\A i \in Seen(1)' : lists'[1][i] # lists'[2][j]) =>
              merged'[lists'[2][j]].score = <<1, RrfK + j>>
  BY <1>13, <1>15, Zenon
<1>18. \A i \in Seen(1)', j \in Seen(2)' :
          lists'[1][i] = lists'[2][j] =>
              merged'[lists'[1][i]].score = <<(RrfK + j) + (RrfK + i), (RrfK + i) * (RrfK + j)>>
  BY <1>14, <1>15, Zenon
<1> QED
  BY <1>7, <1>16, <1>17, <1>18, Zenon DEF ScoresAreSums

(* The loops end when everything is seen. *)
LEMMA ListIsSeen ==
    ASSUME FusionAssumption, ListsAreRankings, MergesInOrder, stage = "merge",
           at[2] \notin DOMAIN lists[at[1]]
    PROVE  Seen(at[1]) = DOMAIN lists[at[1]]
<1>1. at[1] \in Backends /\ at[2] \in Nat \ {0} /\ 1..(at[2] - 1) \subseteq DOMAIN lists[at[1]]
  BY DEF MergesInOrder
<1>2. PICK k \in 0..Pool : lists[at[1]] \in [1..k -> Docs]
  BY <1>1 DEF ListsAreRankings
<1>3. DOMAIN lists[at[1]] = 1..k /\ k \in Nat
  BY <1>2, FusionAssumption DEF FusionAssumption
<1>4. Seen(at[1]) = 1..(at[2] - 1)
  BY <1>1 DEF Seen, Backends
<1>5. k <= at[2] - 1
  BY <1>1, <1>3
<1>6. 1..k \subseteq 1..(at[2] - 1)
  BY <1>1, <1>3, <1>5
<1>7. 1..(at[2] - 1) \subseteq 1..k
  BY <1>1, <1>3
<1> QED
  BY <1>3, <1>4, <1>6, <1>7, Zenon

LEMMA ScoresStay ==
    ASSUME ScoresAreSums, lists' = lists, merged' = merged,
           \A r \in Backends : Seen(r)' = Seen(r)
    PROVE  ScoresAreSums'
<1>1. Seen(1)' = Seen(1) /\ Seen(2)' = Seen(2)
  BY DEF Backends
<1>2. DOMAIN merged' = {d \in Docs : \E r \in Backends : \E i \in Seen(r)' : lists'[r][i] = d}
  <2>1. \A d : (\E r \in Backends : \E i \in Seen(r)' : lists'[r][i] = d)
             <=> (\E r \in Backends : \E i \in Seen(r) : lists[r][i] = d)
    OBVIOUS
  <2>2. DOMAIN merged = {d \in Docs : \E r \in Backends : \E i \in Seen(r) : lists[r][i] = d}
    BY DEF ScoresAreSums
  <2> QED
    BY <2>1, <2>2
<1>3. \A i \in Seen(1)' :
          (\A j \in Seen(2)' : lists'[2][j] # lists'[1][i]) =>
              merged'[lists'[1][i]].score = <<1, RrfK + i>>
  BY <1>1, Zenon DEF ScoresAreSums
<1>4. \A j \in Seen(2)' :
          (\A i \in Seen(1)' : lists'[1][i] # lists'[2][j]) =>
              merged'[lists'[2][j]].score = <<1, RrfK + j>>
  BY <1>1, Zenon DEF ScoresAreSums
<1>5. \A i \in Seen(1)', j \in Seen(2)' :
          lists'[1][i] = lists'[2][j] =>
              merged'[lists'[1][i]].score = <<(RrfK + j) + (RrfK + i), (RrfK + i) * (RrfK + j)>>
  BY <1>1, Zenon DEF ScoresAreSums
<1> QED
  BY <1>2, <1>3, <1>4, <1>5, Zenon DEF ScoresAreSums

(* What the sort starts from is finite. *)
LEMMA KeptIsFinite ==
    ASSUME FusionAssumption, ListsAreRankings, ScoresAreSums, BothAreKept, stage = "collapse"
    PROVE  Cardinality(kept) \in Nat
<1>1. \A r \in Backends : Seen(r) = DOMAIN lists[r]
  BY DEF Seen
<1>2. \A r \in Backends : IsFiniteSet({lists[r][i] : i \in DOMAIN lists[r]})
  <2> SUFFICES ASSUME NEW r \in Backends
               PROVE  IsFiniteSet({lists[r][i] : i \in DOMAIN lists[r]})
    OBVIOUS
  <2>1. PICK k \in 0..Pool : lists[r] \in [1..k -> Docs]
    BY DEF ListsAreRankings
  <2> DEFINE ran == {lists[r][i] : i \in 1..k}
  <2>2. k \in Nat /\ DOMAIN lists[r] = 1..k
    BY <2>1, FusionAssumption DEF FusionAssumption
  <2>3. IsFiniteSet(1..k)
    BY <2>2, FS_Interval
  <2>4. lists[r] \in Surjection(1..k, ran)
    BY <2>1, <2>2 DEF Surjection
  <2>5. IsFiniteSet(ran)
    BY <2>3, <2>4, FS_Surjection
  <2> QED
    BY <2>2, <2>5
<1>3. kept \subseteq {lists[1][i] : i \in DOMAIN lists[1]} \cup {lists[2][i] : i \in DOMAIN lists[2]}
  BY <1>1 DEF BothAreKept, ScoresAreSums, Backends
<1> DEFINE range(r) == {lists[r][i] : i \in DOMAIN lists[r]}
<1>4. IsFiniteSet(kept)
  <2>1. IsFiniteSet(range(1)) /\ IsFiniteSet(range(2))
    BY <1>2 DEF Backends
  <2>2. kept \subseteq range(1) \cup range(2)
    BY <1>3
  <2> HIDE DEF range
  <2>3. IsFiniteSet(range(1) \cup range(2))
    BY <2>1, FS_Union
  <2> QED
    BY <2>2, <2>3, FS_Subset
<1> QED
  BY <1>4, FS_CardinalityType


(* One turn of _collapse drops a document both found only for another one. *)
LEMMA CollapseKeepsBoth ==
    ASSUME ListsAreRankings, ScoresAreSums, BothAreKept, collapse, Collapse
    PROVE  BothAreKept'
<1>1. /\ stage = "collapse" /\ stage' = stage /\ merged' = merged
      /\ lists' = lists /\ canonical' = canonical /\ collapse' = collapse
  BY DEF Collapse, fusionInputs
<1>2. \A x : InBoth(x)' <=> InBoth(x)
  BY <1>1 DEF InBoth, FoundBy
<1>3. PICK d \in waiting :
        /\ waiting' = waiting \ {d}
        /\ LET same == {e \in kept : canonical[e] = canonical[d]}
           IN  kept' = IF \A e \in same : Before(d, e) THEN (kept \ same) \cup {d} ELSE kept
  BY DEF Collapse
<1> DEFINE same == {e \in kept : canonical[e] = canonical[d]}
           Survives(x, K) == \E e \in K : /\ InBoth(e)
                                          /\ e = x \/ canonical[e] = canonical[x]
<1>4. /\ kept \subseteq DOMAIN merged /\ waiting \subseteq DOMAIN merged
      /\ \A x \in DOMAIN merged \ waiting : InBoth(x) => Survives(x, kept)
  BY <1>1 DEF BothAreKept
<1>5. d \in DOMAIN merged /\ \A x \in DOMAIN merged : x \in Docs /\ (InBoth(x) \/ InOne(x))
  BY <1>1, <1>4, MergedWereFound
<1>6. \A x, y \in DOMAIN merged : InBoth(x) /\ ~InBoth(y) => Before(x, y) /\ ~Before(y, x)
  BY <1>1, <1>5, BothComeBefore
<1>7. \A x \in DOMAIN merged \ waiting' : InBoth(x) => Survives(x, kept')
  <2>1. CASE \A e \in same : Before(d, e)
    <3>1. kept' = (kept \ same) \cup {d}
      BY <1>3, <2>1
    <3>2. SUFFICES ASSUME NEW x \in DOMAIN merged \ waiting', InBoth(x)
                   PROVE  Survives(x, kept')
      OBVIOUS
    <3>3. CASE x = d
      BY <3>1, <3>2, <3>3
    <3>4. CASE x # d
      <4>1. PICK e \in kept : InBoth(e) /\ (e = x \/ canonical[e] = canonical[x])
        BY <1>3, <1>4, <3>2, <3>4
      <4>2. CASE e \notin same
        BY <3>1, <4>1, <4>2
      <4>3. CASE e \in same
        <5>1. InBoth(d)
          BY <1>4, <1>5, <1>6, <2>1, <4>1, <4>3
        <5>2. canonical[d] = canonical[x]
          BY <4>1, <4>3
        <5> QED
          BY <3>1, <5>1, <5>2
      <4> QED
        BY <4>2, <4>3
    <3> QED
      BY <3>3, <3>4
  <2>2. CASE ~(\A e \in same : Before(d, e))
    <3>1. kept' = kept
      BY <1>3, <2>2
    <3>2. PICK e \in same : ~Before(d, e)
      BY <2>2
    <3>3. InBoth(d) => InBoth(e)
      BY <1>4, <1>5, <1>6, <3>2
    <3> QED
      BY <1>3, <1>4, <3>1, <3>2, <3>3
  <2> QED
    BY <2>1, <2>2
<1>8. kept' \subseteq DOMAIN merged /\ waiting' \subseteq DOMAIN merged
  BY <1>3, <1>4
<1> QED
  BY <1>1, <1>2, <1>7, <1>8 DEF BothAreKept

(* Sorted and cut, the documents found by both stand above those found by
   one. *)
LEMMA RankOutranks ==
    ASSUME FusionAssumption, topK \in TopKs,
           ListsAreRankings, ScoresAreSums, BothAreKept, Rank
    PROVE  BothOutrankOne'
<1>1. /\ stage = "collapse" /\ waiting = {} /\ lists' = lists /\ canonical' = canonical
      /\ collapse' = collapse /\ topK \in Nat
  BY FusionAssumption DEF Rank, fusionInputs, FusionAssumption
<1>2. PICK s \in [1..Cardinality(kept) -> kept] :
        /\ kept \subseteq {s[i] : i \in DOMAIN s}
        /\ \A i, j \in DOMAIN s : i < j => Before(s[i], s[j])
        /\ result' = [i \in {x \in DOMAIN s : x <= topK} |-> s[i]]
  BY DEF Rank
<1>3. Cardinality(kept) \in Nat /\ DOMAIN s = 1..Cardinality(kept)
  BY <1>1, <1>2, KeptIsFinite
<1>4. \A x : (InBoth(x)' <=> InBoth(x)) /\ (InOne(x)' <=> InOne(x))
  BY <1>1 DEF InBoth, InOne, FoundBy
<1> SUFFICES ASSUME NEW i \in DOMAIN result', NEW d \in Docs,
                    InOne(result'[i]), InBoth(d)
             PROVE  \E j \in DOMAIN result' :
                      /\ j < i
                      /\ \/ result'[j] = d
                         \/ collapse /\ canonical[result'[j]] = canonical[d]
  BY <1>1, <1>4 DEF BothOutrankOne
<1>5. i \in DOMAIN s /\ i <= topK /\ result'[i] = s[i] /\ s[i] \in kept
  BY <1>2
<1>6. PICK e \in kept : InBoth(e) /\ (e = d \/ (collapse /\ canonical[e] = canonical[d]))
  BY <1>1, MergedWereFound DEF BothAreKept
<1>7. PICK j \in DOMAIN s : s[j] = e
  BY <1>2
<1>8. ~Before(s[i], s[j]) /\ i # j
  <2>1. s[i] \in Docs /\ e \in Docs
    BY <1>1, <1>5, MergedWereFound DEF BothAreKept
  <2>2. InOne(s[i]) /\ InBoth(s[j]) /\ s[j] \in Docs
    BY <1>5, <1>6, <1>7, <2>1
  <2>3. ~Before(s[i], s[j])
    BY <1>1, <2>1, <2>2, BothComeBefore
  <2> QED
    BY <2>2, <2>3 DEF InOne
<1>9. j < i /\ j <= topK
  BY <1>1, <1>2, <1>3, <1>5, <1>8
<1>10. j \in DOMAIN result' /\ result'[j] = e
  BY <1>2, <1>7, <1>9
<1> QED
  BY <1>6, <1>9, <1>10

RequestIsLegal == topK \in TopKs /\ collapse \in BOOLEAN /\ hybrid \in BOOLEAN

LEMMA InvInit ==
    ASSUME FusionAssumption, FusionInit
    PROVE  RequestIsLegal /\ FusionInv
<1>1. RequestIsLegal
  BY DEF FusionInit, RequestIsLegal
<1> SUFFICES ASSUME hybrid
             PROVE  FusionInv
  BY <1>1 DEF FusionInv
<1>2. stage = "merge" /\ at = <<1, 1>> /\ merged = [d \in {} |-> NoEntry]
  BY DEF FusionInit
<1>3. PICK first \in Rankings(Pool), second \in Rankings(Pool) : lists = <<first, second>>
  BY DEF FusionInit
<1>4. ListsAreRankings
  <2>1. lists[1] \in Rankings(Pool) /\ lists[2] \in Rankings(Pool)
    BY <1>3
  <2>2. ASSUME NEW s \in Rankings(Pool)
        PROVE  /\ \E k \in 0..Pool : s \in [1..k -> Docs]
               /\ \A i, j \in DOMAIN s : s[i] = s[j] => i = j
    <3>1. PICK k \in 0..Pool :
            s \in {f \in [1..k -> Docs] : \A i, j \in 1..k : f[i] = f[j] => i = j}
      BY DEF Rankings
    <3> QED
      BY <3>1
  <2> QED
    BY <2>1, <2>2 DEF ListsAreRankings, Backends
<1>5. at[1] = 1 /\ at[2] = 1 /\ at \in Backends \X (Nat \ {0}) /\ 1..(at[2] - 1) = {}
  BY <1>2 DEF Backends
<1>6. MergesInOrder
  BY <1>5 DEF MergesInOrder
<1>7. \A r \in Backends : Seen(r) = {}
  BY <1>2, <1>5 DEF Seen, Backends
<1>8. ScoresAreSums
  BY <1>2, <1>7 DEF ScoresAreSums, Backends
<1> QED
  BY <1>2, <1>4, <1>6, <1>8 DEF FusionInv, BothAreKept, BothOutrankOne

LEMMA InvNext ==
    ASSUME FusionAssumption, PoolAssumption, RequestIsLegal, FusionInv, [FusionNext]_fusionVars
    PROVE  (RequestIsLegal /\ FusionInv)'
<1>1. RequestIsLegal' /\ lists' = lists /\ canonical' = canonical
      /\ collapse' = collapse /\ hybrid' = hybrid
  BY DEF RequestIsLegal, FusionNext, PassThrough, Merge, NextRetriever, Merged, Collapse, Rank,
         fusionInputs, fusionVars
<1> SUFFICES ASSUME hybrid
             PROVE  FusionInv'
  BY <1>1 DEF FusionInv
<1>2. /\ stage \in {"merge", "collapse", "done"} /\ topK \in TopKs /\ collapse \in BOOLEAN
      /\ ListsAreRankings /\ MergesInOrder /\ ScoresAreSums /\ BothAreKept /\ BothOutrankOne
  BY DEF FusionInv, RequestIsLegal
<1>3. ListsAreRankings'
  BY <1>1, <1>2 DEF ListsAreRankings
<1>4. CASE PassThrough
  BY <1>2, <1>4 DEF PassThrough
<1>5. CASE Merge
  <2>1. stage' = "merge" /\ at[1]' = at[1] /\ at[2]' = at[2] + 1 /\ at' = <<at[1], at[2] + 1>>
        /\ at[2] \in DOMAIN lists[at[1]] /\ stage = "merge"
    BY <1>5 DEF Merge
  <2>2. MergesInOrder'
    <3>1. at[1] \in Backends /\ at[2] \in Nat \ {0} /\ 1..(at[2] - 1) \subseteq DOMAIN lists[at[1]]
      BY <1>2, <2>1 DEF MergesInOrder
    <3>2. 1..((at[2] + 1) - 1) \subseteq DOMAIN lists[at[1]]
      BY <2>1, <3>1
    <3> QED
      BY <1>1, <2>1, <3>1, <3>2 DEF MergesInOrder
  <2>3. ScoresAreSums'
    BY <1>2, <1>5, MergeKeepsScores
  <2> QED
    BY <1>3, <2>1, <2>2, <2>3 DEF FusionInv, BothAreKept, BothOutrankOne
<1>6. CASE NextRetriever
  <2>1. stage = "merge" /\ stage' = "merge" /\ at[1] = 1 /\ at[2] \notin DOMAIN lists[at[1]]
        /\ at' = <<2, 1>> /\ at'[1] = 2 /\ at'[2] = 1 /\ merged' = merged
    BY <1>6 DEF NextRetriever
  <2>2. MergesInOrder'
    <3>1. 1..(1 - 1) = {}
      OBVIOUS
    <3> QED
      BY <2>1, <3>1 DEF MergesInOrder, Backends
  <2>3. Seen(1) = DOMAIN lists[1]
    BY <1>2, <2>1, ListIsSeen
  <2>4. \A r \in Backends : Seen(r)' = Seen(r)
    BY <1>1, <2>1, <2>3 DEF Seen, Backends
  <2>5. ScoresAreSums'
    BY <1>1, <1>2, <2>1, <2>4, ScoresStay
  <2> QED
    BY <1>3, <2>1, <2>2, <2>5 DEF FusionInv, BothAreKept, BothOutrankOne
<1>7. CASE Merged
  <2>1. stage = "merge" /\ stage' = "collapse" /\ at[1] = 2 /\ at[2] \notin DOMAIN lists[at[1]]
        /\ merged' = merged
        /\ waiting' = (IF collapse THEN DOMAIN merged ELSE {})
        /\ kept' = (IF collapse THEN {} ELSE DOMAIN merged)
    BY <1>7 DEF Merged
  <2>2. Seen(2) = DOMAIN lists[2]
    BY <1>2, <2>1, ListIsSeen
  <2>3. \A r \in Backends : Seen(r)' = Seen(r)
    BY <1>1, <2>1, <2>2 DEF Seen, Backends
  <2>4. ScoresAreSums'
    BY <1>1, <1>2, <2>1, <2>3, ScoresStay
  <2>5. BothAreKept'
    BY <1>1, <1>2, <2>1 DEF BothAreKept
  <2> QED
    BY <1>3, <2>1, <2>4, <2>5 DEF FusionInv, MergesInOrder, BothOutrankOne
<1>8. CASE Collapse
  <2>1. stage = "collapse" /\ stage' = stage /\ merged' = merged /\ waiting # {}
    BY <1>8 DEF Collapse
  <2>2. \A r \in Backends : Seen(r)' = Seen(r)
    BY <1>1, <2>1 DEF Seen
  <2>3. ScoresAreSums'
    BY <1>1, <1>2, <2>1, <2>2, ScoresStay
  <2>4. collapse
    BY <1>2, <2>1 DEF BothAreKept
  <2>5. BothAreKept'
    BY <1>2, <1>8, <2>4, CollapseKeepsBoth
  <2> QED
    BY <1>3, <2>1, <2>3, <2>5 DEF FusionInv, MergesInOrder, BothOutrankOne
<1>9. CASE Rank
  <2>1. stage = "collapse" /\ stage' = "done" /\ merged' = merged
    BY <1>9 DEF Rank
  <2>2. \A r \in Backends : Seen(r)' = Seen(r)
    BY <1>1, <2>1 DEF Seen
  <2>3. ScoresAreSums'
    BY <1>1, <1>2, <2>1, <2>2, ScoresStay
  <2>4. BothOutrankOne'
    BY <1>2, <1>9, RankOutranks
  <2> QED
    BY <1>3, <2>1, <2>3, <2>4 DEF FusionInv, MergesInOrder, BothAreKept
<1>10. CASE UNCHANGED fusionVars
  <2>1. stage' = stage /\ at' = at /\ merged' = merged /\ waiting' = waiting /\ kept' = kept
        /\ result' = result
    BY <1>10 DEF fusionVars
  <2>2. \A r \in Backends : Seen(r)' = Seen(r)
    BY <1>1, <2>1 DEF Seen
  <2>3. ScoresAreSums'
    BY <1>1, <1>2, <2>1, <2>2, ScoresStay
  <2>4. MergesInOrder' /\ BothAreKept' /\ BothOutrankOne'
    BY <1>1, <1>2, <2>1
       DEF MergesInOrder, BothAreKept, BothOutrankOne, InBoth, InOne, FoundBy
  <2> QED
    BY <1>2, <1>3, <2>1, <2>3, <2>4 DEF FusionInv
<1> QED
  BY <1>4, <1>5, <1>6, <1>7, <1>8, <1>9, <1>10 DEF FusionNext

(* The docstring of fusion.py: a document found by both backends outranks one
   found by a single backend, whatever the corpus, the rankings, rrf_k and the
   candidate pool, as long as the pool fits rrf_k. *)
THEOREM BothFoundOutrank == FusionSpec => []BothOutrankOne
<1>1. FusionInit => RequestIsLegal /\ FusionInv
  BY InvInit, FusionAssumption
<1>2. (RequestIsLegal /\ FusionInv) /\ [FusionNext]_fusionVars => (RequestIsLegal /\ FusionInv)'
  BY InvNext, FusionAssumption, PoolAssumption
<1>3. RequestIsLegal /\ FusionInv => BothOutrankOne
  BY DEF RequestIsLegal, FusionInv, BothOutrankOne
<1> QED
  BY <1>1, <1>2, <1>3, PTL DEF FusionSpec

-----------------------------------------------------------------------------
(* What a document is shown as: its ranks, and the variant of the best. *)

(* What _Merged.add makes of the ranks and of the variant shown. *)
LEMMA AddedRanks ==
    ASSUME NEW entry, NEW r \in Nat, NEW rank \in Nat, r \notin DOMAIN entry.ranks,
           \/ entry.shown = 0 /\ DOMAIN entry.ranks = {}
           \/ /\ entry.shown # 0 /\ entry.shown \in DOMAIN entry.ranks
              /\ DOMAIN entry.ranks \subseteq Nat
              /\ \A q \in DOMAIN entry.ranks : entry.ranks[q] \in Nat
              /\ \A q \in DOMAIN entry.ranks :
                   \/ entry.ranks[entry.shown] < entry.ranks[q]
                   \/ entry.ranks[entry.shown] = entry.ranks[q] /\ entry.shown <= q
    PROVE  LET new == Added(entry, r, rank)
           IN  /\ DOMAIN new.ranks = DOMAIN entry.ranks \cup {r}
               /\ new.ranks[r] = rank
               /\ \A q \in DOMAIN entry.ranks : new.ranks[q] = entry.ranks[q]
               /\ new.shown \in DOMAIN new.ranks
               /\ \A q \in DOMAIN new.ranks :
                    \/ new.ranks[new.shown] < new.ranks[q]
                    \/ new.ranks[new.shown] = new.ranks[q] /\ new.shown <= q
<1> DEFINE new == Added(entry, r, rank)
           old == entry.ranks
           shown == entry.shown
<1>1. /\ new.ranks = [x \in DOMAIN old \cup {r} |-> IF x = r THEN rank ELSE old[x]]
      /\ new.shown = IF \/ shown = 0
                        \/ rank < old[shown]
                        \/ rank = old[shown] /\ r < shown
                     THEN r ELSE shown
  BY DEF Added
<1>2. /\ DOMAIN new.ranks = DOMAIN old \cup {r}
      /\ new.ranks[r] = rank
      /\ \A q \in DOMAIN old : new.ranks[q] = old[q]
  BY <1>1
<1> HIDE DEF new
<1>3. CASE shown = 0
  <2>1. new.shown = r /\ DOMAIN old = {}
    BY <1>1, <1>3
  <2> QED
    BY <1>2, <2>1 DEF new
<1>4. CASE shown # 0
  <2>1. /\ shown \in DOMAIN old /\ DOMAIN old \subseteq Nat
        /\ \A q \in DOMAIN old : old[q] \in Nat
        /\ \A q \in DOMAIN old :
             old[shown] < old[q] \/ (old[shown] = old[q] /\ shown <= q)
    BY <1>4
  <2>2. CASE rank < old[shown] \/ (rank = old[shown] /\ r < shown)
    <3>1. new.shown = r
      BY <1>1, <2>2
    <3>2. \A q \in DOMAIN old : rank < old[q] \/ (rank = old[q] /\ r <= q)
      BY <2>1, <2>2
    <3> QED
      BY <1>2, <3>1, <3>2 DEF new
  <2>3. CASE ~(rank < old[shown] \/ (rank = old[shown] /\ r < shown))
    <3>1. new.shown = shown
      BY <1>1, <1>4, <2>3
    <3>2. old[shown] < rank \/ (old[shown] = rank /\ shown <= r)
      BY <2>1, <2>3
    <3> QED
      BY <1>2, <2>1, <3>1, <3>2 DEF new
  <2> QED
    BY <2>2, <2>3
<1> QED
  BY <1>3, <1>4

(* Looking at one more entry of a list records its rank and no other. *)
LEMMA MergeKeepsRanks ==
    ASSUME FusionAssumption, ListsAreRankings, MergesInOrder, ScoresAreSums, RanksAreSeen, Merge
    PROVE  RanksAreSeen'
<1> DEFINE r == at[1]
           rank == at[2]
           d == lists[r][rank]
<1>1. /\ r \in Backends /\ rank \in Nat \ {0} /\ rank \in DOMAIN lists[r] /\ rank \notin Seen(r)
      /\ \A x \in Backends : Seen(x)' = IF x = r THEN Seen(x) \cup {rank} ELSE Seen(x)
      /\ \A x \in Backends : Seen(x) \subseteq DOMAIN lists[x]
  BY MergeSeesOneMore
<1>2. /\ lists' = lists
      /\ merged' = [x \in DOMAIN merged \cup {d} |->
                       IF x # d THEN merged[x]
                       ELSE Added(IF d \in DOMAIN merged THEN merged[d] ELSE NoEntry, r, rank)]
  BY DEF Merge, fusionInputs
<1>3. \A i \in Seen(r) : lists[r][i] # d
  BY <1>1 DEF ListsAreRankings
<1>4. /\ DOMAIN merged' = DOMAIN merged \cup {d}
      /\ \A x \in DOMAIN merged : x # d => merged'[x] = merged[x]
      /\ d \notin DOMAIN merged => merged'[d] = Added(NoEntry, r, rank)
      /\ d \in DOMAIN merged => merged'[d] = Added(merged[d], r, rank)
  BY <1>2
<1>5. \A q \in Backends : q \in Nat /\ q # 0 /\ \A i \in DOMAIN lists[q] : i \in Nat
  <2> SUFFICES ASSUME NEW q \in Backends, NEW i \in DOMAIN lists[q]
               PROVE  i \in Nat
    BY DEF Backends
  <2>1. PICK k \in 0..Pool : lists[q] \in [1..k -> Docs]
    BY DEF ListsAreRankings
  <2> QED
    BY <2>1, FusionAssumption DEF FusionAssumption
<1>6. DOMAIN merged = {x \in Docs : \E q \in Backends : \E i \in Seen(q) : lists[q][i] = x}
  BY DEF ScoresAreSums
<1>7. d \in Docs
  BY <1>1 DEF ListsAreRankings
<1> DEFINE Fits(x, entry, seen1, seen2) ==
             /\ DOMAIN entry.ranks
                  = {q \in Backends : \E i \in (IF q = 1 THEN seen1 ELSE seen2) : lists[q][i] = x}
             /\ \A q \in DOMAIN entry.ranks :
                  /\ entry.ranks[q] \in (IF q = 1 THEN seen1 ELSE seen2)
                  /\ lists[q][entry.ranks[q]] = x
             /\ entry.shown \in DOMAIN entry.ranks
             /\ \A q \in DOMAIN entry.ranks :
                 \/ entry.ranks[entry.shown] < entry.ranks[q]
                 \/ entry.ranks[entry.shown] = entry.ranks[q] /\ entry.shown <= q
<1>8. \A x \in DOMAIN merged : Fits(x, merged[x], Seen(1), Seen(2))
  <2>1. \A q \in Backends : Seen(q) = IF q = 1 THEN Seen(1) ELSE Seen(2)
    BY DEF Backends
  <2> QED
    BY <2>1 DEF RanksAreSeen
<1> DEFINE s1 == Seen(1)'
           s2 == Seen(2)'
<1>9. \A q \in Backends : (IF q = 1 THEN s1 ELSE s2)
           = IF q = r THEN (IF q = 1 THEN Seen(1) ELSE Seen(2)) \cup {rank}
             ELSE (IF q = 1 THEN Seen(1) ELSE Seen(2))
  BY <1>1 DEF Backends
<1> DEFINE S(q) == IF q = 1 THEN Seen(1) ELSE Seen(2)
           T(q) == IF q = 1 THEN s1 ELSE s2
<1>10. \A q \in Backends : T(q) = IF q = r THEN S(q) \cup {rank} ELSE S(q)
  BY <1>9
<1>11. \A q \in Backends : S(q) = Seen(q)
  BY DEF Backends
<1>12. \A x \in DOMAIN merged' : Fits(x, merged'[x], s1, s2)
  <2> SUFFICES ASSUME NEW x \in DOMAIN merged'
               PROVE  Fits(x, merged'[x], s1, s2)
    OBVIOUS
  <2>1. CASE x # d
    <3>1. x \in DOMAIN merged /\ merged'[x] = merged[x]
      BY <1>4, <2>1
    <3>2. Fits(x, merged[x], Seen(1), Seen(2))
      BY <1>8, <3>1
    <3> DEFINE e == merged[x]
    <3>3. /\ DOMAIN e.ranks = {q \in Backends : \E i \in S(q) : lists[q][i] = x}
          /\ \A q \in DOMAIN e.ranks : e.ranks[q] \in S(q) /\ lists[q][e.ranks[q]] = x
      BY <3>2
    <3>4. \A q \in Backends : (\E i \in S(q) : lists[q][i] = x) <=> (\E i \in T(q) : lists[q][i] = x)
      BY <1>10, <2>1
    <3>5. \A q \in Backends : S(q) \subseteq T(q)
      BY <1>10
    <3>6. /\ DOMAIN e.ranks = {q \in Backends : \E i \in T(q) : lists[q][i] = x}
          /\ \A q \in DOMAIN e.ranks : e.ranks[q] \in T(q) /\ lists[q][e.ranks[q]] = x
      BY <3>3, <3>4, <3>5
    <3> QED
      BY <3>1, <3>2, <3>6
  <2>2. CASE x = d
    <3> DEFINE old == IF d \in DOMAIN merged THEN merged[d] ELSE NoEntry
               new == Added(old, r, rank)
    <3>1. merged'[d] = new
      BY <1>4
    <3>2. /\ DOMAIN old.ranks = {q \in Backends : \E i \in S(q) : lists[q][i] = d}
          /\ \A q \in DOMAIN old.ranks : old.ranks[q] \in S(q) /\ lists[q][old.ranks[q]] = d
      <4>1. CASE d \in DOMAIN merged
        BY <1>8, <4>1
      <4>2. CASE d \notin DOMAIN merged
        BY <1>6, <1>7, <1>11, <4>2 DEF NoEntry
      <4> QED
        BY <4>1, <4>2
    <3>3. r \notin DOMAIN old.ranks
      BY <1>1, <1>3, <1>11, <3>2
    <3>4. /\ DOMAIN old.ranks \subseteq Nat
          /\ \A q \in DOMAIN old.ranks : old.ranks[q] \in Nat
      BY <1>1, <1>5, <1>11, <3>2
    <3>5. \/ old.shown = 0 /\ DOMAIN old.ranks = {}
          \/ /\ old.shown # 0 /\ old.shown \in DOMAIN old.ranks
             /\ \A q \in DOMAIN old.ranks :
                   \/ old.ranks[old.shown] < old.ranks[q]
                   \/ old.ranks[old.shown] = old.ranks[q] /\ old.shown <= q
      <4>1. CASE d \in DOMAIN merged
        <5>1. Fits(d, old, Seen(1), Seen(2))
          BY <1>8, <4>1
        <5>2. old.shown \in Backends
          BY <5>1
        <5> QED
          BY <1>5, <5>1, <5>2
      <4>2. CASE d \notin DOMAIN merged
        BY <4>2 DEF NoEntry
      <4> QED
        BY <4>1, <4>2
    <3>6. r \in Nat /\ rank \in Nat
      BY <1>1, <1>5
    <3> HIDE DEF old, d, r, rank
    <3>7. /\ DOMAIN new.ranks = DOMAIN old.ranks \cup {r}
          /\ new.ranks[r] = rank
          /\ \A q \in DOMAIN old.ranks : new.ranks[q] = old.ranks[q]
          /\ new.shown \in DOMAIN new.ranks
          /\ \A q \in DOMAIN new.ranks :
               \/ new.ranks[new.shown] < new.ranks[q]
               \/ new.ranks[new.shown] = new.ranks[q] /\ new.shown <= q
      BY <3>3, <3>4, <3>5, <3>6, AddedRanks
    <3> HIDE DEF new
    <3>8. lists[r][rank] = d
      BY DEF d, r, rank
    <3>9. \A q \in Backends : (\E i \in T(q) : lists[q][i] = d)
                <=> q = r \/ (\E i \in S(q) : lists[q][i] = d)
      BY <1>1, <1>10, <3>8
    <3>10. DOMAIN new.ranks = {q \in Backends : \E i \in T(q) : lists[q][i] = d}
      BY <1>1, <3>2, <3>7, <3>9
    <3>11. \A q \in DOMAIN new.ranks : new.ranks[q] \in T(q) /\ lists[q][new.ranks[q]] = d
      <4>1. \A q \in DOMAIN new.ranks : q \in Backends /\ (q # r => q \in DOMAIN old.ranks)
        BY <3>7, <3>10
      <4>2. \A q \in DOMAIN old.ranks : new.ranks[q] \in T(q) /\ lists[q][new.ranks[q]] = d
        BY <1>10, <3>2, <3>7
      <4>3. r \in Backends /\ new.ranks[r] \in T(r) /\ lists[r][new.ranks[r]] = d
        BY <1>1, <1>10, <3>7, <3>8
      <4> HIDE DEF T, S
      <4> QED
        BY <4>1, <4>2, <4>3
    <3> QED
      BY <2>2, <3>1, <3>7, <3>10, <3>11
  <2> QED
    BY <2>1, <2>2
<1>13. \A q \in Backends : Seen(q)' = IF q = 1 THEN s1 ELSE s2
  BY DEF Backends
<1>14. SUFFICES ASSUME NEW x \in DOMAIN merged'
                PROVE  LET entry == merged'[x]
                       IN  /\ DOMAIN entry.ranks
                                = {q \in Backends : \E i \in Seen(q)' : lists'[q][i] = x}
                           /\ \A q \in DOMAIN entry.ranks :
                                entry.ranks[q] \in Seen(q)' /\ lists'[q][entry.ranks[q]] = x
                           /\ entry.shown \in DOMAIN entry.ranks
                           /\ \A q \in DOMAIN entry.ranks :
                                \/ entry.ranks[entry.shown] < entry.ranks[q]
                                \/ entry.ranks[entry.shown] = entry.ranks[q] /\ entry.shown <= q
  BY DEF RanksAreSeen
<1> DEFINE e == merged'[x]
<1>15. Fits(x, e, s1, s2)
  BY <1>12
<1> HIDE DEF s1, s2, e, d, r, rank
<1>16. DOMAIN e.ranks = {q \in Backends : \E i \in Seen(q)' : lists'[q][i] = x}
  BY <1>2, <1>13, <1>15
<1>17. \A q \in DOMAIN e.ranks : e.ranks[q] \in Seen(q)' /\ lists'[q][e.ranks[q]] = x
  BY <1>2, <1>13, <1>15
<1> QED
  BY <1>15, <1>16, <1>17 DEF e

-----------------------------------------------------------------------------
(* The ordering key is a strict total order, the one of the reference. *)

(* Less is a strict order of the positive fractions, and neither being less is
   an equivalence it respects. *)
LEMMA FractionsAreOrdered ==
    ASSUME NEW a \in Nat, NEW b \in Nat \ {0}, NEW c \in Nat, NEW d \in Nat \ {0},
           NEW e \in Nat, NEW f \in Nat \ {0},
           a * d <= c * b, c * f <= e * d
    PROVE  /\ a * f <= e * b
           /\ (a * d < c * b \/ c * f < e * d) => a * f < e * b
<1> DEFINE ad == a * d
           cb == c * b
           cf == c * f
           ed == e * d
           af == a * f
           eb == e * b
<1>1. ad \in Nat /\ cb \in Nat /\ cf \in Nat /\ ed \in Nat /\ af \in Nat /\ eb \in Nat
  BY Z3
<1>2. ad * f = af * d /\ cb * f = cf * b /\ ed * b = eb * d
  BY Z3
<1>3. ad <= cb /\ cf <= ed
  OBVIOUS
<1>4. (a * d < c * b \/ c * f < e * d) <=> (ad < cb \/ cf < ed)
  OBVIOUS
<1>5. \A x, y \in Nat, z \in Nat \ {0} : (x <= y <=> x * z <= y * z) /\ (x < y <=> x * z < y * z)
  BY Z3
<1>6. \A x, y \in Nat : x * y \in Nat
  BY Z3
<1>7. af <= eb /\ (ad < cb \/ cf < ed => af < eb)
  <2> HIDE DEF ad, cb, cf, ed, af, eb
  <2>1. ad * f <= cb * f /\ cf * b <= ed * b
    BY <1>1, <1>3, <1>5
  <2>2. (ad < cb => ad * f < cb * f) /\ (cf < ed => cf * b < ed * b)
    BY <1>1, <1>5
  <2>3. ad * f \in Nat /\ cb * f \in Nat /\ cf * b \in Nat /\ ed * b \in Nat
    BY <1>1, <1>6
  <2> DEFINE p == ad * f
             q == cb * f
             u == cf * b
             v == ed * b
  <2>4. p = af * d /\ q = u /\ v = eb * d
    BY <1>2
  <2>5. p \in Nat /\ q \in Nat /\ u \in Nat /\ v \in Nat /\ p <= q /\ u <= v
        /\ (ad < cb => p < q) /\ (cf < ed => u < v)
    BY <2>1, <2>2, <2>3
  <2> HIDE DEF p, q, u, v
  <2>6. p <= v /\ (ad < cb \/ cf < ed => p < v)
    BY <2>4, <2>5
  <2>7. af * d <= eb * d /\ (ad < cb \/ cf < ed => af * d < eb * d)
    BY <2>4, <2>6
  <2> QED
    BY <1>1, <1>5, <2>7
<1> QED
  BY <1>4, <1>7

(* Every rank that is merged is a position of its list. *)
LEMMA SeenArePositions ==
    ASSUME FusionAssumption, ListsAreRankings, MergesInOrder, NEW r \in Backends
    PROVE  /\ Seen(r) \subseteq DOMAIN lists[r]
           /\ \A i \in DOMAIN lists[r] : i \in 1..Pool /\ i \in Nat
<1>1. \A i \in DOMAIN lists[r] : i \in 1..Pool /\ i \in Nat
  <2>1. PICK k \in 0..Pool : lists[r] \in [1..k -> Docs]
    BY DEF ListsAreRankings
  <2> QED
    BY <2>1, FusionAssumption DEF FusionAssumption
<1>2. CASE stage # "merge"
  BY <1>1, <1>2 DEF Seen
<1>3. CASE stage = "merge"
  <2>1. at[1] \in Backends /\ 1..(at[2] - 1) \subseteq DOMAIN lists[at[1]]
    BY <1>3 DEF MergesInOrder
  <2> QED
    BY <1>1, <1>3, <2>1 DEF Seen
<1> QED
  BY <1>2, <1>3

(* best_rank is the rank of the variant shown, and the ranks of a document are
   its positions in the lists. *)
LEMMA BestRankIsShown ==
    ASSUME FusionAssumption, ListsAreRankings, MergesInOrder, RanksAreSeen,
           NEW d \in DOMAIN merged
    PROVE  /\ merged[d].shown \in DOMAIN merged[d].ranks
           /\ BestRank(d) = merged[d].ranks[merged[d].shown]
           /\ BestRank(d) \in 1..Pool
           /\ \A r \in DOMAIN merged[d].ranks :
                /\ r \in Backends /\ FoundBy(d, r)
                /\ RankIn(d, r) = merged[d].ranks[r]
                /\ merged[d].ranks[r] \in 1..Pool
                /\ BestRank(d) <= merged[d].ranks[r]
                /\ BestRank(d) = merged[d].ranks[r] => merged[d].shown <= r
<1> DEFINE entry == merged[d]
<1>1. /\ DOMAIN entry.ranks = {r \in Backends : \E i \in Seen(r) : lists[r][i] = d}
      /\ \A r \in DOMAIN entry.ranks :
           entry.ranks[r] \in Seen(r) /\ lists[r][entry.ranks[r]] = d
      /\ entry.shown \in DOMAIN entry.ranks
      /\ \A r \in DOMAIN entry.ranks :
           \/ entry.ranks[entry.shown] < entry.ranks[r]
           \/ entry.ranks[entry.shown] = entry.ranks[r] /\ entry.shown <= r
  BY DEF RanksAreSeen
<1>2. \A r \in DOMAIN entry.ranks :
        /\ r \in Backends /\ entry.ranks[r] \in DOMAIN lists[r]
        /\ entry.ranks[r] \in 1..Pool
  BY <1>1, SeenArePositions
<1>3. \A r \in DOMAIN entry.ranks : FoundBy(d, r) /\ RankIn(d, r) = entry.ranks[r]
  <2> SUFFICES ASSUME NEW r \in DOMAIN entry.ranks
               PROVE  FoundBy(d, r) /\ RankIn(d, r) = entry.ranks[r]
    OBVIOUS
  <2>1. r \in Backends /\ entry.ranks[r] \in DOMAIN lists[r] /\ lists[r][entry.ranks[r]] = d
    BY <1>1, <1>2
  <2>2. \A i \in DOMAIN lists[r] : lists[r][i] = d => i = entry.ranks[r]
    BY <2>1 DEF ListsAreRankings
  <2> QED
    BY <2>1, <2>2 DEF FoundBy, RankIn
<1> DEFINE least == entry.ranks[entry.shown]
<1>4. least \in 1..Pool /\ \A r \in DOMAIN entry.ranks : least <= entry.ranks[r]
  BY <1>1, <1>2, FusionAssumption DEF FusionAssumption
<1>5. \A n \in {entry.ranks[r] : r \in DOMAIN entry.ranks} :
        (\A r \in DOMAIN entry.ranks : n <= entry.ranks[r]) => n = least
  BY <1>1, <1>2, <1>4, FusionAssumption DEF FusionAssumption
<1>6. BestRank(d) = least
  <2>1. least \in {entry.ranks[r] : r \in DOMAIN entry.ranks}
    BY <1>1
  <2> QED
    BY <1>4, <1>5, <2>1 DEF BestRank
<1>7. \A r \in DOMAIN entry.ranks : least = entry.ranks[r] => entry.shown <= r
  <2> SUFFICES ASSUME NEW r \in DOMAIN entry.ranks, least = entry.ranks[r]
               PROVE  entry.shown <= r
    OBVIOUS
  <2>1. least \in Nat
    BY <1>4, FusionAssumption DEF FusionAssumption
  <2>2. ~(least < entry.ranks[r])
    BY <2>1
  <2> QED
    BY <1>1, <2>2
<1> QED
  BY <1>1, <1>2, <1>3, <1>4, <1>6, <1>7

(* The variant that is shown comes from the list that ranks the document best. *)
LEMMA VariantsAreBest ==
    ASSUME FusionAssumption, ListsAreRankings, MergesInOrder, RanksAreSeen
    PROVE  ShownVariantIsBest
<1> SUFFICES ASSUME NEW d \in DOMAIN merged
             PROVE  /\ FoundBy(d, merged[d].shown)
                    /\ RankIn(d, merged[d].shown) = BestRank(d)
                    /\ \A r \in DOMAIN merged[d].ranks :
                         RankIn(d, r) = BestRank(d) => merged[d].shown <= r
  BY DEF ShownVariantIsBest
<1> QED
  BY BestRankIsShown

(* Once the lists are merged, what is merged is what the reference computes
   from the lists. *)
LEMMA MergedIsReference ==
    ASSUME FusionAssumption, ListsAreRankings, MergesInOrder, ScoresAreSums, RanksAreSeen,
           stage = "collapse", NEW d \in DOMAIN merged
    PROVE  /\ d \in Found
           /\ merged[d].score = RefScore(d)
           /\ merged[d].score[1] \in Nat /\ merged[d].score[2] \in Nat \ {0}
           /\ BestRank(d) = RefBest(d) /\ BestRank(d) \in Nat
<1>0. RrfK \in Nat /\ Pool \in Nat
  BY FusionAssumption DEF FusionAssumption
<1>1. \A r \in Backends : Seen(r) = DOMAIN lists[r]
  BY DEF Seen
<1>2. /\ DOMAIN merged[d].ranks = {r \in Backends : FoundBy(d, r)}
      /\ merged[d].shown \in DOMAIN merged[d].ranks
  BY <1>1 DEF RanksAreSeen, FoundBy
<1>3. d \in Docs
  BY DEF ScoresAreSums
<1>4. d \in Found
  BY <1>2, <1>3 DEF Found
<1>5. \A r \in Backends : FoundBy(d, r) =>
        RankIn(d, r) = merged[d].ranks[r] /\ RankIn(d, r) \in 1..Pool
        /\ BestRank(d) <= RankIn(d, r)
  BY <1>2, BestRankIsShown
<1>6. BestRank(d) = RefBest(d) /\ BestRank(d) \in Nat
  <2>1. /\ BestRank(d) \in 1..Pool
        /\ \E r \in Backends : FoundBy(d, r) /\ RankIn(d, r) = BestRank(d)
        /\ \A r \in Backends : FoundBy(d, r) => BestRank(d) <= RankIn(d, r)
    BY <1>2, <1>5, BestRankIsShown
  <2>2. ASSUME NEW n \in 1..Pool,
               \E r \in Backends : FoundBy(d, r) /\ RankIn(d, r) = n,
               \A r \in Backends : FoundBy(d, r) => n <= RankIn(d, r)
        PROVE  n = BestRank(d)
    BY <1>0, <2>1, <2>2
  <2> QED
    BY <1>0, <2>1, <2>2 DEF RefBest
<1>7. \A r \in Backends : FoundBy(d, r) => RankIn(d, r) \in Seen(r) /\ lists[r][RankIn(d, r)] = d
  BY <1>1, <1>2, BestRankIsShown DEF RanksAreSeen
<1>8. /\ merged[d].score = RefScore(d)
      /\ merged[d].score[1] \in Nat /\ merged[d].score[2] \in Nat \ {0}
  <2>1. CASE InBoth(d)
    <3>1. FoundBy(d, 1) /\ FoundBy(d, 2)
      BY <2>1 DEF InBoth, Backends
    <3> DEFINE i == RankIn(d, 1)
               j == RankIn(d, 2)
    <3>2. /\ i \in Seen(1) /\ lists[1][i] = d /\ i \in Nat /\ i >= 1
          /\ j \in Seen(2) /\ lists[2][j] = d /\ j \in Nat /\ j >= 1
      BY <1>0, <1>5, <1>7, <3>1 DEF Backends
    <3>3. merged[d].score = <<(RrfK + j) + (RrfK + i), (RrfK + i) * (RrfK + j)>>
      BY <3>2 DEF ScoresAreSums
    <3>4. RefScore(d) = <<2 * RrfK + i + j, (RrfK + i) * (RrfK + j)>>
      BY <2>1 DEF RefScore
    <3> HIDE DEF i, j
    <3>5. (RrfK + j) + (RrfK + i) = 2 * RrfK + i + j /\ 2 * RrfK + i + j \in Nat
      BY <1>0, <3>2
    <3>6. (RrfK + i) * (RrfK + j) \in Nat \ {0}
      <4>1. RrfK + i \in Nat \ {0} /\ RrfK + j \in Nat \ {0}
        BY <1>0, <3>2
      <4>2. \A x, y \in Nat \ {0} : x * y \in Nat \ {0}
        BY Z3
      <4> QED
        BY <4>1, <4>2
    <3> QED
      BY <3>3, <3>4, <3>5, <3>6
  <2>2. CASE ~InBoth(d) /\ FoundBy(d, 1)
    <3>1. ~FoundBy(d, 2)
      BY <2>2 DEF InBoth, Backends
    <3>2. RankIn(d, 1) \in Seen(1) /\ lists[1][RankIn(d, 1)] = d
          /\ RankIn(d, 1) \in Nat /\ RankIn(d, 1) >= 1
      BY <1>0, <1>5, <1>7, <2>2 DEF Backends
    <3>3. \A j \in Seen(2) : lists[2][j] # d
      BY <1>1, <3>1 DEF FoundBy, Backends
    <3>4. merged[d].score = <<1, RrfK + RankIn(d, 1)>>
      BY <3>2, <3>3 DEF ScoresAreSums
    <3>5. RefScore(d) = <<1, RrfK + RankIn(d, 1)>>
      BY <2>2 DEF RefScore
    <3> QED
      BY <1>0, <3>2, <3>4, <3>5
  <2>3. CASE ~InBoth(d) /\ ~FoundBy(d, 1)
    <3>1. FoundBy(d, 2)
      BY <1>2, <2>3 DEF Backends
    <3>2. RankIn(d, 2) \in Seen(2) /\ lists[2][RankIn(d, 2)] = d
          /\ RankIn(d, 2) \in Nat /\ RankIn(d, 2) >= 1
      BY <1>0, <1>5, <1>7, <3>1 DEF Backends
    <3>3. \A j \in Seen(1) : lists[1][j] # d
      BY <1>1, <2>3 DEF FoundBy, Backends
    <3>4. merged[d].score = <<1, RrfK + RankIn(d, 2)>>
      BY <3>2, <3>3 DEF ScoresAreSums
    <3>5. RefScore(d) = <<1, RrfK + RankIn(d, 2)>>
      BY <2>3 DEF RefScore
    <3> QED
      BY <1>0, <3>2, <3>4, <3>5
  <2> QED
    BY <2>1, <2>2, <2>3
<1> QED
  BY <1>4, <1>6, <1>8

(* After the last entry every document that was found is merged. *)
LEMMA FoundWereMerged ==
    ASSUME ScoresAreSums, stage = "collapse"
    PROVE  DOMAIN merged = Found
<1>1. \A r \in Backends : Seen(r) = DOMAIN lists[r]
  BY DEF Seen
<1> QED
  BY <1>1 DEF ScoresAreSums, Found, FoundBy

(* _ordering_key is a strict total order of the merged documents. *)
LEMMA BeforeIsAnOrder ==
    ASSUME FusionAssumption, DocsAssumption, ListsAreRankings, MergesInOrder, ScoresAreSums,
           RanksAreSeen, stage = "collapse"
    PROVE  /\ \A x \in DOMAIN merged : ~Before(x, x)
           /\ \A x, y \in DOMAIN merged : x # y => Before(x, y) \/ Before(y, x)
           /\ \A x, y, z \in DOMAIN merged : Before(x, y) /\ Before(y, z) => Before(x, z)
<1> DEFINE num(x) == merged[x].score[1]
           den(x) == merged[x].score[2]
           less(x, y) == num(x) * den(y) < num(y) * den(x)
<1>1. \A x \in DOMAIN merged :
        num(x) \in Nat /\ den(x) \in Nat \ {0} /\ BestRank(x) \in Nat /\ x \in Nat
  <2>1. \A x \in DOMAIN merged : x \in Docs
    BY DEF ScoresAreSums
  <2> QED
    BY <2>1, MergedIsReference, DocsAssumption DEF DocsAssumption
<1>2. \A x, y \in DOMAIN merged :
        Before(x, y) <=> \/ less(y, x)
                         \/ /\ ~less(x, y)
                            /\ BestRank(x) < BestRank(y) \/ (BestRank(x) = BestRank(y) /\ x < y)
  BY DEF Before, Less
<1>3. \A x, y \in DOMAIN merged : num(x) * den(y) \in Nat
  <2>1. \A m, n \in Nat : m * n \in Nat
    BY Z3
  <2> HIDE DEF num, den
  <2> QED
    BY <1>1, <2>1
<1>4. \A x, y \in DOMAIN merged : less(x, y) => ~less(y, x)
  <2> SUFFICES ASSUME NEW x \in DOMAIN merged, NEW y \in DOMAIN merged, less(x, y)
               PROVE  ~less(y, x)
    OBVIOUS
  <2> DEFINE p == num(x) * den(y)
             q == num(y) * den(x)
  <2>1. p \in Nat /\ q \in Nat /\ p < q
    BY <1>3
  <2> HIDE DEF p, q
  <2>2. ~(q < p)
    BY <2>1
  <2> QED
    BY <2>2 DEF p, q
<1>5. \A x, y, z \in DOMAIN merged :
        ~less(y, x) /\ ~less(z, y) =>
            ~less(z, x) /\ (less(x, y) \/ less(y, z) => less(x, z))
  <2> SUFFICES ASSUME NEW x \in DOMAIN merged, NEW y \in DOMAIN merged, NEW z \in DOMAIN merged,
                      ~less(y, x), ~less(z, y)
               PROVE  ~less(z, x) /\ (less(x, y) \/ less(y, z) => less(x, z))
    OBVIOUS
  <2> DEFINE a == num(x)  b == den(x)  c == num(y)  d == den(y)  e == num(z)  f == den(z)
  <2>1. /\ a \in Nat /\ c \in Nat /\ e \in Nat
        /\ b \in Nat \ {0} /\ d \in Nat \ {0} /\ f \in Nat \ {0}
    BY <1>1
  <2>2. ~(c * b < a * d) /\ ~(e * d < c * f)
    OBVIOUS
  <2>3. c * b \in Nat /\ a * d \in Nat /\ e * d \in Nat /\ c * f \in Nat
        /\ e * b \in Nat /\ a * f \in Nat
    BY <1>3
  <2>4. (less(x, y) <=> a * d < c * b) /\ (less(y, z) <=> c * f < e * d)
        /\ (less(x, z) <=> a * f < e * b) /\ (less(z, x) <=> e * b < a * f)
    OBVIOUS
  <2> HIDE DEF a, b, c, d, e, f, less
  <2>5. \A m, n \in Nat : ~(m < n) <=> n <= m
    OBVIOUS
  <2>6. a * d <= c * b /\ c * f <= e * d
    BY <2>2, <2>3, <2>5
  <2>7. /\ a * f <= e * b
        /\ (a * d < c * b \/ c * f < e * d) => a * f < e * b
    BY <2>1, <2>6, FractionsAreOrdered
  <2>8. ~(e * b < a * f)
    BY <2>3, <2>5, <2>7
  <2> QED
    BY <2>4, <2>7, <2>8
<1> HIDE DEF less, num, den
<1>6. \A x \in DOMAIN merged : ~Before(x, x)
  BY <1>1, <1>2, <1>4
<1>7. \A x, y \in DOMAIN merged : x # y => Before(x, y) \/ Before(y, x)
  BY <1>1, <1>2
<1>8. \A x, y, z \in DOMAIN merged : Before(x, y) /\ Before(y, z) => Before(x, z)
  <2> SUFFICES ASSUME NEW x \in DOMAIN merged, NEW y \in DOMAIN merged, NEW z \in DOMAIN merged,
                      Before(x, y), Before(y, z)
               PROVE  Before(x, z)
    OBVIOUS
  <2>1. ~less(x, y) /\ ~less(y, z)
    BY <1>2, <1>4
  <2>2. ~less(x, z) /\ (less(z, y) \/ less(y, x) => less(z, x))
    BY <1>5, <2>1
  <2>3. CASE less(y, x) \/ less(z, y)
    BY <1>2, <2>2, <2>3
  <2>4. CASE ~less(y, x) /\ ~less(z, y)
    <3>1. /\ BestRank(x) < BestRank(y) \/ (BestRank(x) = BestRank(y) /\ x < y)
          /\ BestRank(y) < BestRank(z) \/ (BestRank(y) = BestRank(z) /\ y < z)
      BY <1>2, <2>4
    <3>2. BestRank(x) < BestRank(z) \/ (BestRank(x) = BestRank(z) /\ x < z)
      BY <1>1, <3>1
    <3> QED
      BY <1>2, <2>2, <3>2
  <2> QED
    BY <2>3, <2>4
<1> QED
  BY <1>6, <1>7, <1>8

-----------------------------------------------------------------------------
(* Collapsing and sorting by it. *)

(* One turn of _collapse keeps the unbeaten. *)
LEMMA CollapseKeepsUnbeaten ==
    ASSUME FusionAssumption, DocsAssumption, ListsAreRankings, MergesInOrder, ScoresAreSums,
           RanksAreSeen, BothAreKept, KeptAreUnbeaten, collapse, Collapse
    PROVE  KeptAreUnbeaten'
<1>1. /\ stage = "collapse" /\ stage' = stage /\ merged' = merged
      /\ canonical' = canonical /\ collapse' = collapse
  BY DEF Collapse, fusionInputs
<1>2. \A x, y : Before(x, y)' <=> Before(x, y)
  BY <1>1 DEF Before, BestRank
<1>3. PICK d \in waiting :
        /\ waiting' = waiting \ {d}
        /\ LET same == {e \in kept : canonical[e] = canonical[d]}
           IN  kept' = IF \A e \in same : Before(d, e) THEN (kept \ same) \cup {d} ELSE kept
  BY DEF Collapse
<1> DEFINE same == {e \in kept : canonical[e] = canonical[d]}
           Old == DOMAIN merged \ waiting
           New == DOMAIN merged \ waiting'
           Alike(x, y) == canonical[x] = canonical[y]
<1>4. waiting \subseteq DOMAIN merged /\ d \in DOMAIN merged /\ d \notin Old /\ New = Old \cup {d}
  BY <1>1, <1>3 DEF BothAreKept
<1>5. /\ kept \subseteq Old
      /\ \A x \in kept, y \in Old : Alike(y, x) => ~Before(y, x)
      /\ \A x \in Old : \E e \in kept : Alike(e, x) /\ (e = x \/ Before(e, x))
  BY <1>1 DEF KeptAreUnbeaten
<1>6. /\ \A x \in New : ~Before(x, x)
      /\ \A x, y \in New : x # y => Before(x, y) \/ Before(y, x)
      /\ \A x, y, z \in New : Before(x, y) /\ Before(y, z) => Before(x, z)
  BY <1>1, <1>4, BeforeIsAnOrder
<1>7. /\ kept' \subseteq New
      /\ \A x \in kept', y \in New : Alike(y, x) => ~Before(y, x)
      /\ \A x \in New : \E e \in kept' : Alike(e, x) /\ (e = x \/ Before(e, x))
  <2>1. CASE \A e \in same : Before(d, e)
    <3>1. kept' = (kept \ same) \cup {d}
      BY <1>3, <2>1
    <3>2. \A y \in Old : Alike(y, d) => ~Before(y, d)
      <4> SUFFICES ASSUME NEW y \in Old, Alike(y, d), Before(y, d)
                   PROVE  FALSE
        OBVIOUS
      <4>1. PICK e \in kept : Alike(e, y) /\ (e = y \/ Before(e, y))
        BY <1>5
      <4>2. e \in same /\ Before(d, e) /\ e \in New /\ y \in New /\ d \in New
        BY <1>4, <1>5, <2>1, <4>1
      <4>3. Before(e, d)
        BY <1>6, <4>1, <4>2
      <4> QED
        BY <1>6, <4>2, <4>3
    <3>3. \A x \in kept', y \in New : Alike(y, x) => ~Before(y, x)
      <4> SUFFICES ASSUME NEW x \in kept', NEW y \in New, Alike(y, x)
                   PROVE  ~Before(y, x)
        OBVIOUS
      <4>1. CASE x = d
        BY <1>4, <1>6, <3>2, <4>1
      <4>2. CASE x # d
        <5>1. x \in kept /\ x \notin same
          BY <3>1, <4>2
        <5>2. y \in Old
          BY <1>4, <5>1
        <5> QED
          BY <1>5, <5>1, <5>2
      <4> QED
        BY <4>1, <4>2
    <3>4. \A x \in New : \E e \in kept' : Alike(e, x) /\ (e = x \/ Before(e, x))
      <4> SUFFICES ASSUME NEW x \in New
                   PROVE  \E e \in kept' : Alike(e, x) /\ (e = x \/ Before(e, x))
        OBVIOUS
      <4>1. CASE x = d
        BY <3>1, <4>1
      <4>2. CASE x # d
        <5>1. PICK e \in kept : Alike(e, x) /\ (e = x \/ Before(e, x))
          BY <1>4, <1>5, <4>2
        <5>2. CASE e \notin same
          BY <3>1, <5>1, <5>2
        <5>3. CASE e \in same
          <6>1. Before(d, e) /\ e \in New /\ d \in New /\ Alike(d, x)
            BY <1>4, <1>5, <2>1, <5>1, <5>3
          <6>2. Before(d, x)
            BY <1>6, <5>1, <6>1
          <6> QED
            BY <3>1, <6>1, <6>2
        <5> QED
          BY <5>2, <5>3
      <4> QED
        BY <4>1, <4>2
    <3> QED
      BY <1>4, <1>5, <3>1, <3>3, <3>4
  <2>2. CASE ~(\A e \in same : Before(d, e))
    <3>1. kept' = kept
      BY <1>3, <2>2
    <3>2. PICK e \in same : ~Before(d, e)
      BY <2>2
    <3>3. e \in kept /\ Alike(e, d) /\ Before(e, d) /\ e \in New /\ d \in New
      BY <1>4, <1>5, <1>6, <3>2
    <3>4. \A x \in kept : Alike(d, x) => ~Before(d, x)
      <4> SUFFICES ASSUME NEW x \in kept, Alike(d, x)
                   PROVE  ~Before(d, x)
        OBVIOUS
      <4>1. ~Before(e, x) /\ ~Before(x, e) /\ x \in New
        BY <1>4, <1>5, <3>3
      <4>2. x = e
        BY <1>6, <3>3, <4>1
      <4> QED
        BY <3>2, <4>2
    <3>5. \A x \in kept', y \in New : Alike(y, x) => ~Before(y, x)
      BY <1>4, <1>5, <3>1, <3>4
    <3> QED
      BY <1>4, <1>5, <3>1, <3>3, <3>5
  <2> QED
    BY <2>1, <2>2
<1>8. kept' \subseteq DOMAIN merged' \ waiting'
  BY <1>1, <1>7
<1>9. \A x \in DOMAIN merged' \ waiting' :
        /\ x \in kept' => \A y \in DOMAIN merged' \ waiting' :
                             canonical'[y] = canonical'[x] => ~Before(y, x)'
        /\ \E e \in kept' : canonical'[e] = canonical'[x] /\ (e = x \/ Before(e, x)')
  <2> SUFFICES ASSUME NEW x \in DOMAIN merged' \ waiting'
               PROVE  /\ x \in kept' => \A y \in DOMAIN merged' \ waiting' :
                             canonical'[y] = canonical'[x] => ~Before(y, x)'
                      /\ \E e \in kept' : canonical'[e] = canonical'[x]
                                          /\ (e = x \/ Before(e, x)')
    OBVIOUS
  <2>1. x \in New /\ New = DOMAIN merged' \ waiting'
    BY <1>1
  <2>2. PICK e \in kept' : Alike(e, x) /\ (e = x \/ Before(e, x))
    BY <1>7, <2>1
  <2>3. canonical'[e] = canonical'[x] /\ (e = x \/ Before(e, x)')
    BY <1>1, <1>2, <2>2
  <2>4. x \in kept' => \A y \in New : Alike(y, x) => ~Before(y, x)
    BY <1>7
  <2>5. x \in kept' => \A y \in DOMAIN merged' \ waiting' :
                           canonical'[y] = canonical'[x] => ~Before(y, x)'
    BY <1>1, <1>2, <2>1, <2>4
  <2> QED
    BY <2>3, <2>5
<1> QED
  BY <1>8, <1>9, Zenon DEF KeptAreUnbeaten

(* What the sort starts from, and the order it sorts by, are the
   reference's. *)
LEMMA KeptAreReference ==
    ASSUME FusionAssumption, ListsAreRankings, MergesInOrder, ScoresAreSums, RanksAreSeen,
           BothAreKept, KeptAreUnbeaten, stage = "collapse", waiting = {}
    PROVE  /\ \A x, y \in DOMAIN merged : RefBeats(x, y) <=> Before(x, y)
           /\ kept = RefKept
<1>1. DOMAIN merged = Found
  BY FoundWereMerged
<1>2. \A x, y \in DOMAIN merged : RefBeats(x, y) <=> Before(x, y)
  <2>1. \A x \in DOMAIN merged : merged[x].score = RefScore(x) /\ BestRank(x) = RefBest(x)
    BY MergedIsReference
  <2> QED
    BY <2>1 DEF RefBeats, Before
<1>3. /\ kept \subseteq Found
      /\ ~collapse => kept = Found
      /\ collapse => \A x \in Found :
           /\ x \in kept => \A y \in Found : canonical[y] = canonical[x] => ~Before(y, x)
           /\ \E e \in kept : canonical[e] = canonical[x] /\ (e = x \/ Before(e, x))
  BY <1>1 DEF KeptAreUnbeaten, BothAreKept
<1>4. CASE ~collapse
  BY <1>2, <1>3, <1>4 DEF RefKept
<1>5. CASE collapse
  <2>1. RefKept = {x \in Found : \A y \in Found : canonical[y] = canonical[x] => ~Before(y, x)}
    BY <1>1, <1>2, <1>5 DEF RefKept
  <2>2. \A x \in Found :
          (\A y \in Found : canonical[y] = canonical[x] => ~Before(y, x)) <=> x \in kept
    BY <1>3, <1>5
  <2>3. kept \subseteq Found
    BY <1>3
  <2> DEFINE best(x) == \A y \in Found : canonical[y] = canonical[x] => ~Before(y, x)
  <2>4. RefKept = {x \in Found : best(x)} /\ \A x \in Found : best(x) <=> x \in kept
    BY <2>1, <2>2
  <2> HIDE DEF best
  <2>5. RefKept = kept
    BY <2>3, <2>4
  <2> QED
    BY <1>2, <2>5
<1> QED
  BY <1>2, <1>4, <1>5

(* s lists the n elements of S, sorted by the strict order R. *)
Sorts(s, n, S, R) ==
    /\ n \in Nat /\ s \in [1..n -> S] /\ S \subseteq {s[j] : j \in 1..n}
    /\ \A j, k \in 1..n : j < k => <<s[j], s[k]>> \in R
    /\ \A x \in S : <<x, x>> \notin R
    /\ \A x, y, z \in S : <<x, y>> \in R /\ <<y, z>> \in R => <<x, z>> \in R

(* As many elements are before the i-th as it has predecessors. *)
LEMMA PositionCountsPredecessors ==
    ASSUME NEW S, NEW n, NEW s, NEW R, Sorts(s, n, S, R), NEW i \in 1..n,
           NEW before \in SUBSET S, \A e \in S : e \in before <=> <<e, s[i]>> \in R
    PROVE  Cardinality(before) = i - 1
<1>0. /\ n \in Nat /\ s \in [1..n -> S] /\ S \subseteq {s[j] : j \in 1..n}
      /\ \A j, k \in 1..n : j < k => <<s[j], s[k]>> \in R
      /\ \A x \in S : <<x, x>> \notin R
      /\ \A x, y, z \in S : <<x, y>> \in R /\ <<y, z>> \in R => <<x, z>> \in R
  BY DEF Sorts
<1>1. \A j, k \in 1..n : s[j] = s[k] => j = k
  <2> SUFFICES ASSUME NEW j \in 1..n, NEW k \in 1..n, s[j] = s[k], j # k
               PROVE  FALSE
    OBVIOUS
  <2>1. s[j] \in S /\ s[k] \in S
    BY <1>0
  <2>2. j < k \/ k < j
    BY <1>0
  <2> QED
    BY <1>0, <2>1, <2>2
<1>2. before = {s[j] : j \in 1..(i - 1)}
  <2>1. \A j \in 1..(i - 1) : j \in 1..n /\ j < i
    BY <1>0
  <2>2. \A j \in 1..(i - 1) : s[j] \in before
    BY <1>0, <2>1
  <2>3. ASSUME NEW e \in before
        PROVE  \E j \in 1..(i - 1) : e = s[j]
    <3>1. PICK j \in 1..n : e = s[j]
      BY <1>0
    <3>2. ~(i < j)
      <4> SUFFICES ASSUME i < j
                   PROVE  FALSE
        OBVIOUS
      <4>1. <<s[i], e>> \in R /\ <<e, s[i]>> \in R /\ s[i] \in S /\ e \in S
        BY <1>0, <3>1
      <4> QED
        BY <1>0, <4>1
    <3>3. i # j
      BY <1>0, <3>1
    <3>4. j \in 1..(i - 1)
      BY <1>0, <3>2, <3>3
    <3> QED
      BY <3>1, <3>4
  <2> QED
    BY <2>2, <2>3
<1> DEFINE f == [j \in 1..(i - 1) |-> s[j]]
<1>3. f \in Bijection(1..(i - 1), before)
  <2>1. f \in [1..(i - 1) -> before]
    BY <1>2
  <2>2. \A j, k \in 1..(i - 1) : f[j] = f[k] => j = k
    <3>1. \A j \in 1..(i - 1) : j \in 1..n /\ f[j] = s[j]
      BY <1>0
    <3> QED
      BY <1>1, <3>1
  <2>3. \A e \in before : \E j \in 1..(i - 1) : f[j] = e
    BY <1>2
  <2> HIDE DEF f
  <2>4. f \in Injection(1..(i - 1), before)
    BY <2>1, <2>2 DEF Injection, IsInjective
  <2>5. f \in Surjection(1..(i - 1), before)
    BY <2>1, <2>3 DEF Surjection
  <2> QED
    BY <2>4, <2>5 DEF Bijection
<1>4. IsFiniteSet(1..(i - 1)) /\ Cardinality(1..(i - 1)) = i - 1
  <2>1. i \in Int /\ i >= 1 /\ 1 \in Int /\ i - 1 \in Int
    BY <1>0
  <2>2. Cardinality(1..(i - 1)) = IF 1 > i - 1 THEN 0 ELSE (i - 1) - 1 + 1
    BY <2>1, FS_Interval
  <2> QED
    BY <2>1, <2>2, FS_Interval
<1> HIDE DEF f
<1>5. Cardinality(before) = Cardinality(1..(i - 1))
  <2>1. ExistsBijection(1..(i - 1), before)
    BY <1>3 DEF ExistsBijection
  <2> QED
    BY <1>4, <2>1, FS_Bijection, Zenon
<1>6. Cardinality(before) = i - 1
  BY <1>4, <1>5
<1> QED
  BY <1>6

(* Sorting and cutting yields the ranking of the reference. *)
LEMMA RankMatches ==
    ASSUME FusionAssumption, DocsAssumption, topK \in TopKs,
           ListsAreRankings, MergesInOrder, ScoresAreSums, RanksAreSeen, BothAreKept,
           KeptAreUnbeaten, Rank
    PROVE  /\ DOMAIN result'
                = 1..(IF Cardinality(RefKept) < topK THEN Cardinality(RefKept) ELSE topK)
           /\ \A i \in DOMAIN result' :
                /\ result'[i] \in RefKept
                /\ Cardinality({e \in RefKept : RefBeats(e, result'[i])}) = i - 1
<1>1. stage = "collapse" /\ waiting = {} /\ topK \in Nat
  BY FusionAssumption DEF Rank, FusionAssumption
<1>2. PICK s :
        /\ s \in [1..Cardinality(kept) -> kept]
        /\ kept \subseteq {s[i] : i \in DOMAIN s}
        /\ \A i, j \in DOMAIN s : i < j => Before(s[i], s[j])
        /\ result' = [i \in {x \in DOMAIN s : x <= topK} |-> s[i]]
  BY DEF Rank
<1> DEFINE size == Cardinality(kept)
           order == {p \in kept \X kept : Before(p[1], p[2])}
<1>3. size \in Nat /\ DOMAIN s = 1..size
  BY <1>1, <1>2, KeptIsFinite
<1>4. /\ \A x, y \in DOMAIN merged : RefBeats(x, y) <=> Before(x, y)
      /\ kept = RefKept /\ kept \subseteq DOMAIN merged
  BY <1>1, KeptAreReference DEF KeptAreUnbeaten
<1>5. \A x, y \in kept : <<x, y>> \in order <=> Before(x, y)
  OBVIOUS
<1>6. /\ \A x \in kept : <<x, x>> \notin order
      /\ \A x, y, z \in kept : <<x, y>> \in order /\ <<y, z>> \in order => <<x, z>> \in order
  <2>1. /\ \A x \in kept : ~Before(x, x)
        /\ \A x, y, z \in kept : Before(x, y) /\ Before(y, z) => Before(x, z)
    BY <1>1, <1>4, BeforeIsAnOrder
  <2> HIDE DEF order
  <2> QED
    BY <1>5, <2>1
<1>7. DOMAIN result' = 1..(IF size < topK THEN size ELSE topK)
  <2>1. DOMAIN result' = {x \in 1..size : x <= topK}
    BY <1>2, <1>3
  <2> HIDE DEF size
  <2> QED
    BY <1>1, <1>3, <2>1
<1>8. ASSUME NEW i \in DOMAIN result'
      PROVE  result'[i] \in kept /\ Cardinality({e \in kept : RefBeats(e, result'[i])}) = i - 1
  <2>1. i \in 1..size /\ result'[i] = s[i] /\ s[i] \in kept
    BY <1>2, <1>3
  <2>2. \A e \in kept : RefBeats(e, s[i]) <=> <<e, s[i]>> \in order
    BY <1>4, <1>5, <2>1
  <2> DEFINE above == {e \in kept : RefBeats(e, s[i])}
  <2>3. above \in SUBSET kept /\ \A e \in kept : e \in above <=> <<e, s[i]>> \in order
    BY <2>2
  <2>4. \A j, k \in 1..size : j < k => <<s[j], s[k]>> \in order
    BY <1>2, <1>3, <1>5
  <2>5. kept \subseteq {s[j] : j \in 1..size} /\ s \in [1..size -> kept]
    BY <1>2, <1>3
  <2> HIDE DEF size, order, above
  <2>6. Sorts(s, size, kept, order)
    BY <1>3, <1>6, <2>4, <2>5 DEF Sorts
  <2>7. Cardinality(above) = i - 1
    BY <2>1, <2>3, <2>6, PositionCountsPredecessors
  <2> QED
    BY <2>1, <2>7 DEF above
<1> QED
  BY <1>4, <1>7, <1>8

(* The reference is a function of the request and of the lists. *)
LEMMA ReferenceStays ==
    ASSUME lists' = lists, canonical' = canonical, collapse' = collapse
    PROVE  /\ RefKept' = RefKept
           /\ \A d, e : RefBeats(d, e)' <=> RefBeats(d, e)
<1>1. \A d : \A r : (FoundBy(d, r)' <=> FoundBy(d, r)) /\ RankIn(d, r)' = RankIn(d, r)
  BY DEF FoundBy, RankIn
<1>2. \A d : InBoth(d)' <=> InBoth(d)
  BY <1>1 DEF InBoth
<1>3. \A d : RefScore(d)' = RefScore(d)
  BY <1>1, <1>2 DEF RefScore
<1>4. \A d : RefBest(d)' = RefBest(d)
  BY <1>1 DEF RefBest
<1>5. \A d, e : RefBeats(d, e)' <=> RefBeats(d, e)
  BY <1>3, <1>4 DEF RefBeats
<1>6. Found' = Found
  BY <1>1 DEF Found
<1>7. RefKept' = RefKept
  BY <1>5, <1>6 DEF RefKept
<1> QED
  BY <1>5, <1>7

(* What leaves the lists and the merged documents alone leaves their ranks alone. *)
LEMMA RanksStay ==
    ASSUME RanksAreSeen, lists' = lists, merged' = merged,
           \A r \in Backends : Seen(r)' = Seen(r)
    PROVE  RanksAreSeen'
<1> SUFFICES ASSUME NEW d \in DOMAIN merged'
             PROVE  LET entry == merged'[d]
                    IN  /\ DOMAIN entry.ranks
                             = {r \in Backends : \E i \in Seen(r)' : lists'[r][i] = d}
                        /\ \A r \in DOMAIN entry.ranks :
                             entry.ranks[r] \in Seen(r)' /\ lists'[r][entry.ranks[r]] = d
                        /\ entry.shown \in DOMAIN entry.ranks
                        /\ \A r \in DOMAIN entry.ranks :
                             \/ entry.ranks[entry.shown] < entry.ranks[r]
                             \/ entry.ranks[entry.shown] = entry.ranks[r] /\ entry.shown <= r
  BY DEF RanksAreSeen
<1> DEFINE entry == merged[d]
<1>1. /\ DOMAIN entry.ranks = {r \in Backends : \E i \in Seen(r) : lists[r][i] = d}
      /\ \A r \in DOMAIN entry.ranks : entry.ranks[r] \in Seen(r) /\ lists[r][entry.ranks[r]] = d
      /\ entry.shown \in DOMAIN entry.ranks
      /\ \A r \in DOMAIN entry.ranks :
           \/ entry.ranks[entry.shown] < entry.ranks[r]
           \/ entry.ranks[entry.shown] = entry.ranks[r] /\ entry.shown <= r
  BY DEF RanksAreSeen
<1>2. merged'[d] = entry
  OBVIOUS
<1> HIDE DEF entry
<1>3. DOMAIN entry.ranks = {r \in Backends : \E i \in Seen(r)' : lists'[r][i] = d}
  BY <1>1
<1>4. \A r \in DOMAIN entry.ranks : entry.ranks[r] \in Seen(r)' /\ lists'[r][entry.ranks[r]] = d
  BY <1>1
<1> QED
  BY <1>1, <1>2, <1>3, <1>4

LEMMA RankingInvInit ==
    ASSUME FusionInit
    PROVE  RankingInv
<1>1. merged = [d \in {} |-> NoEntry] /\ DOMAIN merged = {}
  BY DEF FusionInit
<1> QED
  BY <1>1 DEF FusionInit, RankingInv, RanksAreSeen, KeptAreUnbeaten, RankingMatchesReference

LEMMA RankingInvNext ==
    ASSUME FusionAssumption, DocsAssumption, RequestIsLegal, FusionInv, RankingInv, [FusionNext]_fusionVars
    PROVE  RankingInv'
<1>1. /\ lists' = lists /\ canonical' = canonical /\ collapse' = collapse
      /\ hybrid' = hybrid /\ topK' = topK /\ collapse \in BOOLEAN /\ topK \in TopKs
  BY DEF RequestIsLegal, FusionNext, PassThrough, Merge, NextRetriever, Merged, Collapse, Rank,
         fusionInputs, fusionVars
<1>2. CASE ~hybrid
  <2>1. stage \in {"pass", "done"} /\ merged = [d \in {} |-> NoEntry]
    BY <1>2 DEF RankingInv
  <2>2. stage' \in {"pass", "done"} /\ merged' = merged
    BY <2>1 DEF FusionNext, PassThrough, Merge, NextRetriever, Merged, Collapse, Rank, fusionVars
  <2> QED
    BY <1>1, <1>2, <2>1, <2>2 DEF RankingInv
<1>3. CASE hybrid
  <2>1. /\ stage \in {"merge", "collapse", "done"}
        /\ ListsAreRankings /\ MergesInOrder /\ ScoresAreSums /\ BothAreKept
        /\ RanksAreSeen /\ KeptAreUnbeaten /\ RankingMatchesReference
    BY <1>3 DEF FusionInv, RankingInv
  <2>2. SUFFICES RanksAreSeen' /\ KeptAreUnbeaten' /\ RankingMatchesReference'
    BY <1>1, <1>3 DEF RankingInv
  <2>3. CASE Merge
    <3>1. stage' = "merge"
      BY <2>3 DEF Merge
    <3>2. RanksAreSeen'
      BY <2>1, <2>3, MergeKeepsRanks
    <3> QED
      BY <3>1, <3>2 DEF KeptAreUnbeaten, RankingMatchesReference
  <2>4. CASE NextRetriever
    <3>1. stage = "merge" /\ stage' = "merge" /\ at[1] = 1 /\ at[2] \notin DOMAIN lists[at[1]]
          /\ at' = <<2, 1>> /\ at'[1] = 2 /\ at'[2] = 1 /\ merged' = merged
      BY <2>4 DEF NextRetriever
    <3>2. Seen(1) = DOMAIN lists[1]
      BY <2>1, <3>1, ListIsSeen
    <3>3. 1..(1 - 1) = {}
      OBVIOUS
    <3>4. \A r \in Backends : Seen(r)' = Seen(r)
      BY <1>1, <3>1, <3>2, <3>3 DEF Seen, Backends
    <3>5. RanksAreSeen'
      BY <1>1, <2>1, <3>1, <3>4, RanksStay
    <3> QED
      BY <3>1, <3>5 DEF KeptAreUnbeaten, RankingMatchesReference
  <2>5. CASE Merged
    <3>1. stage = "merge" /\ stage' = "collapse" /\ at[1] = 2 /\ at[2] \notin DOMAIN lists[at[1]]
          /\ merged' = merged
          /\ waiting' = (IF collapse THEN DOMAIN merged ELSE {})
          /\ kept' = (IF collapse THEN {} ELSE DOMAIN merged)
      BY <2>5 DEF Merged
    <3>2. Seen(2) = DOMAIN lists[2]
      BY <2>1, <3>1, ListIsSeen
    <3>3. \A r \in Backends : Seen(r)' = Seen(r)
      BY <1>1, <3>1, <3>2 DEF Seen, Backends
    <3>4. RanksAreSeen'
      BY <1>1, <2>1, <3>1, <3>3, RanksStay
    <3>5. KeptAreUnbeaten'
      BY <1>1, <3>1 DEF KeptAreUnbeaten
    <3> QED
      BY <3>1, <3>4, <3>5 DEF RankingMatchesReference
  <2>6. CASE Collapse
    <3>1. stage = "collapse" /\ stage' = stage /\ merged' = merged /\ waiting # {}
      BY <2>6 DEF Collapse
    <3>2. \A r \in Backends : Seen(r)' = Seen(r)
      BY <1>1, <3>1 DEF Seen
    <3>3. RanksAreSeen'
      BY <1>1, <2>1, <3>1, <3>2, RanksStay
    <3>4. collapse
      BY <1>1, <2>1, <3>1 DEF BothAreKept
    <3>5. KeptAreUnbeaten'
      BY <2>1, <2>6, <3>4, CollapseKeepsUnbeaten
    <3> QED
      BY <3>1, <3>3, <3>5 DEF RankingMatchesReference
  <2>7. CASE Rank
    <3>1. stage = "collapse" /\ stage' = "done" /\ merged' = merged
      BY <2>7 DEF Rank
    <3>2. \A r \in Backends : Seen(r)' = Seen(r)
      BY <1>1, <3>1 DEF Seen
    <3>3. RanksAreSeen'
      BY <1>1, <2>1, <3>1, <3>2, RanksStay
    <3>4. RankingMatchesReference'
      <4>1. /\ DOMAIN result'
                 = 1..(IF Cardinality(RefKept) < topK THEN Cardinality(RefKept) ELSE topK)
            /\ \A i \in DOMAIN result' :
                 /\ result'[i] \in RefKept
                 /\ Cardinality({e \in RefKept : RefBeats(e, result'[i])}) = i - 1
        BY <1>1, <2>1, <2>7, RankMatches
      <4>2. RefKept' = RefKept /\ \A d, e : RefBeats(d, e)' <=> RefBeats(d, e)
        BY <1>1, ReferenceStays
      <4>3. \A d : {e \in RefKept' : RefBeats(e, d)'} = {e \in RefKept : RefBeats(e, d)}
        BY <4>2
      <4> QED
        BY <1>1, <4>1, <4>2, <4>3 DEF RankingMatchesReference
    <3> QED
      BY <3>1, <3>3, <3>4 DEF KeptAreUnbeaten
  <2>8. CASE PassThrough
    BY <2>1, <2>8 DEF PassThrough
  <2>9. CASE UNCHANGED fusionVars
    <3>1. stage' = stage /\ at' = at /\ merged' = merged /\ waiting' = waiting /\ kept' = kept
          /\ result' = result
      BY <2>9 DEF fusionVars
    <3>2. \A r \in Backends : Seen(r)' = Seen(r)
      BY <1>1, <3>1 DEF Seen
    <3>3. RanksAreSeen'
      BY <1>1, <2>1, <3>1, <3>2, RanksStay
    <3>4. \A x, y : Before(x, y)' <=> Before(x, y)
      BY <3>1 DEF Before, BestRank
    <3>5. KeptAreUnbeaten'
      BY <1>1, <2>1, <3>1, <3>4 DEF KeptAreUnbeaten
    <3>6. RefKept' = RefKept /\ \A d, e : RefBeats(d, e)' <=> RefBeats(d, e)
      BY <1>1, ReferenceStays
    <3>7. \A d : {e \in RefKept' : RefBeats(e, d)'} = {e \in RefKept : RefBeats(e, d)}
      BY <3>6
    <3>8. RankingMatchesReference'
      BY <1>1, <1>3, <2>1, <3>1, <3>6, <3>7 DEF RankingMatchesReference
    <3> QED
      BY <3>3, <3>5, <3>8
  <2> QED
    BY <2>3, <2>4, <2>5, <2>6, <2>7, <2>8, <2>9 DEF FusionNext
<1> QED
  BY <1>1, <1>2, <1>3

(* Both invariants together. *)
LEMMA FusionKeepsInv == FusionSpec => [](RequestIsLegal /\ FusionInv /\ RankingInv)
<1>1. FusionInit => RequestIsLegal /\ FusionInv /\ RankingInv
  BY InvInit, RankingInvInit, FusionAssumption
<1>2. (RequestIsLegal /\ FusionInv /\ RankingInv) /\ [FusionNext]_fusionVars
        => (RequestIsLegal /\ FusionInv /\ RankingInv)'
  BY InvNext, RankingInvNext, FusionAssumption, PoolAssumption, DocsAssumption
<1> QED
  BY <1>1, <1>2, PTL DEF FusionSpec

(* In whatever order candidates are merged and collapsed, the ranking is that of
   the reference computed from the lists. *)
THEOREM RankingIsReference == FusionSpec => []RankingMatchesReference
<1>1. RequestIsLegal /\ FusionInv /\ RankingInv => RankingMatchesReference
  BY DEF RequestIsLegal, RankingInv, RankingMatchesReference
<1> QED
  BY <1>1, FusionKeepsInv, PTL

(* The text shown for a document is that of the retriever that ranked it best,
   the first of them when they ranked it alike. *)
THEOREM BestVariantIsShown == FusionSpec => []ShownVariantIsBest
<1>1. RequestIsLegal /\ FusionInv /\ RankingInv => ShownVariantIsBest
  <2>1. CASE hybrid
    BY <2>1, FusionAssumption, VariantsAreBest DEF FusionInv, RankingInv
  <2>2. CASE ~hybrid
    BY <2>2 DEF RankingInv, ShownVariantIsBest
  <2> QED
    BY <2>1, <2>2
<1> QED
  BY <1>1, FusionKeepsInv, PTL
=============================================================================
