----------------------------- MODULE RankFusion -----------------------------
(***************************************************************************)
(* RetrievalPipeline.run (src/search/pipeline.py) and                      *)
(* reciprocal_rank_fusion (src/search/fusion.py): the lists of the lexical *)
(* and of the dense retriever become one ranking.                          *)
(*                                                                         *)
(* Scores are exact rationals <<numerator, denominator>>; the code adds    *)
(* the same terms in floating point.  Documents are numbers in the order   *)
(* of their ids, retrievers in the order of their names.  Both default     *)
(* weights are 1.  A retriever lists a document once: both stores key      *)
(* their contents by document.                                             *)
(***************************************************************************)
EXTENDS Naturals, FiniteSets, Sequences

CONSTANTS
    Docs,           \* documents
    Canonicals,     \* values of canonical_content_id
    RrfK,           \* RRF_K
    Pool,           \* CANDIDATE_POOL
    TopKs           \* the values of top_k a caller may ask for

ASSUME DocsAssumption == Docs \subseteq Nat
ASSUME FusionAssumption ==
    /\ RrfK \in Nat
    /\ Pool \in Nat
    /\ TopKs \subseteq 1..Pool

(* The same document found by both outranks a document found by one only
   because the pool is this small next to rrf_k (50 and 60 in the code). *)
ASSUME PoolAssumption == Pool < RrfK + 2

Backends == 1..2      \* opensearch_lexical, qdrant_dense

VARIABLES
    lists,          \* what the retrievers returned, best first
    canonical,      \* canonical_content_id of each document
    topK, collapse, hybrid,
    stage,
    at,             \* <<retriever, rank>>: the next candidate to merge
    merged,         \* document -> its _Merged
    waiting,        \* candidates _collapse has not looked at
    kept,           \* candidates it keeps so far
    result          \* the ranking handed on

fusionInputs == <<lists, canonical, topK, collapse, hybrid>>
fusionVars == <<lists, canonical, topK, collapse, hybrid, stage, at, merged, waiting, kept, result>>

-----------------------------------------------------------------------------
(* Scores *)

Plus(q, d) == <<q[1] * d + q[2], q[2] * d>>     \* q + 1/d
Less(p, q) == p[1] * q[2] < q[1] * p[2]

(* _Merged before and after add. *)
NoEntry == [score |-> <<0, 1>>, ranks |-> [r \in {} |-> 0], shown |-> 0]

(* Slip: the latest variant is the one shown. *)
AddedLatest(entry, r, rank) ==
    [score |-> Plus(entry.score, RrfK + rank),
     ranks |-> [x \in DOMAIN entry.ranks \cup {r} |-> IF x = r THEN rank ELSE entry.ranks[x]],
     shown |-> r]

Added(entry, r, rank) ==
    [score |-> Plus(entry.score, RrfK + rank),
     ranks |-> [x \in DOMAIN entry.ranks \cup {r} |-> IF x = r THEN rank ELSE entry.ranks[x]],
     shown |-> IF \/ entry.shown = 0
                  \/ rank < entry.ranks[entry.shown]
                  \/ rank = entry.ranks[entry.shown] /\ r < entry.shown
               THEN r ELSE entry.shown]

(* best_rank *)
BestRank(d) ==
    CHOOSE n \in {merged[d].ranks[r] : r \in DOMAIN merged[d].ranks} :
        \A r \in DOMAIN merged[d].ranks : n <= merged[d].ranks[r]

(* _ordering_key *)
Before(d, e) ==
    \/ Less(merged[e].score, merged[d].score)
    \/ /\ ~Less(merged[d].score, merged[e].score)
       /\ \/ BestRank(d) < BestRank(e)
          \/ BestRank(d) = BestRank(e) /\ d < e

-----------------------------------------------------------------------------
(* What a retriever may return when it is asked for n candidates. *)
Rankings(n) ==
    UNION {{s \in [1..k -> Docs] : \A i, j \in 1..k : s[i] = s[j] => i = j} : k \in 0..n}

(* One retriever is asked for top_k; with two, each for the candidate pool. *)
FusionInit ==
    /\ topK \in TopKs
    /\ collapse \in BOOLEAN
    /\ hybrid \in BOOLEAN
    /\ canonical \in [Docs -> Canonicals]
    /\ \E first \in Rankings(IF hybrid THEN Pool ELSE topK),
          second \in Rankings(IF hybrid THEN Pool ELSE 0) : lists = <<first, second>>
    /\ stage = IF hybrid THEN "merge" ELSE "pass"
    /\ at = <<1, 1>>
    /\ merged = [d \in {} |-> NoEntry]
    /\ waiting = {}
    /\ kept = {}
    /\ result = << >>

(* A lone retriever's list goes through untouched. *)
PassThrough ==
    /\ stage = "pass"
    /\ result' = lists[1]
    /\ stage' = "done"
    /\ UNCHANGED <<fusionInputs, at, merged, waiting, kept>>

(* Slip: a document that is already there is not added to. *)
MergeFirstOnly ==
    LET r == at[1]  rank == at[2]  d == lists[r][rank]
    IN  /\ stage = "merge"
        /\ rank \in DOMAIN lists[r]
        /\ merged' = [x \in DOMAIN merged \cup {d} |->
                        IF x \in DOMAIN merged THEN merged[x] ELSE Added(NoEntry, r, rank)]
        /\ at' = <<r, rank + 1>>
        /\ UNCHANGED <<fusionInputs, stage, waiting, kept, result>>

(* One turn of the loops over the retrievers and their candidates. *)
Merge ==
    LET r == at[1]  rank == at[2]  d == lists[r][rank]
    IN  /\ stage = "merge"
        /\ rank \in DOMAIN lists[r]
        /\ merged' = [x \in DOMAIN merged \cup {d} |->
                        IF x # d THEN merged[x]
                        ELSE Added(IF d \in DOMAIN merged THEN merged[d] ELSE NoEntry, r, rank)]
        /\ at' = <<r, rank + 1>>
        /\ UNCHANGED <<fusionInputs, stage, waiting, kept, result>>

NextRetriever ==
    /\ stage = "merge"
    /\ at[1] = 1 /\ at[2] \notin DOMAIN lists[1]
    /\ at' = <<2, 1>>
    /\ UNCHANGED <<fusionInputs, stage, merged, waiting, kept, result>>

Merged ==
    /\ stage = "merge"
    /\ at[1] = 2 /\ at[2] \notin DOMAIN lists[2]
    /\ stage' = "collapse"
    /\ waiting' = IF collapse THEN DOMAIN merged ELSE {}
    /\ kept' = IF collapse THEN {} ELSE DOMAIN merged
    /\ UNCHANGED <<fusionInputs, at, merged, result>>

(* Slip: the first document of its kind stays. *)
CollapseToFirst ==
    /\ stage = "collapse"
    /\ \E d \in waiting :
         /\ waiting' = waiting \ {d}
         /\ kept' = IF \E e \in kept : canonical[e] = canonical[d]
                    THEN kept ELSE kept \cup {d}
    /\ UNCHANGED <<fusionInputs, stage, at, merged, result>>

(* One turn of the loop of _collapse, in whatever order it comes to them. *)
Collapse ==
    /\ stage = "collapse"
    /\ \E d \in waiting :
         /\ waiting' = waiting \ {d}
         /\ LET same == {e \in kept : canonical[e] = canonical[d]}
            IN  kept' = IF \A e \in same : Before(d, e) THEN (kept \ same) \cup {d} ELSE kept
    /\ UNCHANGED <<fusionInputs, stage, at, merged, result>>

(* Sort and cut to top_k. *)
Rank ==
    /\ stage = "collapse"
    /\ waiting = {}
    /\ \E s \in [1..Cardinality(kept) -> kept] :
         /\ kept \subseteq {s[i] : i \in DOMAIN s}
         /\ \A i, j \in DOMAIN s : i < j => Before(s[i], s[j])
         /\ result' = [i \in {x \in DOMAIN s : x <= topK} |-> s[i]]
    /\ stage' = "done"
    /\ UNCHANGED <<fusionInputs, at, merged, waiting, kept>>

FusionNext == PassThrough \/ Merge \/ NextRetriever \/ Merged \/ Collapse \/ Rank

FusionSpec == FusionInit /\ [][FusionNext]_fusionVars

-----------------------------------------------------------------------------
(* Properties *)

FoundBy(d, r) == \E i \in DOMAIN lists[r] : lists[r][i] = d
InBoth(d) == \A r \in Backends : FoundBy(d, r)
InOne(d) == (\E r \in Backends : FoundBy(d, r)) /\ ~InBoth(d)

(* The docstring of fusion.py: a document found by both backends outranks one
   found by a single backend.  Wherever one of the latter is shown, each of
   the former, or the document it collapsed into, is shown above it. *)
BothOutrankOne ==
    stage = "done" /\ hybrid =>
        \A i \in DOMAIN result, d \in Docs :
            InOne(result[i]) /\ InBoth(d) =>
                \E j \in DOMAIN result :
                    /\ j < i
                    /\ \/ result[j] = d
                       \/ collapse /\ canonical[result[j]] = canonical[d]

(* The reference: scores from the lists themselves, rank by rank counting. *)
RankIn(d, r) == CHOOSE i \in DOMAIN lists[r] : lists[r][i] = d
Found == {d \in Docs : \E r \in Backends : FoundBy(d, r)}
RefScore(d) ==
    IF InBoth(d) THEN <<2 * RrfK + RankIn(d, 1) + RankIn(d, 2),
                        (RrfK + RankIn(d, 1)) * (RrfK + RankIn(d, 2))>>
    ELSE <<1, RrfK + (IF FoundBy(d, 1) THEN RankIn(d, 1) ELSE RankIn(d, 2))>>
RefBest(d) ==
    CHOOSE n \in 1..Pool :
        /\ \E r \in Backends : FoundBy(d, r) /\ RankIn(d, r) = n
        /\ \A r \in Backends : FoundBy(d, r) => n <= RankIn(d, r)
RefBeats(d, e) ==
    \/ Less(RefScore(e), RefScore(d))
    \/ /\ ~Less(RefScore(d), RefScore(e))
       /\ RefBest(d) < RefBest(e) \/ (RefBest(d) = RefBest(e) /\ d < e)
RefKept ==
    {d \in Found : collapse => \A e \in Found :
                        canonical[e] = canonical[d] => ~RefBeats(e, d)}

(* Whatever order documents are merged and collapsed in, the ranking is the
   top of the documents that no other document of the same canonical content
   beats: nothing stronger is lost, no position is skipped. *)
RankingMatchesReference ==
    stage = "done" /\ hybrid =>
        /\ DOMAIN result = 1..(IF Cardinality(RefKept) < topK THEN Cardinality(RefKept) ELSE topK)
        /\ \A i \in DOMAIN result :
             /\ result[i] \in RefKept
             /\ Cardinality({e \in RefKept : RefBeats(e, result[i])}) = i - 1

(* The text shown for a document comes from the retriever that ranked it best,
   the lexical one when both did, so that it does not depend on the order the
   backends were asked in. *)
ShownVariantIsBest ==
    \A d \in DOMAIN merged :
        /\ FoundBy(d, merged[d].shown)
        /\ RankIn(d, merged[d].shown) = BestRank(d)
        /\ \A r \in DOMAIN merged[d].ranks :
             RankIn(d, r) = BestRank(d) => merged[d].shown <= r

-----------------------------------------------------------------------------
(* Why BothOutrankOne holds: the inductive invariant behind it.                *)

(* The ranks of list r that are already merged. *)
Seen(r) ==
    IF stage # "merge" \/ r < at[1] THEN DOMAIN lists[r]
    ELSE IF r = at[1] THEN 1..(at[2] - 1) ELSE {}

ListsAreRankings ==
    /\ \A r \in Backends : \E k \in 0..Pool : lists[r] \in [1..k -> Docs]
    /\ \A r \in Backends : \A i, j \in DOMAIN lists[r] :
         lists[r][i] = lists[r][j] => i = j

MergesInOrder ==
    stage = "merge" => /\ at \in Backends \X (Nat \ {0})
                    /\ 1..(at[2] - 1) \subseteq DOMAIN lists[at[1]]

ScoresAreSums ==
    /\ DOMAIN merged = {d \in Docs : \E r \in Backends : \E i \in Seen(r) : lists[r][i] = d}
    /\ \A i \in Seen(1) :
         (\A j \in Seen(2) : lists[2][j] # lists[1][i]) =>
             merged[lists[1][i]].score = <<1, RrfK + i>>
    /\ \A j \in Seen(2) :
         (\A i \in Seen(1) : lists[1][i] # lists[2][j]) =>
             merged[lists[2][j]].score = <<1, RrfK + j>>
    /\ \A i \in Seen(1), j \in Seen(2) :
         lists[1][i] = lists[2][j] =>
             merged[lists[1][i]].score = <<(RrfK + j) + (RrfK + i), (RrfK + i) * (RrfK + j)>>

(* Nothing both backends found is dropped, unless for another such document. *)
BothAreKept ==
    stage = "collapse" =>
        /\ kept \subseteq DOMAIN merged /\ waiting \subseteq DOMAIN merged
        /\ ~collapse => kept = DOMAIN merged /\ waiting = {}
        /\ \A d \in DOMAIN merged \ waiting : InBoth(d) =>
             \E e \in kept : /\ InBoth(e)
                             /\ e = d \/ (collapse /\ canonical[e] = canonical[d])

FusionInv ==
    hybrid => /\ stage \in {"merge", "collapse", "done"}
              /\ ListsAreRankings
              /\ MergesInOrder
              /\ ScoresAreSums
              /\ BothAreKept
              /\ BothOutrankOne

-----------------------------------------------------------------------------
(* Why ShownVariantIsBest and RankingMatchesReference hold.                    *)

(* A document has a rank from each retriever that has listed it so far, and
   shows the variant of the best of them. *)
RanksAreSeen ==
    \A d \in DOMAIN merged :
        LET entry == merged[d]
        IN  /\ DOMAIN entry.ranks = {r \in Backends : \E i \in Seen(r) : lists[r][i] = d}
            /\ \A r \in DOMAIN entry.ranks :
                 entry.ranks[r] \in Seen(r) /\ lists[r][entry.ranks[r]] = d
            /\ entry.shown \in DOMAIN entry.ranks
            /\ \A r \in DOMAIN entry.ranks :
                 \/ entry.ranks[entry.shown] < entry.ranks[r]
                 \/ entry.ranks[entry.shown] = entry.ranks[r] /\ entry.shown <= r

(* Of the documents _collapse has looked at it keeps those no other of their
   canonical content is before; each of the rest is behind one of them. *)
KeptAreUnbeaten ==
    stage = "collapse" =>
        /\ kept \subseteq DOMAIN merged \ waiting
        /\ collapse => \A d \in DOMAIN merged \ waiting :
             /\ d \in kept =>
                  \A e \in DOMAIN merged \ waiting :
                      canonical[e] = canonical[d] => ~Before(e, d)
             /\ \E e \in kept : canonical[e] = canonical[d] /\ (e = d \/ Before(e, d))

RankingInv ==
    IF hybrid THEN RanksAreSeen /\ KeptAreUnbeaten /\ RankingMatchesReference
    ELSE stage \in {"pass", "done"} /\ merged = [d \in {} |-> NoEntry]
=============================================================================
