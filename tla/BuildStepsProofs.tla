-------------------------- MODULE BuildStepsProofs --------------------------
(***************************************************************************)
(* What a build stores and what it may be accepted for, proved for every   *)
(* load, batch size, limit, response of the provider and golden set.       *)
(***************************************************************************)
EXTENDS BuildSteps, CountingLemmas, SequenceTheorems, TLAPS

-----------------------------------------------------------------------------
(* Loading an index                                                         *)

(* OpenSearch's replacement by id: storing later documents over the latest of
   the earlier ones leaves the latest of all. *)
LEMMA LatestOfBoth ==
    ASSUME NEW earlier \in SUBSET Int, NEW later \in SUBSET Int,
           \A d \in earlier, e \in later : d < e,
           index = LatestOf(earlier)
    PROVE  Indexed(later) = LatestOf(earlier \cup later)
<1>1. ASSUME NEW d \in Indexed(later) PROVE d \in LatestOf(earlier \cup later)
  <2>1. CASE d \in index /\ sources[d].id \notin IdsOf(later)
    <3>1. d \in earlier /\ \A e \in earlier : sources[e].id = sources[d].id => e <= d
      BY <2>1 DEF LatestOf
    <3>2. \A e \in later : sources[e].id # sources[d].id
      BY <2>1 DEF IdsOf
    <3> QED BY <3>1, <3>2 DEF LatestOf
  <2>2. CASE d \in LatestOf(later)
    <3>1. d \in later /\ \A e \in later : sources[e].id = sources[d].id => e <= d
      BY <2>2 DEF LatestOf
    <3>2. \A e \in earlier : e <= d
      BY <3>1
    <3> QED BY <3>1, <3>2 DEF LatestOf
  <2> QED BY <1>1, <2>1, <2>2 DEF Indexed
<1>2. ASSUME NEW d \in LatestOf(earlier \cup later) PROVE d \in Indexed(later)
  <2>1. \A e \in earlier \cup later : sources[e].id = sources[d].id => e <= d
    BY <1>2 DEF LatestOf
  <2>2. CASE d \in earlier
    <3>1. d \in LatestOf(earlier)
      BY <2>1, <2>2 DEF LatestOf
    <3>2. \A e \in later : sources[e].id # sources[d].id
      BY <2>1, <2>2
    <3> QED BY <3>1, <3>2 DEF Indexed, IdsOf
  <2>3. CASE d \in later
    <3>1. d \in LatestOf(later)
      BY <2>1, <2>3 DEF LatestOf
    <3> QED BY <3>1 DEF Indexed
  <2> QED BY <1>2, <2>2, <2>3 DEF LatestOf
<1> QED BY <1>1, <1>2

(* LoadInv with what its proof needs to know of the load. *)
LoadsInv == sources \in Loads /\ LoadInv

LEMMA LoadTypes ==
    ASSUME LoadsInv
    PROVE  /\ sources \in Seq([id : Nat, bytes : Nat \ {0}])
           /\ Len(sources) \in Nat /\ taken \in Nat /\ total \in Nat /\ total <= taken
           /\ taken <= Len(sources)
           /\ lines \in Seq(Int) /\ Len(lines) = taken - total
           /\ Documents(lines) = total + 1 .. taken
<1>1. sources \in Seq([id : Nat, bytes : Nat \ {0}]) /\ Len(sources) \in Nat
  BY LoadsAssumption DEF LoadsInv
<1>2. taken \in Nat /\ total \in Nat /\ total <= taken /\ taken <= Len(sources)
  BY <1>1 DEF LoadsInv, LoadInv
<1>3. lines = [i \in 1..(taken - total) |-> total + i] /\ taken - total \in Nat
  BY <1>2 DEF LoadsInv, LoadInv
<1>4. lines \in Seq(Int) /\ Len(lines) = taken - total
  BY <1>2, <1>3
<1>5. Documents(lines) = total + 1 .. taken
  <2>1. ASSUME NEW d \in total + 1 .. taken PROVE d \in Documents(lines)
    <3>1. d - total \in 1..(taken - total) /\ lines[d - total] = d
      BY <1>2, <1>3
    <3> QED BY <1>3, <3>1 DEF Documents
  <2>2. ASSUME NEW d \in Documents(lines) PROVE d \in total + 1 .. taken
    <3>1. PICK i \in 1..(taken - total) : d = total + i
      BY <1>3 DEF Documents
    <3> QED BY <1>2, <3>1
  <2> QED BY <2>1, <2>2
<1> QED BY <1>1, <1>2, <1>4, <1>5

(* Any set of the documents in hand, stored over what was acknowledged. *)
LEMMA StoredOverAcknowledged ==
    ASSUME LoadsInv, bulkPc # "raised", NEW stored \in SUBSET Documents(lines)
    PROVE  Indexed(stored) = LatestOf(1..total \cup stored)
<1>1. index = LatestOf(1..total)
  <2>1. PICK s \in SUBSET (total + 1 .. taken) :
          index = LatestOf(1..total \cup s) /\ (bulkPc # "raised" => s = {})
    BY DEF LoadsInv, LoadInv, LoadIsComplete
  <2>2. 1..total \cup s = 1..total
    BY <2>1
  <2> QED BY <2>1, <2>2
<1>2. total \in Nat /\ stored \subseteq total + 1 .. taken /\ taken \in Nat
  BY LoadTypes
<1>3. /\ 1..total \in SUBSET Int /\ stored \in SUBSET Int
      /\ \A d \in 1..total, e \in stored : d < e
  BY <1>2
<1> QED BY <1>1, <1>3, LatestOfBoth

LEMMA LoadBegins ==
    ASSUME BulkInit
    PROVE  LoadsInv
<1>1. sources \in Seq([id : Nat, bytes : Nat \ {0}]) /\ Len(sources) \in Nat
  BY LoadsAssumption DEF BulkInit
<1>2. << >> = [i \in 1..0 |-> i]
  OBVIOUS
<1>3. lines = [i \in 1..(taken - total) |-> total + i]
  BY <1>2 DEF BulkInit
<1>4. LatestOf(1..total \cup {}) = {}
  BY DEF LatestOf, BulkInit
<1>5. LoadIsComplete
  BY <1>4 DEF LoadIsComplete, BulkInit
<1> QED BY <1>1, <1>3, <1>5 DEF LoadsInv, LoadInv, BulkInit

(* LatestOf for a given load. *)
Latest(docs, documents) ==
    {d \in docs : \A e \in docs : documents[e].id = documents[d].id => e <= d}

LEMMA LoadStep ==
    ASSUME LoadsInv, [BulkNext]_bulkVars
    PROVE  LoadsInv'
<1>1. /\ Len(sources) \in Nat /\ taken \in Nat /\ total \in Nat /\ total <= taken
      /\ taken <= Len(sources) /\ lines \in Seq(Int) /\ Len(lines) = taken - total
      /\ Documents(lines) = total + 1 .. taken
      /\ lines = [i \in 1..(taken - total) |-> total + i]
  BY LoadTypes DEF LoadsInv, LoadInv
<1>2. ASSUME bulkPc # "raised"
      PROVE  index = LatestOf(1..total)
  <2>1. PICK s \in SUBSET (total + 1 .. taken) :
          index = LatestOf(1..total \cup s) /\ (bulkPc # "raised" => s = {})
    BY DEF LoadsInv, LoadInv, LoadIsComplete
  <2> QED BY <1>2, <2>1
(* Acknowledged or not, the body in hand is stored over the rest. *)
<1>3. ASSUME NEW stored \in SUBSET (total + 1 .. taken),
             UNCHANGED <<sources, taken, total>>,
             index' = Latest(1..total \cup stored, sources),
             bulkPc' # "raised" => stored = {},
             bulkPc' = "returned" => total = Len(sources)
      PROVE  LoadIsComplete'
  BY <1>3 DEF LoadIsComplete, LatestOf, Latest
<1>4. CASE Take
  <2>1. taken' = taken + 1 /\ taken < Len(sources) /\ UNCHANGED <<sources, index, total, bulkPc>>
        /\ bulkPc = "next"
    BY <1>4 DEF Take, load
  <2>2. lines' = [i \in 1..(taken' - total') |-> total' + i]
    BY <1>1, <1>4, <2>1 DEF Take
  <2>3. index' = Latest(1..total \cup {}, sources) /\ total' = total /\ sources' = sources
    BY <1>2, <2>1 DEF LatestOf, Latest
  <2>4. LoadIsComplete'
    BY <2>1, <2>3 DEF LoadIsComplete, LatestOf, Latest
  <2> QED BY <1>1, <2>1, <2>2, <2>4 DEF LoadsInv, LoadInv
<1>5. CASE Yield
  <2>1. UNCHANGED <<sources, taken, lines, index, total>> /\ bulkPc = "next" /\ bulkPc' = "post"
    BY <1>5 DEF Yield, load
  <2>2. LoadIsComplete'
    <3>1. index' = Latest(1..total \cup {}, sources)
      BY <1>2, <2>1 DEF LatestOf, Latest
    <3> QED BY <1>3, <2>1, <3>1
  <2> QED BY <1>1, <2>1, <2>2 DEF LoadsInv, LoadInv
<1>6. CASE Post
  <2>1. /\ UNCHANGED <<sources, taken>> /\ bulkPc = "post" /\ bulkPc' = "next"
        /\ total' = taken /\ lines' = << >>
        /\ index' = Indexed(Documents(lines))
    BY <1>1, <1>6 DEF Post, load
  <2>2. lines' = [i \in 1..(taken' - total') |-> total' + i]
    <3>1. taken' - total' = 0
      BY <1>1, <2>1
    <3>2. << >> = [i \in 1..0 |-> total' + i]
      OBVIOUS
    <3> QED BY <2>1, <3>1, <3>2
  <2>3. index' = Latest(1..taken \cup {}, sources)
    <3>1. index' = LatestOf(1..total \cup Documents(lines))
      BY <2>1, StoredOverAcknowledged
    <3>2. 1..total \cup Documents(lines) = 1..taken
      BY <1>1
    <3> QED BY <3>1, <3>2 DEF LatestOf, Latest
  <2>4. LoadIsComplete'
    BY <2>1, <2>3 DEF LoadIsComplete, LatestOf, Latest
  <2> QED BY <1>1, <2>1, <2>2, <2>4 DEF LoadsInv, LoadInv
<1>7. CASE PostFails
  <2>1. /\ UNCHANGED <<sources, taken, lines, total>> /\ bulkPc = "post" /\ bulkPc' = "raised"
        /\ \E stored \in SUBSET Documents(lines) : index' = Indexed(stored)
    BY <1>7 DEF PostFails, load
  <2>2. PICK stored \in SUBSET Documents(lines) : index' = Indexed(stored)
    BY <2>1
  <2>3. index' = Latest(1..total \cup stored, sources)
    BY <2>1, <2>2, StoredOverAcknowledged DEF LatestOf, Latest
  <2>4. LoadIsComplete'
    BY <1>1, <1>3, <2>1, <2>2, <2>3
  <2> QED BY <1>1, <2>1, <2>4 DEF LoadsInv, LoadInv
<1>8. CASE Return
  <2>1. /\ UNCHANGED <<sources, taken, lines, index, total>> /\ bulkPc = "next"
        /\ bulkPc' = "returned" /\ taken = Len(sources) /\ lines = << >>
    BY <1>8 DEF Return, load
  <2>2. total = Len(sources)
    <3>1. Len(lines) = 0
      BY <1>1, <2>1, EmptySeq
    <3>2. 0 = taken - total /\ taken \in Nat /\ total \in Nat
      BY <1>1, <3>1
    <3>3. taken = Len(sources)
      BY <2>1
    <3> QED BY <3>2, <3>3
  <2>3. LoadIsComplete'
    <3>1. index' = Latest(1..total \cup {}, sources)
      BY <1>2, <2>1 DEF LatestOf, Latest
    <3> QED BY <1>3, <2>1, <2>2, <3>1
  <2> QED BY <1>1, <2>1, <2>3 DEF LoadsInv, LoadInv
<1>9. CASE UNCHANGED bulkVars
  BY <1>9 DEF bulkVars, load, LoadsInv, LoadInv, LoadIsComplete, LatestOf
<1> QED BY <1>4, <1>5, <1>6, <1>7, <1>8, <1>9 DEF BulkNext

-----------------------------------------------------------------------------
(* Embedding a collection                                                   *)

(* The documents of n whole batches, the last one cut at the end. *)
Prefix(n) == [d \in 1..Least(n, DocCount) |-> d]

(* Why the three properties of EmbeddingBatches hold: between batches the
   collection is exactly the documents before `start`, and `start` counts the
   requests.  A request that failed has one batch more, or not. *)
EmbedInv ==
    /\ size \in Nat /\ start \in Nat /\ requests \in Nat
    /\ pc \in {"batch", "embed", "check", "upsert", "done", "raised"}
    /\ size = 0 => start = 0 /\ requests = 0
    /\ requests > 0 => size > 0 /\ size * (requests - 1) < DocCount
    /\ pc \in {"batch", "embed", "done"} => start = size * requests
    /\ pc \in {"check", "upsert"} => requests > 0 /\ start = size * (requests - 1)
    /\ pc = "raised" =>
         \/ start = size * requests
         \/ requests > 0 /\ start = size * (requests - 1)
    /\ pc \in {"embed", "check", "upsert"} => size > 0 /\ start < DocCount
    /\ pc \in {"check", "upsert"} => response \in Responses(BatchLength)
    /\ pc = "upsert" => Accepted(response, BatchLength)
    /\ pc = "done" => start >= DocCount /\ size > 0
    /\ points = Prefix(start) \/ (pc = "raised" /\ points = Prefix(start + size))

LEMMA EmbedBegins ==
    ASSUME Init
    PROVE  EmbedInv
<1>1. size \in Nat /\ DocCount \in Nat
  BY CountsAssumption DEF Init
<1>2. points = Prefix(0)
  <2>1. Least(0, DocCount) = 0
    BY <1>1 DEF Least
  <2>2. 1..0 = {}
    OBVIOUS
  <2>3. [d \in {} |-> Junk] = [d \in {} |-> d]
    OBVIOUS
  <2> QED BY <2>1, <2>2, <2>3 DEF Init, Prefix
<1> QED BY <1>1, <1>2 DEF Init, EmbedInv

(* An accepted response holds, at each place, the vector of the document that
   has this place in the batch: upserting it makes the prefix a batch longer. *)
LEMMA StoredIsPrefix ==
    ASSUME EmbedInv, pc = "upsert"
    PROVE  Stored = Prefix(start + size) /\ start + size \in Nat
<1>1. /\ size \in Nat /\ start \in Nat /\ DocCount \in Nat /\ size > 0 /\ start < DocCount
      /\ points = Prefix(start) /\ response \in Responses(BatchLength)
      /\ Accepted(response, BatchLength)
  BY CountsAssumption DEF EmbedInv
<1>2. BatchLength \in Nat /\ BatchLength <= DocCount - start
      /\ Least(start, DocCount) = start
      /\ Least(start + size, DocCount) = start + BatchLength
  BY <1>1 DEF BatchLength, Least
<1>3. DOMAIN response = 1..BatchLength
  <2>1. PICK k \in 0..(BatchLength + MaxExtra) : response \in [1..k -> Items(BatchLength)]
    BY <1>1 DEF Responses
  <2>2. Len(response) = BatchLength
    BY <1>1 DEF Accepted
  <2>3. k \in Nat
    BY <1>2, <2>1, CountsAssumption
  <2>4. Len(response) = k
    BY <2>1, <2>3
  <2> QED BY <2>1, <2>2, <2>4
<1>4. ASSUME NEW p \in 1..BatchLength
      PROVE  VectorsOf(response, BatchLength)[p] = start + p
  <2>1. Sorted(response)[p].index = p - 1
    BY <1>1, <1>3 DEF Accepted
  <2>2. VectorOf(Sorted(response)[p], BatchLength) = start + (p - 1) + 1
    BY <1>2, <2>1 DEF VectorOf
  <2> QED BY <1>1, <1>2, <2>2 DEF VectorsOf
<1>5. DOMAIN points = 1..start /\ \A d \in 1..start : points[d] = d
  BY <1>1, <1>2 DEF Prefix
<1>6. 1..start \cup {start + i : i \in 1..BatchLength} = 1..(start + BatchLength)
  <2>1. ASSUME NEW d \in 1..(start + BatchLength), d > start
        PROVE  d \in {start + i : i \in 1..BatchLength}
    <3>1. d - start \in 1..BatchLength /\ d = start + (d - start)
      BY <1>1, <1>2, <2>1
    <3> QED BY <3>1
  <2> QED BY <1>1, <1>2, <2>1
<1>7. ASSUME NEW d \in 1..(start + BatchLength)
      PROVE  (IF d > start THEN VectorsOf(response, BatchLength)[d - start] ELSE points[d]) = d
  <2>1. CASE d > start
    <3>1. d - start \in 1..BatchLength /\ start + (d - start) = d
      BY <1>1, <1>2, <2>1
    <3> QED BY <1>4, <2>1, <3>1
  <2>2. CASE ~(d > start)
    <3>1. d \in 1..start
      BY <1>1, <1>2, <2>2
    <3> QED BY <1>5, <2>2, <3>1
  <2> QED BY <2>1, <2>2
<1>8. Stored = [d \in 1..(start + BatchLength) |-> d]
  BY <1>5, <1>6, <1>7 DEF Stored
<1> QED BY <1>1, <1>2, <1>8 DEF Prefix

LEMMA EmbedStep ==
    ASSUME EmbedInv, [Next]_vars
    PROVE  EmbedInv'
<1>1. DocCount \in Nat /\ size \in Nat /\ start \in Nat /\ requests \in Nat
  BY CountsAssumption DEF EmbedInv
<1>2. CASE NextBatch
  BY <1>1, <1>2 DEF NextBatch, EmbedInv, Prefix
<1>3. CASE Request
  <2>1. /\ requests' = requests + 1 /\ response' \in Responses(BatchLength)
        /\ pc = "embed" /\ pc' = "check" /\ UNCHANGED <<size, start, points>>
    BY <1>3 DEF Request
  <2>2. start = size * requests /\ size > 0 /\ start < DocCount /\ points = Prefix(start)
    BY <2>1 DEF EmbedInv
  <2>3. requests' - 1 = requests /\ requests' > 0 /\ requests' \in Nat
    BY <1>1, <2>1
  <2>4. start' = size' * (requests' - 1) /\ size' * (requests' - 1) < DocCount
    BY <2>1, <2>2, <2>3
  <2>5. response' \in Responses(BatchLength)'
    BY <2>1 DEF Responses, Items, BatchLength
  <2>6. points' = Prefix(start')
    BY <2>1, <2>2
  <2> QED BY <1>1, <2>1, <2>2, <2>3, <2>4, <2>5, <2>6 DEF EmbedInv
<1>4. CASE RequestFails
  BY <1>1, <1>4 DEF RequestFails, EmbedInv, Prefix
<1>5. CASE Accept
  <2>1. /\ pc = "check" /\ pc' = "upsert" /\ Accepted(response, BatchLength)
        /\ UNCHANGED <<size, start, response, points, requests>>
    BY <1>5 DEF Accept
  <2>2. Accepted(response, BatchLength)' /\ (response \in Responses(BatchLength))'
    <3>1. response \in Responses(BatchLength)
      BY <2>1 DEF EmbedInv
    <3>2. BatchLength' = BatchLength
      BY <2>1 DEF BatchLength
    <3> QED BY <2>1, <3>1, <3>2
  <2>3. points' = Prefix(start')
    BY <2>1 DEF EmbedInv
  <2> QED BY <1>1, <2>1, <2>2, <2>3 DEF EmbedInv
<1>6. CASE Reject
  BY <1>1, <1>6 DEF Reject, EmbedInv, Prefix
<1>7. CASE Upsert
  <2>1. points' = Prefix(start') /\ start' = start + size /\ start' \in Nat
    BY <1>7, StoredIsPrefix DEF Upsert
  <2>2. pc = "upsert" /\ pc' = "batch" /\ UNCHANGED <<size, requests>>
    BY <1>7 DEF Upsert
  <2>3. requests > 0 /\ start = size * (requests - 1) /\ size > 0
        /\ size * (requests - 1) < DocCount
    BY <1>1, <2>2 DEF EmbedInv
  <2>4. size * (requests - 1) + size = size * requests
    BY <1>1
  <2>5. start' = size' * requests'
    BY <2>1, <2>2, <2>3, <2>4
  <2> QED BY <1>1, <2>1, <2>2, <2>3, <2>5 DEF EmbedInv
<1>8. CASE UpsertFails
  BY <1>1, <1>8, StoredIsPrefix DEF UpsertFails, EmbedInv, Prefix
<1>9. CASE UNCHANGED vars
  <2>1. UNCHANGED <<size, start, response, points, requests, pc>>
    BY <1>9 DEF vars
  <2>2. BatchLength' = BatchLength
    BY <2>1 DEF BatchLength
  <2> QED BY <2>1, <2>2 DEF EmbedInv
<1> QED BY <1>2, <1>3, <1>4, <1>5, <1>6, <1>7, <1>8, <1>9 DEF Next

-----------------------------------------------------------------------------
(* Judging what was stored                                                  *)

(* A case that is behind the loop and failed nothing found what it asks for. *)
Satisfied(i) ==
    /\ Suite[i].confirmed => Suite[i].ids \subseteq Found(held)
    /\ kind = "lexical" => Suite[i].fits \cap held # {}

(* One request for each case behind the loop, and maybe one for the case whose
   query or search raised. *)
QueriesSent ==
    /\ embedded \in {case - 1, case}
    /\ embedded <= Len(Suite)
    /\ verdict # "raised" => embedded = case - 1

GateInv ==
    /\ kind \in {"lexical", "semantic"}
    /\ case \in Nat \ {0}
    /\ verdict \in {"none", "pending", "raised", "ok", "failed"}
    /\ verdict = "none" => case = 1 /\ hardFailures = {} /\ softMisses = {} /\ embedded = 0
    /\ verdict = "ok" => case > Len(Suite) /\ hardFailures = {}
    /\ verdict = "failed" => case > Len(Suite) /\ hardFailures # {}
    /\ hardFailures \subseteq 1..(case - 1) /\ softMisses \subseteq 1..(case - 1)
    /\ hardFailures \cap softMisses = {}
    /\ case <= Len(Suite) + 1
    /\ kind = "lexical" => embedded = 0
    /\ kind = "semantic" => QueriesSent
    /\ hardFailures \subseteq DOMAIN Suite
    /\ \A i \in DOMAIN Suite : i < case /\ i \notin hardFailures => Satisfied(i)
    /\ kind = "semantic" => \A i \in hardFailures : IsHard(Suite[i])

LEMMA SuiteType ==
    ASSUME kind \in {"lexical", "semantic"}
    PROVE  /\ Suite \in Seq([ids : SUBSET Nat, confirmed : BOOLEAN, fits : SUBSET Nat])
           /\ Len(Suite) \in Nat /\ DOMAIN Suite = 1..Len(Suite)
BY SuitesAssumption DEF Suite

LEMMA GateBegins ==
    ASSUME GateIdle
    PROVE  GateInv
<1>1. kind = "lexical" /\ kind \in {"lexical", "semantic"}
  BY DEF GateIdle
<1>2. DOMAIN Suite = 1..Len(Suite)
  BY <1>1, SuiteType
<1>3. Len(Suite) \in Nat
  BY <1>1, SuiteType
<1> QED BY <1>1, <1>2, <1>3 DEF GateIdle, GateInv

LEMMA BeginGateStep ==
    ASSUME GateInv, NEW b \in {"lexical", "semantic"}, NEW contents, BeginGate(b, contents)
    PROVE  GateInv'
<1>1. /\ case = 1 /\ hardFailures = {} /\ softMisses = {} /\ embedded = 0
      /\ kind' = b /\ verdict' = "pending"
      /\ UNCHANGED <<case, hardFailures, softMisses, embedded>>
  BY DEF BeginGate, GateInv
<1>2. /\ Suites[b] \in Seq([ids : SUBSET Nat, confirmed : BOOLEAN, fits : SUBSET Nat])
      /\ DOMAIN Suites[b] = 1..Len(Suites[b]) /\ Len(Suites[b]) \in Nat
  BY SuitesAssumption
<1>3. Suite' = Suites[b]
  BY <1>1 DEF Suite
<1>4. \A i \in DOMAIN Suite' : ~(i < case')
  BY <1>1, <1>2, <1>3
<1> QED BY <1>1, <1>2, <1>3, <1>4 DEF GateInv, QueriesSent

LEMMA GateStep ==
    ASSUME GateInv, GateNext
    PROVE  GateInv'
<1>1. /\ kind \in {"lexical", "semantic"} /\ case \in Nat \ {0}
      /\ Len(Suite) \in Nat /\ DOMAIN Suite = 1..Len(Suite)
  BY SuiteType DEF GateInv
<1>2. CASE JudgeCase
  <2>1. /\ verdict = "pending" /\ case <= Len(Suite) /\ case' = case + 1
        /\ UNCHANGED <<kind, held, verdict>>
    BY <1>2 DEF JudgeCase
  <2>2. Suite' = Suite /\ case \in DOMAIN Suite
    BY <1>1, <2>1 DEF Suite
  <2> DEFINE c == Suite[case]
  <2>3. PICK hits \in HitSets :
          LET missing == c.ids \ Found(hits) # {}
              failed == HasProblems(hits, c) \/ (missing /\ IsHard(c))
          IN  /\ hardFailures' = hardFailures \cup (IF failed THEN {case} ELSE {})
              /\ softMisses' = softMisses \cup (IF missing /\ ~failed THEN {case} ELSE {})
    BY <1>2 DEF JudgeCase
  <2> DEFINE missing == c.ids \ Found(hits) # {}
             failed == HasProblems(hits, c) \/ (missing /\ IsHard(c))
  <2>4. /\ hardFailures' = hardFailures \cup (IF failed THEN {case} ELSE {})
        /\ softMisses' = softMisses \cup (IF missing /\ ~failed THEN {case} ELSE {})
    BY <2>3
  <2>5. case \notin hardFailures /\ case \notin softMisses
    BY <1>1 DEF GateInv
  <2>6. hits \subseteq held /\ Found(hits) \subseteq Found(held)
    BY <2>3 DEF HitSets, Found
  <2>7. ASSUME ~failed PROVE Satisfied(case)
    <3>1. kind = "lexical" => c.fits \cap held # {}
      BY <2>6, <2>7 DEF HasProblems
    <3>2. ASSUME c.confirmed PROVE c.ids \subseteq Found(held)
      <4>1. CASE c.ids = {}
        BY <4>1
      <4>2. CASE ~missing
        BY <2>6, <4>2
      <4> QED BY <2>7, <3>2, <4>1, <4>2 DEF IsHard
    <3> QED BY <3>1, <3>2 DEF Satisfied
  <2>8. kind = "semantic" /\ failed => IsHard(c)
    BY DEF HasProblems
  <2>9. \A i \in DOMAIN Suite' : i < case' /\ i \notin hardFailures' => Satisfied(i)'
    <3> SUFFICES ASSUME NEW i \in DOMAIN Suite, i < case', i \notin hardFailures'
                 PROVE  Satisfied(i)
      BY <2>1, <2>2 DEF Satisfied, Found
    <3>1. i < case \/ i = case
      BY <1>1, <2>1
    <3>2. CASE i < case
      BY <2>4, <3>2 DEF GateInv
    <3>3. CASE i = case
      BY <2>4, <2>7, <3>3
    <3> QED BY <3>1, <3>2, <3>3
  <2>10. hardFailures' \cap softMisses' = {}
    BY <2>4, <2>5 DEF GateInv
  <2>11. hardFailures' \subseteq 1..(case' - 1) /\ softMisses' \subseteq 1..(case' - 1)
    BY <1>1, <2>1, <2>4 DEF GateInv
  <2>12. /\ hardFailures' \subseteq DOMAIN Suite'
         /\ kind' = "semantic" => \A i \in hardFailures' : IsHard(Suite'[i])
    BY <2>1, <2>2, <2>4, <2>8 DEF GateInv
  <2>13. case' <= Len(Suite') + 1
    BY <1>1, <2>1, <2>2
  <2>14. kind' = "lexical" => embedded' = 0
    BY <1>2, <2>1 DEF JudgeCase, QueryRequests, GateInv
  <2>15. (kind = "semantic" => QueriesSent)'
    BY <1>1, <1>2, <2>1, <2>2 DEF JudgeCase, QueryRequests, GateInv, QueriesSent
  <2> QED BY <1>1, <2>1, <2>9, <2>10, <2>11, <2>12, <2>13, <2>14, <2>15 DEF GateInv
<1>3. CASE CaseFails
  <2>1. /\ UNCHANGED <<kind, held, case, hardFailures, softMisses>> /\ verdict' = "raised"
        /\ case <= Len(Suite) /\ Suite' = Suite
    BY <1>3 DEF CaseFails, Suite
  <2>2. kind' = "lexical" => embedded' = 0
    BY <1>3, <2>1 DEF CaseFails, QueryRequests, GateInv
  <2>3. (kind = "semantic" => QueriesSent)'
    BY <1>1, <1>3, <2>1 DEF CaseFails, QueryRequests, GateInv, QueriesSent
  <2> QED BY <2>1, <2>2, <2>3 DEF GateInv, Satisfied, Found
<1>4. CASE Conclude
  <2>1. /\ UNCHANGED <<kind, held, case, hardFailures, softMisses, embedded>> /\ case > Len(Suite)
        /\ verdict' = IF hardFailures = {} THEN "ok" ELSE "failed"
    BY <1>4 DEF Conclude
  <2>2. (kind = "semantic" => QueriesSent)'
    BY <1>4, <2>1 DEF Conclude, GateInv, QueriesSent, Suite
  <2> QED BY <2>1, <2>2 DEF GateInv, Suite, Satisfied, Found
<1> QED BY <1>2, <1>3, <1>4 DEF GateNext

LEMMA GateStutters ==
    ASSUME GateInv, UNCHANGED gateVars
    PROVE  GateInv'
BY DEF gateVars, GateInv, QueriesSent, Suite, Satisfied, Found

LEMMA GateDecides ==
    ASSUME GateInv
    PROVE  VerdictIsAboutTheStore
<1>1. Len(Suite) \in Nat /\ DOMAIN Suite = 1..Len(Suite) /\ case \in Nat
  BY SuiteType DEF GateInv
<1>2. ASSUME verdict = "ok", NEW i \in DOMAIN Suite
      PROVE  Satisfied(i)
  BY <1>1, <1>2 DEF GateInv
<1>3. ASSUME verdict = "failed", kind = "semantic"
      PROVE  \E i \in DOMAIN Suite : Suite[i].confirmed /\ Suite[i].ids # {}
  BY <1>3 DEF GateInv, IsHard
<1> QED BY <1>2, <1>3 DEF VerdictIsAboutTheStore, GateInv, Satisfied

-----------------------------------------------------------------------------
(* The build                                                                *)

(* Whatever is judged is what the build that runs has filled, to the end. *)
BuildInv ==
    /\ LoadsInv
    /\ EmbedInv
    /\ GateInv
    /\ builder \in {"lexical", "semantic"}
    /\ verdict # "none" =>
         /\ kind = builder
         /\ builder = "lexical" => refresh = "done" /\ held = IdsOf(index)
         /\ builder = "semantic" => pc = "done" /\ held = DOMAIN points
    /\ refresh # "none" => builder = "lexical" /\ bulkPc = "returned"
    /\ refresh = "done" => searchable = IdsOf(index)
    /\ builder = "lexical" => size = 0

LEMMA BuildBegins == BuildInit => BuildInv
<1> SUFFICES ASSUME BuildInit PROVE BuildInv
  OBVIOUS
<1>1. LoadsInv /\ EmbedInv /\ GateInv
  BY LoadBegins, EmbedBegins, GateBegins DEF BuildInit
<1> QED BY <1>1 DEF BuildInit, BuildInv, GateIdle

LEMMA BuildStep == BuildInv /\ [BuildNext]_buildVars => BuildInv'
<1> SUFFICES ASSUME BuildInv, [BuildNext]_buildVars PROVE BuildInv'
  OBVIOUS
<1>1. LoadsInv /\ EmbedInv /\ GateInv
  BY DEF BuildInv
<1>2. CASE builder = "lexical" /\ BulkNext /\ UNCHANGED <<vars, gateVars, builder, refresh, searchable>>
  <2>1. LoadsInv' /\ EmbedInv' /\ GateInv'
    BY <1>1, <1>2, LoadStep, EmbedStep, GateStutters
  <2>2. bulkPc # "returned"
    BY <1>2 DEF BulkNext, Take, Yield, Post, PostFails, Return
  <2>3. verdict = "none" /\ refresh = "none"
    BY <1>2, <2>2 DEF BuildInv
  <2> QED BY <1>2, <2>1, <2>3 DEF BuildInv, gateVars, vars
<1>3. CASE builder = "lexical" /\ (Refresh \/ RefreshFails)
  <2>1. /\ bulkPc = "returned" /\ refresh = "none"
        /\ refresh' \in {"done", "raised"}
        /\ refresh' = "done" => searchable' = IdsOf(index)
        /\ UNCHANGED <<vars, bulkVars, gateVars, builder>>
    BY <1>3 DEF Refresh, RefreshFails
  <2>2. LoadsInv' /\ EmbedInv' /\ GateInv'
    BY <1>1, <2>1, LoadStep, EmbedStep, GateStutters
  <2>3. verdict = "none"
    BY <1>3, <2>1 DEF BuildInv
  <2>4. IdsOf(index)' = IdsOf(index)
    BY <2>1 DEF bulkVars, load, IdsOf
  <2> QED BY <1>3, <2>1, <2>2, <2>3, <2>4 DEF BuildInv, bulkVars, gateVars, vars
<1>4. CASE builder = "lexical" /\ JudgeIndex
  <2>1. /\ refresh = "done" /\ BeginGate("lexical", searchable)
        /\ UNCHANGED <<vars, bulkVars, builder, refresh, searchable>>
    BY <1>4 DEF JudgeIndex
  <2>2. LoadsInv' /\ EmbedInv' /\ GateInv'
    BY <1>1, <2>1, LoadStep, EmbedStep, BeginGateStep
  <2>3. IdsOf(index)' = IdsOf(index) /\ searchable = IdsOf(index)
    BY <1>4, <2>1 DEF bulkVars, load, IdsOf, BuildInv
  <2> QED BY <1>4, <2>1, <2>2, <2>3 DEF BuildInv, BeginGate, bulkVars, vars
<1>5. CASE builder = "semantic" /\ Next /\ UNCHANGED <<bulkVars, gateVars, builder, refresh, searchable>>
  <2>1. LoadsInv' /\ EmbedInv' /\ GateInv'
    BY <1>1, <1>5, LoadStep, EmbedStep, GateStutters
  <2>2. pc # "done"
    BY <1>5 DEF Next, NextBatch, Request, RequestFails, Accept, Reject, Upsert, UpsertFails
  <2>3. verdict = "none" /\ refresh = "none"
    BY <1>5, <2>2 DEF BuildInv
  <2> QED BY <1>5, <2>1, <2>3 DEF BuildInv, gateVars
<1>6. CASE builder = "semantic" /\ JudgeCollection
  <2>1. /\ pc = "done" /\ BeginGate("semantic", DOMAIN points)
        /\ UNCHANGED <<vars, bulkVars, builder, refresh, searchable>>
    BY <1>6 DEF JudgeCollection
  <2>2. LoadsInv' /\ EmbedInv' /\ GateInv'
    BY <1>1, <2>1, LoadStep, EmbedStep, BeginGateStep
  <2>3. refresh = "none"
    BY <1>6 DEF BuildInv
  <2> QED BY <1>6, <2>1, <2>2, <2>3 DEF BuildInv, BeginGate, vars
<1>7. CASE GateNext /\ UNCHANGED <<vars, bulkVars, builder, refresh, searchable>>
  <2>1. LoadsInv' /\ EmbedInv' /\ GateInv'
    BY <1>1, <1>7, LoadStep, EmbedStep, GateStep
  <2>2. verdict = "pending" /\ UNCHANGED <<kind, held>>
    BY <1>7 DEF GateNext, JudgeCase, CaseFails, Conclude
  <2>3. IdsOf(index)' = IdsOf(index)
    BY <1>7 DEF bulkVars, load, IdsOf
  <2> QED BY <1>7, <2>1, <2>2, <2>3 DEF BuildInv, vars, bulkVars
<1>8. CASE UNCHANGED buildVars
  <2>1. /\ UNCHANGED vars /\ UNCHANGED bulkVars /\ UNCHANGED gateVars
        /\ UNCHANGED <<builder, refresh, searchable>>
    BY <1>8 DEF buildVars
  <2>2. LoadsInv' /\ EmbedInv' /\ GateInv'
    BY <1>1, <2>1, LoadStep, EmbedStep, GateStutters
  <2>3. IdsOf(index)' = IdsOf(index)
    BY <2>1 DEF bulkVars, load, IdsOf
  <2> QED BY <2>1, <2>2, <2>3 DEF BuildInv, vars, bulkVars, gateVars
<1> QED BY <1>2, <1>3, <1>4, <1>5, <1>6, <1>7, <1>8
        DEF BuildNext, LexicalBuild, SemanticBuild, Judge

(* The inductive invariant of a build: load, batches and verdict each keep
   their own, and the verdict is about the store that was filled. *)
THEOREM BuildInvariant == BuildSpec => []BuildInv
<1> QED BY BuildBegins, BuildStep, PTL DEF BuildSpec

LEMMA MultiplesDivide ==
    ASSUME NEW a \in Nat, NEW b \in Nat, a > 0
    PROVE  (a * b) % a = 0
BY SMTT(60)

(* bulk_index: wherever the limits cut the load and whichever request fails,
   nothing that was acknowledged is lost, repeated or replaced by an earlier
   document of its id, and a call that returns has loaded everything. *)
THEOREM LoadsAreComplete == BuildSpec => []LoadIsComplete
<1>1. BuildInv => LoadIsComplete
  BY DEF BuildInv, LoadsInv, LoadInv
<1> QED BY <1>1, BuildInvariant, PTL

(* _embed_and_upsert over _ordered_vectors: whatever the provider answers, a
   document is stored with its own vector, and the collection is a prefix of
   the documents in whole batches. *)
THEOREM CollectionsAreSound ==
    BuildSpec => [](VectorsBelongToDocuments /\ PointsAreAPrefix)
<1>1. ASSUME EmbedInv PROVE VectorsBelongToDocuments /\ PointsAreAPrefix
  <2>1. /\ DocCount \in Nat /\ size \in Nat /\ start \in Nat /\ requests \in Nat
        /\ \/ points = Prefix(start)
           \/ pc = "raised" /\ points = Prefix(start + size)
    BY <1>1, CountsAssumption DEF EmbedInv
  <2>2. PICK sent \in {start, start + size} : points = Prefix(sent)
    BY <2>1
  <2>3. sent \in Nat /\ Least(sent, DocCount) \in 0..DocCount
    BY <2>1 DEF Least
  <2>4. DOMAIN points = 1..Least(sent, DocCount)
    BY <2>2 DEF Prefix
  <2>5. VectorsBelongToDocuments
    BY <2>2, <2>4 DEF VectorsBelongToDocuments, Prefix
  <2>6. PICK k \in Nat : sent = size * k
    <3>1. start = size * requests \/ (requests - 1 \in Nat /\ start = size * (requests - 1))
      BY <1>1, <2>1 DEF EmbedInv
    <3>2. size * requests + size = size * (requests + 1)
          /\ (requests - 1 \in Nat => size * (requests - 1) + size = size * requests)
      BY <2>1
    <3>3. sent \in {size * requests, size * (requests + 1)}
          \/ (requests - 1 \in Nat /\ sent \in {size * (requests - 1), size * requests})
      BY <2>2, <3>1, <3>2
    <3>4. requests \in Nat /\ requests + 1 \in Nat
      BY <2>1
    <3> QED BY <3>3, <3>4
  <2>7. ASSUME Least(sent, DocCount) < DocCount, size > 0
        PROVE  Least(sent, DocCount) % size = 0
    <3>1. Least(sent, DocCount) = size * k
      BY <2>1, <2>3, <2>6, <2>7 DEF Least
    <3>2. (size * k) % size = 0
      BY <2>1, <2>6, <2>7, MultiplesDivide
    <3> QED BY <3>1, <3>2
  <2>8. pc = "done" => DOMAIN points = Docs
    BY <1>1, <2>1 DEF EmbedInv, Prefix, Least, Docs
  <2> QED BY <2>3, <2>4, <2>5, <2>7, <2>8 DEF PointsAreAPrefix
<1> QED BY <1>1, BuildInvariant, PTL DEF BuildInv

LEMMA DivisionBounds ==
    ASSUME NEW a \in Nat, NEW b \in Nat, NEW k \in Nat, a > 0
    PROVE  /\ b < a * k => b \div a < k
           /\ b >= a * k => b \div a >= k
<1>1. b < a * k => b \div a < k
  OBVIOUS
<1>2. b >= a * k => b \div a >= k
  OBVIOUS
<1> QED BY <1>1, <1>2

(* A build sends at most the estimate for its documents, and all of it if it
   gets through them. *)
LEMMA DocumentRequests ==
    ASSUME EmbedInv
    PROVE  /\ requests \in Nat /\ requests <= Estimate
           /\ pc = "done" => requests = Estimate
           /\ size = 0 => requests = 0
<1>1. DocCount \in Nat /\ size \in Nat /\ requests \in Nat
  BY CountsAssumption DEF EmbedInv
<1>2. CASE size = 0
  BY <1>2 DEF EmbedInv, Estimate
<1>3. CASE size > 0
  <2> DEFINE all == DocCount + size - 1
  <2>1. all \in Nat /\ Estimate = all \div size /\ all \div size \in Int
    BY <1>1, <1>3 DEF Estimate
  <2>2. requests <= Estimate
    <3>1. CASE requests = 0
      <4>1. all >= size * 0
        BY <1>1, <2>1
      <4>2. all \div size >= 0
        BY <1>1, <1>3, <2>1, <4>1, DivisionBounds
      <4> QED BY <2>1, <3>1, <4>2
    <3>2. CASE requests > 0
      <4>1. size * (requests - 1) < DocCount
        BY <3>2 DEF EmbedInv
      <4>2. size * (requests - 1) + size = size * requests /\ size * (requests - 1) \in Int
        BY <1>1
      <4>3. all >= size * requests
        BY <1>1, <4>1, <4>2
      <4>4. all \div size >= requests
        BY <1>1, <1>3, <2>1, <4>3, DivisionBounds
      <4> QED BY <2>1, <4>4
    <3> QED BY <1>1, <3>1, <3>2
  <2>3. ASSUME pc = "done" PROVE requests = Estimate
    <3>1. size * requests >= DocCount
      BY <2>3 DEF EmbedInv
    <3>2. size * (requests + 1) = size * requests + size /\ size * requests \in Int
      BY <1>1
    <3>3. all < size * (requests + 1)
      BY <1>1, <3>1, <3>2
    <3>4. all \div size < requests + 1
      BY <1>1, <1>3, <2>1, <3>3, DivisionBounds
    <3> QED BY <1>1, <2>1, <2>2, <3>4
  <2> QED BY <1>1, <1>3, <2>2, <2>3
<1> QED BY <1>1, <1>2, <1>3

(* build_embedding_preflight: a semantic build sends the estimated requests for
   its documents and then one for each golden case, which the estimate leaves
   out; one that fails sends fewer and a lexical one none, for every corpus,
   batch size and golden set. *)
THEOREM EstimatesHold == BuildSpec => []RequestsAreAsEstimated
<1>1. ASSUME BuildInv PROVE RequestsAreAsEstimated
  <2> DEFINE cases == Len(Suites["semantic"])
  <2>1. /\ requests \in Nat /\ requests <= Estimate
        /\ pc = "done" => requests = Estimate
        /\ size = 0 => requests = 0
    BY <1>1, DocumentRequests DEF BuildInv
  <2>2. cases \in Nat
    BY SuitesAssumption
  <2>3. CASE verdict = "none"
    BY <1>1, <2>1, <2>2, <2>3 DEF BuildInv, GateInv, RequestsAreAsEstimated
  <2>4. CASE verdict # "none" /\ builder = "lexical"
    BY <1>1, <2>1, <2>2, <2>4 DEF BuildInv, GateInv, RequestsAreAsEstimated
  <2>5. CASE verdict # "none" /\ builder = "semantic"
    <3>1. kind = "semantic" /\ Len(Suite) = cases /\ requests = Estimate
      BY <1>1, <2>1, <2>5 DEF BuildInv, Suite
    <3>2. case \in Nat /\ QueriesSent /\ case <= cases + 1
      BY <1>1, <3>1 DEF BuildInv, GateInv
    <3>3. verdict \in {"ok", "failed"} => case = cases + 1
      BY <1>1, <2>2, <3>1, <3>2 DEF BuildInv, GateInv
    <3> QED BY <2>1, <2>2, <2>5, <3>1, <3>2, <3>3 DEF QueriesSent, RequestsAreAsEstimated
  <2> QED BY <1>1, <2>3, <2>4, <2>5 DEF BuildInv
<1> QED BY <1>1, BuildInvariant, PTL

(* The golden gates: an accepted store holds every confirmed id of its suite
   and, for an index, a hit of the expected shape for every case. *)
THEOREM VerdictsAreAboutStores == BuildSpec => []VerdictIsAboutTheStore
<1> QED BY GateDecides, BuildInvariant, PTL DEF BuildInv

(* build_index and build_semantic_collection: a build that may be activated is
   whole, although its golden set looks at a few documents only. *)
THEOREM AcceptedBuildsAreWhole == BuildSpec => []AcceptedBuildsAreComplete
<1>1. ASSUME BuildInv, verdict = "ok", builder = "lexical"
      PROVE  index = LatestOf(1..Len(sources)) /\ held = IdsOf(index)
  <2>1. bulkPc = "returned" /\ held = IdsOf(index)
    BY <1>1 DEF BuildInv
  <2>2. PICK stored \in SUBSET (total + 1 .. taken) :
          /\ index = LatestOf(1..total \cup stored)
          /\ bulkPc # "raised" => stored = {}
    BY <1>1 DEF BuildInv, LoadsInv, LoadInv, LoadIsComplete
  <2>3. total = Len(sources)
    BY <1>1, <2>1 DEF BuildInv, LoadsInv, LoadInv, LoadIsComplete
  <2>4. 1..total \cup stored = 1..Len(sources)
    BY <2>1, <2>2, <2>3
  <2> QED BY <2>1, <2>2, <2>4
<1>2. ASSUME BuildInv, verdict = "ok", builder = "semantic"
      PROVE  points = [d \in Docs |-> d] /\ held = Docs
  <2>1. pc = "done" /\ held = DOMAIN points /\ points = Prefix(start) /\ start >= DocCount /\ start \in Nat
    BY <1>2 DEF BuildInv, EmbedInv
  <2>2. Least(start, DocCount) = DocCount
    BY <2>1, CountsAssumption DEF Least
  <2> QED BY <2>1, <2>2 DEF Prefix, Docs
<1>3. BuildInv => AcceptedBuildsAreComplete
  BY <1>1, <1>2 DEF AcceptedBuildsAreComplete, BuildInv
<1> QED BY <1>3, BuildInvariant, PTL

-----------------------------------------------------------------------------
(* The bodies of a load *)

(* The weight of a body, one document at a time. *)
LEMMA WeightIsTotal ==
    ASSUME sources \in Seq([id : Nat, bytes : Nat \ {0}]),
           NEW body \in Seq(1..Len(sources))
    PROVE  \E t \in [0..Len(body) -> Nat] :
             /\ Weight(body) = t[Len(body)]
             /\ t[0] = 0
             /\ \A m \in 1..Len(body) : t[m] = t[m - 1] + sources[body[m]].bytes
<1> DEFINE N == Len(body)
           g == [m \in 1..N |-> sources[body[m]].bytes]
           upTo[n \in 0..Len(body)] == IF n = 0 THEN 0 ELSE upTo[n - 1] + sources[body[n]].bytes
<1>1. N \in Nat /\ \A m \in 1..N : body[m] \in 1..Len(sources)
  OBVIOUS
<1>2. \A d \in 1..Len(sources) : sources[d].bytes \in Nat
  <2> DEFINE R == [id : Nat, bytes : Nat \ {0}]
  <2>1. \A x \in R : x.bytes \in Nat
    OBVIOUS
  <2>2. \A d \in 1..Len(sources) : sources[d] \in R
    <3> HIDE DEF R
    <3>1. sources \in Seq(R)
      BY DEF R
    <3> QED
      BY <3>1
  <2> HIDE DEF R
  <2> QED
    BY <2>1, <2>2
<1>3. g \in [1..N -> Nat]
  BY <1>1, <1>2
<1>4. Weight(body) = upTo[N]
  BY DEF Weight
<1>5. \E t : t = [m \in 0..N |-> IF m = 0 THEN 0 ELSE t[m - 1] + sources[body[m]].bytes]
  <2>1. PICK t \in [0..N -> Nat] : t = [m \in 0..N |-> IF m = 0 THEN 0 ELSE t[m - 1] + g[m]]
    <3> HIDE DEF g, N
    <3> QED
      BY <1>1, <1>3, TotalsExist
  <2>2. \A m \in 0..N : m # 0 => g[m] = sources[body[m]].bytes
    OBVIOUS
  <2>3. t = [m \in 0..N |-> IF m = 0 THEN 0 ELSE t[m - 1] + sources[body[m]].bytes]
    BY <2>1, <2>2
  <2> QED
    BY <2>3
<1>6. upTo = [m \in 0..N |-> IF m = 0 THEN 0 ELSE upTo[m - 1] + sources[body[m]].bytes]
  BY <1>5
<1> HIDE DEF upTo
<1>7. \A m \in 0..N : upTo[m] = IF m = 0 THEN 0 ELSE upTo[m - 1] + sources[body[m]].bytes
  BY <1>6
<1>8. /\ upTo[0] = 0
      /\ \A m \in 1..N : upTo[m] = upTo[m - 1] + sources[body[m]].bytes
  <2>1. 0 \in 0..N /\ \A m \in 1..N : m \in 0..N /\ m # 0
    BY <1>1
  <2> QED
    BY <1>7, <2>1
<1>9. \A m \in 0..N : upTo[m] \in Nat
  <2> DEFINE T == {m \in 0..N : upTo[m] \in Nat}
  <2>1. 0 \in T
    BY <1>1, <1>8
  <2>2. ASSUME NEW m \in 0..N, m < N, m \in T
        PROVE  m + 1 \in T
    <3>1. m + 1 \in 1..N /\ (m + 1) - 1 = m /\ m + 1 \in 0..N
      BY <1>1, <2>2
    <3>2. sources[body[m + 1]].bytes \in Nat
      BY <1>1, <1>2, <3>1
    <3>3. upTo[m + 1] = upTo[m] + sources[body[m + 1]].bytes /\ upTo[m] \in Nat
      BY <1>8, <2>2, <3>1
    <3>4. \A p, q \in Nat : p + q \in Nat
      OBVIOUS
    <3>5. upTo[m + 1] \in Nat
      BY <3>2, <3>3, <3>4
    <3> QED
      BY <3>1, <3>5
  <2>3. \A m \in 0..N : m \in T
    <3>1. \A m \in 0..N : m < N /\ m \in T => m + 1 \in T
      BY <2>2
    <3> HIDE DEF T, N
    <3> QED
      BY <1>1, <2>1, <3>1, CountingUp
  <2> QED
    BY <2>3
<1>10. upTo \in [0..N -> Nat]
  <2>1. upTo = [m \in 0..N |-> upTo[m]]
    BY <1>6
  <2> QED
    BY <1>9, <2>1
<1> QED
  BY <1>4, <1>8, <1>10

(* A body that is put together line by line grows by the bytes of each. *)
LEMMA WeightGrows ==
    ASSUME sources \in Seq([id : Nat, bytes : Nat \ {0}]),
           NEW body \in Seq(1..Len(sources)), NEW d \in 1..Len(sources)
    PROVE  /\ Weight(body) \in Nat /\ sources[d].bytes \in Nat
           /\ Weight(Append(body, d)) = Weight(body) + sources[d].bytes
<1> DEFINE N == Len(body)
           longer == Append(body, d)
<1>1. /\ N \in Nat /\ longer \in Seq(1..Len(sources)) /\ Len(longer) = N + 1
      /\ longer[N + 1] = d /\ \A m \in 1..N : longer[m] = body[m]
  OBVIOUS
<1>2. sources[d].bytes \in Nat
  <2> DEFINE R == [id : Nat, bytes : Nat \ {0}]
  <2>1. sources[d] \in R
    <3> HIDE DEF R
    <3>1. sources \in Seq(R)
      BY DEF R
    <3> QED
      BY <3>1
  <2>2. \A x \in R : x.bytes \in Nat
    OBVIOUS
  <2> HIDE DEF R
  <2> QED
    BY <2>1, <2>2
<1>3. PICK t \in [0..N -> Nat] :
        /\ Weight(body) = t[N]
        /\ t[0] = 0
        /\ \A m \in 1..N : t[m] = t[m - 1] + sources[body[m]].bytes
  BY WeightIsTotal
<1>4. PICK u \in [0..(N + 1) -> Nat] :
        /\ Weight(longer) = u[N + 1]
        /\ u[0] = 0
        /\ \A m \in 1..(N + 1) : u[m] = u[m - 1] + sources[longer[m]].bytes
  <2> HIDE DEF longer, N
  <2>1. \E u \in [0..Len(longer) -> Nat] :
          /\ Weight(longer) = u[Len(longer)]
          /\ u[0] = 0
          /\ \A m \in 1..Len(longer) : u[m] = u[m - 1] + sources[longer[m]].bytes
    BY <1>1, WeightIsTotal
  <2> QED
    BY <1>1, <2>1
<1> HIDE DEF longer, N
<1> DEFINE T == {m \in 0..N : t[m] = u[m]}
<1>5. 0 \in T
  BY <1>1, <1>3, <1>4
<1>6. ASSUME NEW m \in 0..N, m < N, m \in T
      PROVE  m + 1 \in T
  <2>1. m + 1 \in 1..N /\ m + 1 \in 1..(N + 1) /\ m + 1 \in 0..N /\ (m + 1) - 1 = m
    BY <1>1, <1>6
  <2>2. t[m + 1] = t[m] + sources[body[m + 1]].bytes
    BY <1>3, <2>1
  <2>3. u[m + 1] = u[m] + sources[body[m + 1]].bytes
    BY <1>1, <1>4, <2>1
  <2> QED
    BY <1>6, <2>1, <2>2, <2>3
<1>7. t[N] = u[N]
  <2>1. \A m \in 0..N : m < N /\ m \in T => m + 1 \in T
    BY <1>6
  <2>2. N \in 0..N
    BY <1>1
  <2>3. N \in T
    <3> HIDE DEF T
    <3> QED
      BY <1>1, <1>5, <2>1, <2>2, CountingUp
  <2> QED
    BY <2>3
<1>8. N \in 0..N /\ N + 1 \in 1..(N + 1) /\ (N + 1) - 1 = N
  BY <1>1
<1>9. u[N + 1] = u[N] + sources[d].bytes
  <2>1. u[N + 1] = u[(N + 1) - 1] + sources[longer[N + 1]].bytes
    BY <1>4, <1>8
  <2> QED
    BY <1>1, <1>8, <2>1
<1>10. t[N] \in Nat
  BY <1>3, <1>8
<1> QED
  BY <1>2, <1>3, <1>4, <1>7, <1>9, <1>10 DEF longer

(* What a step that leaves the load alone does not change about a body. *)
LEMMA BodiesStay ==
    ASSUME UNCHANGED load
    PROVE  /\ \A body : Weight(body)' = Weight(body)
           /\ \A body : Keeps(body)' <=> Keeps(body)
           /\ \A body, d : LeavesNoPlace(body, d)' <=> LeavesNoPlace(body, d)
<1>1. sources' = sources /\ maxDocuments' = maxDocuments /\ maxBytes' = maxBytes
  BY DEF load
<1>2. \A body : Weight(body)' = Weight(body)
  BY <1>1 DEF Weight
<1>3. \A body : Keeps(body)' <=> Keeps(body)
  BY <1>1, <1>2 DEF Keeps
<1>4. \A body, d : LeavesNoPlace(body, d)' <=> LeavesNoPlace(body, d)
  BY <1>1, <1>2 DEF LeavesNoPlace
<1> QED
  BY <1>2, <1>3, <1>4

(* Before the first document nothing was sent and nothing is in hand. *)
LEMMA BodiesBegin ==
    ASSUME BulkInit
    PROVE  BodiesInv
<1>1. sources \in Seq([id : Nat, bytes : Nat \ {0}])
  BY LoadsAssumption DEF BulkInit
<1>2. << >> \in Seq(1..Len(sources)) /\ << >> \in Seq(Seq(1..Len(sources))) /\ Len(<< >>) = 0
  OBVIOUS
<1>3. Weight(<< >>) = 0
  BY <1>1, <1>2, WeightIsTotal
<1>4. DOMAIN << >> = {}
  OBVIOUS
<1> QED
  BY <1>2, <1>3, <1>4 DEF BulkInit, BodiesInv, BodiesRespectTheLimits

(* The body in hand is sent: it keeps the limits, and so do all of them. *)
LEMMA BodyIsSent ==
    ASSUME LoadsInv, BodiesInv, UNCHANGED load, bulkPc = "post", posted' = Append(posted, lines)
    PROVE  /\ lines \in Seq(1..Len(sources)) /\ lines # << >>
           /\ posted' \in Seq(Seq(1..Len(sources)))
           /\ BodiesRespectTheLimits'
<1>1. /\ Len(sources) \in Nat /\ taken \in Nat /\ total \in Nat /\ total <= taken
      /\ taken <= Len(sources) /\ Len(lines) = taken - total
      /\ lines = [i \in 1..(taken - total) |-> total + i]
  BY LoadTypes DEF LoadsInv, LoadInv
<1>2. /\ posted \in Seq(Seq(1..Len(sources)))
      /\ lines # << >> /\ Keeps(lines)
      /\ posted # << >> /\ total < Len(sources) => LeavesNoPlace(posted[Len(posted)], total + 1)
      /\ BodiesRespectTheLimits
  BY DEF BodiesInv
<1>3. lines \in Seq(1..Len(sources))
  <2>1. \A i \in 1..(taken - total) : total + i \in 1..Len(sources)
    BY <1>1
  <2>2. lines \in [1..(taken - total) -> 1..Len(sources)]
    BY <1>1, <2>1
  <2> QED
    BY <1>1, <2>2
<1>4. taken - total \in Nat /\ taken - total # 0
  <2>1. lines = << >> <=> Len(lines) = 0
    BY <1>3
  <2> QED
    BY <1>1, <1>2, <2>1
<1>5. lines[1] = total + 1 /\ total < Len(sources)
  BY <1>1, <1>4
<1> DEFINE k == Len(posted)
           B == Seq(1..Len(sources))
<1>6. /\ k \in Nat /\ DOMAIN posted = 1..k /\ (posted # << >> <=> k # 0)
      /\ posted' \in Seq(B) /\ Len(posted') = k + 1 /\ DOMAIN posted' = 1..(k + 1)
      /\ posted'[k + 1] = lines /\ \A b \in 1..k : posted'[b] = posted[b]
  <2> HIDE DEF B
  <2>1. posted \in Seq(B) /\ lines \in B
    BY <1>2, <1>3 DEF B
  <2> QED
    BY <2>1
<1>7. /\ \A body : Keeps(body)' <=> Keeps(body)
      /\ \A body, d : LeavesNoPlace(body, d)' <=> LeavesNoPlace(body, d)
  BY BodiesStay
<1>8. k # 0 => LeavesNoPlace(posted[k], total + 1)
  BY <1>2, <1>5, <1>6
<1>9. \A b \in 1..k : /\ posted[b] # << >> /\ Keeps(posted[b])
                      /\ b < k => LeavesNoPlace(posted[b], posted[b + 1][1])
  BY <1>2, <1>6 DEF BodiesRespectTheLimits
<1> HIDE DEF k
<1>10. ASSUME NEW b \in 1..(k + 1)
       PROVE  /\ posted'[b] # << >> /\ Keeps(posted'[b])
              /\ b < k + 1 => LeavesNoPlace(posted'[b], posted'[b + 1][1])
  <2>1. CASE b = k + 1
    BY <1>2, <1>6, <2>1
  <2>2. CASE b = k
    <3>1. b \in 1..k /\ b + 1 = k + 1 /\ k # 0
      BY <1>6, <2>2
    <3>2. posted'[b] = posted[b] /\ posted'[b + 1] = lines
      BY <1>6, <3>1
    <3> QED
      BY <1>5, <1>8, <1>9, <2>2, <3>1, <3>2
  <2>3. CASE b < k
    <3>1. b \in 1..k /\ b + 1 \in 1..k
      BY <1>6, <2>3
    <3>2. posted'[b] = posted[b] /\ posted'[b + 1] = posted[b + 1]
      BY <1>6, <3>1
    <3> QED
      BY <1>9, <2>3, <3>1, <3>2
  <2>4. b = k + 1 \/ b = k \/ b < k
    BY <1>6
  <2> QED
    BY <2>1, <2>2, <2>3, <2>4
<1>11. BodiesRespectTheLimits'
  BY <1>6, <1>7, <1>10 DEF BodiesRespectTheLimits
<1> QED
  BY <1>2, <1>3, <1>6, <1>11

(* Each step of a load keeps BodiesInv: a document is taken only when it fits,
   and what is sent is what was put together. *)
LEMMA BodiesStep ==
    ASSUME LoadsInv, maxDocuments \in Int, maxBytes \in Int, BodiesInv, [BulkNext]_bulkVars
    PROVE  BodiesInv'
<1>1. /\ sources \in Seq([id : Nat, bytes : Nat \ {0}])
      /\ Len(sources) \in Nat /\ taken \in Nat /\ total \in Nat /\ total <= taken
      /\ taken <= Len(sources) /\ Len(lines) = taken - total
      /\ lines = [i \in 1..(taken - total) |-> total + i]
  BY LoadTypes DEF LoadsInv, LoadInv
<1>2. /\ posted \in Seq(Seq(1..Len(sources)))
      /\ bodyBytes = Weight(lines)
      /\ lines # << >> => Keeps(lines)
      /\ bulkPc = "post" => lines # << >> /\ (taken < Len(sources) => MustCut)
      /\ bulkPc # "raised" /\ posted # << >> /\ total < Len(sources) =>
           LeavesNoPlace(posted[Len(posted)], total + 1)
      /\ BodiesRespectTheLimits
  BY DEF BodiesInv
<1>3. lines \in Seq(1..Len(sources)) /\ (lines = << >> <=> taken - total = 0)
  <2>1. \A i \in 1..(taken - total) : total + i \in 1..Len(sources)
    BY <1>1
  <2>2. lines \in [1..(taken - total) -> 1..Len(sources)] /\ taken - total \in Nat
    BY <1>1, <2>1
  <2>3. lines \in Seq(1..Len(sources))
    BY <2>2
  <2>4. lines = << >> <=> Len(lines) = 0
    <3> DEFINE S == 1..Len(sources)
    <3>1. lines \in Seq(S)
      BY <2>3
    <3> HIDE DEF S
    <3> QED
      BY <3>1
  <2> QED
    BY <1>1, <2>3, <2>4
<1>4. UNCHANGED load
  BY DEF BulkNext, Take, Yield, Post, PostFails, Return, bulkVars, load
<1>5. /\ \A body : Weight(body)' = Weight(body)
      /\ \A body : Keeps(body)' <=> Keeps(body)
      /\ \A body, d : LeavesNoPlace(body, d)' <=> LeavesNoPlace(body, d)
      /\ sources' = sources /\ maxDocuments' = maxDocuments /\ maxBytes' = maxBytes
  BY <1>4, BodiesStay DEF load
(* What was sent stays sent. *)
<1>6. ASSUME posted' = posted
      PROVE  BodiesRespectTheLimits' /\ posted' \in Seq(Seq(1..Len(sources')))
  BY <1>2, <1>5, <1>6 DEF BodiesRespectTheLimits
<1>7. CASE Take
  <2>1. /\ bulkPc = "next" /\ taken < Len(sources) /\ ~MustCut
        /\ taken' = taken + 1 /\ lines' = Append(lines, taken + 1)
        /\ bodyBytes' = bodyBytes + sources[taken + 1].bytes
        /\ posted' = posted /\ total' = total /\ bulkPc' = bulkPc
    BY <1>7 DEF Take
  <2>2. taken + 1 \in 1..Len(sources)
    BY <1>1, <2>1
  <2>3. /\ Weight(lines) \in Nat
        /\ Weight(lines') = Weight(lines) + sources[taken + 1].bytes
    BY <1>1, <1>3, <2>1, <2>2, WeightGrows
  <2>4. bodyBytes' = Weight(lines')
    BY <1>2, <2>1, <2>3
  <2>5. Len(lines') = Len(lines) + 1 /\ Len(lines) \in Nat
    BY <1>3, <2>1, <2>2
  <2>6. Keeps(lines')
    <3>1. CASE lines = << >>
      <4>1. Len(lines') = 1
        BY <2>5, <3>1
      <4> QED
        BY <4>1 DEF Keeps
    <3>2. CASE lines # << >>
      <4>1. ~(Len(lines) >= maxDocuments) /\ ~(bodyBytes + sources[taken + 1].bytes > maxBytes)
        BY <2>1, <3>2 DEF MustCut
      <4>2. Len(lines') <= maxDocuments
        BY <2>5, <4>1
      <4>3. Weight(lines') <= maxBytes
        <5>1. Weight(lines) \in Nat /\ sources[taken + 1].bytes \in Nat
          BY <1>1, <1>3, <2>1, <2>2, WeightGrows
        <5>2. Weight(lines') = bodyBytes + sources[taken + 1].bytes
          BY <2>1, <2>4
        <5> DEFINE x == bodyBytes + sources[taken + 1].bytes
        <5>3. x \in Int /\ ~(x > maxBytes)
          BY <1>2, <4>1, <5>1
        <5>4. x <= maxBytes
          <6> HIDE DEF x
          <6> QED
            BY <5>3
        <5> QED
          BY <5>2, <5>4
      <4> QED
        BY <4>2, <4>3 DEF Keeps
    <3> QED
      BY <3>1, <3>2
  <2>7. (bulkPc # "raised" /\ posted # << >> /\ total < Len(sources) =>
           LeavesNoPlace(posted[Len(posted)], total + 1))'
    BY <1>2, <1>5, <2>1
  <2>8. (lines # << >> => Keeps(lines))' /\ bodyBytes' = Weight(lines)'
    BY <1>5, <2>4, <2>6
  <2> QED
    BY <1>6, <2>1, <2>7, <2>8 DEF BodiesInv
<1>8. CASE Yield
  <2>1. /\ bulkPc = "next" /\ lines # << >> /\ (taken < Len(sources) => MustCut) /\ bulkPc' = "post"
        /\ taken' = taken /\ lines' = lines /\ bodyBytes' = bodyBytes
        /\ posted' = posted /\ total' = total
    BY <1>8 DEF Yield
  <2>2. (bulkPc = "post" => lines # << >> /\ (taken < Len(sources) => MustCut))'
    BY <1>5, <2>1 DEF MustCut
  <2>3. (bulkPc # "raised" /\ posted # << >> /\ total < Len(sources) =>
           LeavesNoPlace(posted[Len(posted)], total + 1))'
    BY <1>2, <1>5, <2>1
  <2>4. (lines # << >> => Keeps(lines))' /\ bodyBytes' = Weight(lines)'
    BY <1>2, <1>5, <2>1
  <2> QED
    BY <1>6, <2>1, <2>2, <2>3, <2>4 DEF BodiesInv
<1>9. CASE Post
  <2>1. /\ bulkPc = "post" /\ posted' = Append(posted, lines) /\ total' = total + Len(lines)
        /\ lines' = << >> /\ bodyBytes' = 0 /\ bulkPc' = "next" /\ taken' = taken
    BY <1>9 DEF Post
  <2>2. /\ posted' \in Seq(Seq(1..Len(sources))) /\ BodiesRespectTheLimits'
    BY <1>4, <2>1, BodyIsSent
  <2>3. Weight(<< >>) = 0
    <3>1. << >> \in Seq(1..Len(sources)) /\ Len(<< >>) = 0
      OBVIOUS
    <3> QED
      BY <1>1, <3>1, WeightIsTotal
  <2>4. ASSUME total' < Len(sources)
        PROVE  LeavesNoPlace(posted'[Len(posted')], total' + 1)
    <3>1. total' = taken
      BY <1>1, <2>1
    <3>2. MustCut
      BY <1>2, <2>1, <2>4, <3>1
    <3>3. LeavesNoPlace(lines, taken + 1)
      BY <1>2, <3>2 DEF MustCut, LeavesNoPlace
    <3>4. posted'[Len(posted')] = lines
      <4> DEFINE B == Seq(1..Len(sources))
      <4>1. posted \in Seq(B) /\ lines \in B
        BY <1>2, <1>3
      <4> HIDE DEF B
      <4> QED
        BY <2>1, <4>1
    <3> QED
      BY <3>1, <3>3, <3>4
  <2>5. bodyBytes' = Weight(lines)'
    BY <1>5, <2>1, <2>3
  <2>6. (bulkPc # "raised" /\ posted # << >> /\ total < Len(sources) =>
           LeavesNoPlace(posted[Len(posted)], total + 1))'
    BY <1>5, <2>4
  <2> QED
    BY <1>5, <2>1, <2>2, <2>5, <2>6 DEF BodiesInv
<1>10. CASE PostFails
  <2>1. /\ bulkPc = "post" /\ posted' = Append(posted, lines) /\ total' = total
        /\ lines' = lines /\ bodyBytes' = bodyBytes /\ bulkPc' = "raised" /\ taken' = taken
    BY <1>10 DEF PostFails
  <2>2. /\ posted' \in Seq(Seq(1..Len(sources))) /\ BodiesRespectTheLimits'
    BY <1>4, <2>1, BodyIsSent
  <2> QED
    BY <1>2, <1>5, <2>1, <2>2 DEF BodiesInv
<1>11. CASE Return
  <2>1. /\ bulkPc' = "returned" /\ bulkPc = "next"
        /\ taken' = taken /\ lines' = lines /\ bodyBytes' = bodyBytes
        /\ posted' = posted /\ total' = total
    BY <1>11 DEF Return
  <2> QED
    BY <1>2, <1>5, <1>6, <2>1 DEF BodiesInv
<1>12. CASE UNCHANGED bulkVars
  <2>1. /\ bulkPc' = bulkPc
        /\ taken' = taken /\ lines' = lines /\ bodyBytes' = bodyBytes
        /\ posted' = posted /\ total' = total
    BY <1>12 DEF bulkVars
  <2>2. (bulkPc = "post" => lines # << >> /\ (taken < Len(sources) => MustCut))'
    BY <1>2, <1>5, <2>1 DEF MustCut
  <2> QED
    BY <1>2, <1>5, <1>6, <2>1, <2>2 DEF BodiesInv
<1> QED
  BY <1>7, <1>8, <1>9, <1>10, <1>11, <1>12 DEF BulkNext

(* BodiesInv with what its proof needs to know of the load and its limits. *)
BatchesInv == LoadsInv /\ maxDocuments \in DocumentLimits /\ maxBytes \in ByteLimits /\ BodiesInv

(* _iter_bulk_bodies: wherever the limits cut the load, no body is empty or over
   a limit, unless it is one document, and none is cut early; as long as bodies
   are sent one after the other and none after a failure. *)
THEOREM BodiesKeepTheirLimits == BuildSpec => []BodiesRespectTheLimits
<1>1. BuildInit => BatchesInv
  BY LoadBegins, BodiesBegin DEF BuildInit, BulkInit, BatchesInv
<1>2. [BuildNext]_buildVars => [BulkNext]_bulkVars
  BY DEF BuildNext, LexicalBuild, SemanticBuild, Judge, Refresh, RefreshFails,
         JudgeIndex, JudgeCollection, buildVars
<1>3. BatchesInv /\ [BuildNext]_buildVars => BatchesInv'
  <2> SUFFICES ASSUME BatchesInv, [BuildNext]_buildVars
               PROVE  BatchesInv'
    OBVIOUS
  <2>1. [BulkNext]_bulkVars
    BY <1>2
  <2>2. LoadsInv /\ BodiesInv /\ maxDocuments \in Int /\ maxBytes \in Int
    BY LimitsAssumption DEF BatchesInv
  <2>3. LoadsInv' /\ BodiesInv'
    BY <2>1, <2>2, LoadStep, BodiesStep
  <2>4. maxDocuments' = maxDocuments /\ maxBytes' = maxBytes
    BY <2>1 DEF BulkNext, Take, Yield, Post, PostFails, Return, bulkVars, load
  <2> QED
    BY <2>3, <2>4 DEF BatchesInv
<1>4. BatchesInv => BodiesRespectTheLimits
  BY DEF BatchesInv, BodiesInv
<1> QED
  BY <1>1, <1>3, <1>4, PTL DEF BuildSpec
=============================================================================
