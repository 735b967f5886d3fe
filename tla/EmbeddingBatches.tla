-------------------------- MODULE EmbeddingBatches --------------------------
(***************************************************************************)
(* How documents become points of a collection: _batches and               *)
(* _embed_and_upsert of src/search/vector_indexing/builder.py over         *)
(* OpenAIEmbeddingProvider (src/search/embeddings/openai_provider.py).     *)
(* It details the UpsertBatch steps of VectorIndex.                        *)
(*                                                                         *)
(* Documents are numbered in the order they are embedded in, and a vector  *)
(* is represented by the document whose text it was computed from.  The    *)
(* provider answers in any order, with any indices and any count: each     *)
(* vector does belong to the input its index names, when there is one.     *)
(***************************************************************************)
EXTENDS Naturals, FiniteSets, Sequences

CONSTANTS
    DocCount,       \* documents of the build
    Sizes,          \* batch sizes an operator may configure, 0 among them
    MaxExtra        \* bound: how many items a response has beyond its inputs

ASSUME CountsAssumption == DocCount \in Nat /\ Sizes \subseteq Nat /\ MaxExtra \in Nat

Docs == 1..DocCount
Junk == 0           \* a vector of no input

VARIABLES
    size,           \* batch_size or settings.embedding_document_batch_size
    start,          \* _batches: how many documents earlier batches hold
    response,       \* the provider's answer for the current batch
    points,         \* the collection: document -> the vector stored for it
    requests,       \* requests sent so far for the embedding of documents
    pc

vars == <<size, start, response, points, requests, pc>>

-----------------------------------------------------------------------------
Least(a, b) == IF a < b THEN a ELSE b

(* The slice items[start : start + size], as how many it holds. *)
BatchLength == Least(size, DocCount - start)

(* request_count of build_embedding_preflight: ceil(documents / batch size). *)
Estimate == IF size > 0 THEN (DocCount + size - 1) \div size ELSE 0

(* A response item: its index, and whether its vector has the configured
   dimension and only finite values; then the document it was computed from. *)
Items(n) == [index : 0..n, valid : BOOLEAN]
VectorOf(item, n) == IF item.index < n THEN start + item.index + 1 ELSE Junk
Responses(n) == UNION {[1..k -> Items(n)] : k \in 0..(n + MaxExtra)}

(* sorted(data, key=index), which keeps the order of equal indices. *)
Sorted(data) ==
    [p \in DOMAIN data |->
        data[CHOOSE j \in DOMAIN data :
            Cardinality({k \in DOMAIN data :
                \/ data[k].index < data[j].index
                \/ data[k].index = data[j].index /\ k < j}) = p - 1]]

(* Slip: the order of the response is trusted. *)
VectorsAsReceived(data, n) == [p \in 1..n |-> VectorOf(data[p], n)]

VectorsOf(data, n) == [p \in 1..n |-> VectorOf(Sorted(data)[p], n)]

(* The checks of _ordered_vectors and validate_embedding_vectors. *)
Accepted(data, n) ==
    /\ Len(data) = n
    /\ \A p \in DOMAIN data : Sorted(data)[p].index = p - 1
    /\ \A i \in DOMAIN data : data[i].valid

-----------------------------------------------------------------------------
Init ==
    /\ size \in Sizes
    /\ start = 0
    /\ response = << >>
    /\ points = [d \in {} |-> Junk]
    /\ requests = 0
    /\ pc = "batch"

(* Slip: the last, shorter batch is not sent. *)
FullBatchesOnly ==
    /\ pc = "batch"
    /\ pc' = IF size = 0 THEN "raised" ELSE IF start + size <= DocCount THEN "embed" ELSE "done"
    /\ UNCHANGED <<size, start, response, points, requests>>

(* The head of the loop.  A size that is not positive raises here, after the
   collection was created. *)
NextBatch ==
    /\ pc = "batch"
    /\ pc' = IF size = 0 THEN "raised" ELSE IF start < DocCount THEN "embed" ELSE "done"
    /\ UNCHANGED <<size, start, response, points, requests>>

(* One request for the whole batch, answered somehow ... *)
Request ==
    /\ pc = "embed"
    /\ requests' = requests + 1
    /\ response' \in Responses(BatchLength)
    /\ pc' = "check"
    /\ UNCHANGED <<size, start, points>>

(* ... or not. *)
RequestFails ==
    /\ pc = "embed"
    /\ requests' = requests + 1
    /\ pc' = "raised"
    /\ UNCHANGED <<size, start, response, points>>

Accept ==
    /\ pc = "check"
    /\ Accepted(response, BatchLength)
    /\ pc' = "upsert"
    /\ UNCHANGED <<size, start, response, points, requests>>

Reject ==
    /\ pc = "check"
    /\ ~Accepted(response, BatchLength)
    /\ pc' = "raised"
    /\ UNCHANGED <<size, start, response, points, requests>>

(* zip(batch, vectors): points are keyed by document, so sending a batch again
   would overwrite them. *)
Stored ==
    [d \in DOMAIN points \cup {start + i : i \in 1..BatchLength} |->
        IF d > start THEN VectorsOf(response, BatchLength)[d - start] ELSE points[d]]

(* Slip: batches overlap by a document. *)
UpsertOverlapping ==
    /\ pc = "upsert"
    /\ points' = Stored
    /\ start' = start + size - 1
    /\ response' = << >>
    /\ pc' = "batch"
    /\ UNCHANGED <<size, requests>>

Upsert ==
    /\ pc = "upsert"
    /\ points' = Stored
    /\ start' = start + size
    /\ response' = << >>
    /\ pc' = "batch"
    /\ UNCHANGED <<size, requests>>

(* The request fails, with or without having been applied. *)
UpsertFails ==
    /\ pc = "upsert"
    /\ points' \in {points, Stored}
    /\ pc' = "raised"
    /\ UNCHANGED <<size, start, response, requests>>

Next ==
    \/ NextBatch \/ Request \/ RequestFails \/ Accept \/ Reject
    \/ Upsert \/ UpsertFails

Spec == Init /\ [][Next]_vars

-----------------------------------------------------------------------------
(* Properties *)

(* _ordered_vectors: an exact permutation, each input embedded once.  Whatever
   a response looks like, no document is stored with the vector of another. *)
VectorsBelongToDocuments == \A d \in DOMAIN points : points[d] = d

(* The collection always holds a prefix of the documents in whole batches: one
   that got through has them all, and one that did not is short of some, which
   is what the point count of _validate_collection relies on. *)
PointsAreAPrefix ==
    /\ \E n \in 0..DocCount :
         /\ DOMAIN points = 1..n
         /\ n < DocCount /\ size > 0 => n % size = 0
    /\ pc = "done" => DOMAIN points = Docs

=============================================================================
