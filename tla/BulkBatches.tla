---------------------------- MODULE BulkBatches ----------------------------
(***************************************************************************)
(* How documents are loaded into a lexical index: bulk_index and the       *)
(* generator _iter_bulk_bodies it drives, of                               *)
(* src/search/opensearch_client.py.  It details the BulkIndex steps of     *)
(* LexicalIndex.                                                           *)
(*                                                                         *)
(* A document is its id, which another one may share, and the bytes of its *)
(* two lines in a body.  The documents of a load are named by their place  *)
(* in it.  The generator is lazy: a body is posted before the next         *)
(* document is appended to anything.                                       *)
(***************************************************************************)
EXTENDS Integers, Sequences

CONSTANTS
    Loads,              \* loads to send: sequences of documents
    DocumentLimits,     \* values of batch_document_count
    ByteLimits          \* values of batch_max_bytes

ASSUME LoadsAssumption ==
    \A load \in Loads : load \in Seq([id : Nat, bytes : Nat \ {0}])
ASSUME LimitsAssumption == DocumentLimits \subseteq Int /\ ByteLimits \subseteq Int

VARIABLES
    sources,        \* the load
    maxDocuments,
    maxBytes,
    taken,          \* how many documents the loop has appended to a body
    lines,          \* the body being put together: the documents in it
    bodyBytes,      \* the loop's `size`; its `count` is Len(lines)
    posted,         \* ghost: the bodies sent so far
    index,          \* OpenSearch: the documents that can be found
    total,          \* documents in the bodies that were acknowledged
    bulkPc

load == <<sources, maxDocuments, maxBytes>>
bulkVars == <<load, taken, lines, bodyBytes, posted, index, total, bulkPc>>

-----------------------------------------------------------------------------
Documents(body) == {body[i] : i \in DOMAIN body}
IdsOf(docs) == {sources[d].id : d \in docs}

(* OpenSearch replaces a document by a later one of its id, within a body and
   across bodies. *)
LatestOf(docs) == {d \in docs : \A e \in docs : sources[e].id = sources[d].id => e <= d}

Indexed(docs) == {d \in index : sources[d].id \notin IdsOf(docs)} \cup LatestOf(docs)

-----------------------------------------------------------------------------
BulkInit ==
    /\ sources \in Loads
    /\ maxDocuments \in DocumentLimits
    /\ maxBytes \in ByteLimits
    /\ taken = 0
    /\ lines = << >>
    /\ bodyBytes = 0
    /\ posted = << >>
    /\ index = {}
    /\ total = 0
    /\ bulkPc = "next"

(* Slip: the limit on documents is passed before it is noticed. *)
MustCutLate ==
    /\ lines # << >>
    /\ \/ Len(lines) > maxDocuments
       \/ bodyBytes + sources[taken + 1].bytes > maxBytes

(* The next document does not fit.  Nothing is cut before the first one, which
   is how a document larger than a body still gets sent. *)
MustCut ==
    /\ lines # << >>
    /\ \/ Len(lines) >= maxDocuments
       \/ bodyBytes + sources[taken + 1].bytes > maxBytes

Take ==
    /\ bulkPc = "next"
    /\ taken < Len(sources)
    /\ ~MustCut
    /\ taken' = taken + 1
    /\ lines' = Append(lines, taken + 1)
    /\ bodyBytes' = bodyBytes + sources[taken + 1].bytes
    /\ UNCHANGED <<load, posted, index, total, bulkPc>>

(* A body is handed to bulk_index: cut, or the last one. *)
Yield ==
    /\ bulkPc = "next"
    /\ lines # << >>
    /\ taken < Len(sources) => MustCut
    /\ bulkPc' = "post"
    /\ UNCHANGED <<load, taken, lines, bodyBytes, posted, index, total>>

(* Slip: the document that did not fit is not appended to the next body. *)
PostAndSkip ==
    /\ bulkPc = "post"
    /\ posted' = Append(posted, lines)
    /\ index' = Indexed(Documents(lines))
    /\ total' = total + Len(lines)
    /\ taken' = IF taken < Len(sources) THEN taken + 1 ELSE taken
    /\ lines' = << >>
    /\ bodyBytes' = 0
    /\ bulkPc' = "next"
    /\ UNCHANGED load

(* The request succeeds and its response reports no errors. *)
Post ==
    /\ bulkPc = "post"
    /\ posted' = Append(posted, lines)
    /\ index' = Indexed(Documents(lines))
    /\ total' = total + Len(lines)
    /\ lines' = << >>
    /\ bodyBytes' = 0
    /\ bulkPc' = "next"
    /\ UNCHANGED <<load, taken>>

(* A timeout, an error status or `errors` in the response: some documents of
   the body may have been stored, and nothing removes them. *)
PostFails ==
    /\ bulkPc = "post"
    /\ posted' = Append(posted, lines)
    /\ \E stored \in SUBSET Documents(lines) : index' = Indexed(stored)
    /\ bulkPc' = "raised"
    /\ UNCHANGED <<load, taken, lines, bodyBytes, total>>

Return ==
    /\ bulkPc = "next"
    /\ taken = Len(sources)
    /\ lines = << >>
    /\ bulkPc' = "returned"
    /\ UNCHANGED <<load, taken, lines, bodyBytes, posted, index, total>>

BulkNext == Take \/ Yield \/ Post \/ PostFails \/ Return

BulkSpec == BulkInit /\ [][BulkNext]_bulkVars

-----------------------------------------------------------------------------
(* Properties *)

(* Whatever the limits cut the load into, the index holds the latest document
   of each id among those acknowledged, plus, after a failure, some of the body
   that failed: nothing is dropped, repeated or sent out of order.  A call that
   returns has loaded everything and counted it. *)
LoadIsComplete ==
    /\ \E stored \in SUBSET (total + 1 .. taken) :
         /\ index = LatestOf(1..total \cup stored)
         /\ bulkPc # "raised" => stored = {}
    /\ bulkPc = "returned" => total = Len(sources)

Weight(body) ==
    LET upTo[n \in 0..Len(body)] ==
            IF n = 0 THEN 0 ELSE upTo[n - 1] + sources[body[n]].bytes
    IN  upTo[Len(body)]

Keeps(body) ==
    \/ Len(body) = 1
    \/ Len(body) <= maxDocuments /\ Weight(body) <= maxBytes

LeavesNoPlace(body, d) ==
    \/ Len(body) >= maxDocuments
    \/ Weight(body) + sources[d].bytes > maxBytes

(* No body is empty; each keeps both limits or is a single document; and none
   was cut while the next document would have fitted, so that a load never
   takes more requests than its limits ask for. *)
BodiesRespectTheLimits ==
    \A b \in DOMAIN posted :
        /\ posted[b] # << >>
        /\ Keeps(posted[b])
        /\ b < Len(posted) => LeavesNoPlace(posted[b], posted[b + 1][1])

-----------------------------------------------------------------------------
(* Why LoadIsComplete holds: the documents in hand are the ones between what   *)
(* was acknowledged and what was taken, in order.                              *)

LoadInv ==
    /\ taken \in 0..Len(sources)
    /\ total \in 0..taken
    /\ lines = [i \in 1..(taken - total) |-> total + i]
    /\ LoadIsComplete

(* Why BodiesRespectTheLimits holds: `size` is the weight of the body in hand,
   which keeps the limits too, and the next document did not fit in the last
   body.  After a failed request nothing is sent any more. *)
BodiesInv ==
    /\ posted \in Seq(Seq(1..Len(sources)))
    /\ bodyBytes = Weight(lines)
    /\ lines # << >> => Keeps(lines)
    /\ bulkPc = "post" => lines # << >> /\ (taken < Len(sources) => MustCut)
    /\ bulkPc # "raised" /\ posted # << >> /\ total < Len(sources) =>
         LeavesNoPlace(posted[Len(posted)], total + 1)
    /\ BodiesRespectTheLimits
=============================================================================
