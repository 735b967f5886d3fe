----------------------------- MODULE BuildSteps -----------------------------
(***************************************************************************)
(* The inside of a build, from its documents to its verdict.  The lexical  *)
(* builder (src/search/indexing/builder.py) loads an index in bulk and     *)
(* then searches it; the semantic one                                      *)
(* (src/search/vector_indexing/builder.py) embeds and upserts in batches   *)
(* and then queries what it stored, with the queries of its golden set     *)
(* embedded too.  Both judge the store they filled and nothing else, and   *)
(* only when filling it did not raise.                                     *)
(***************************************************************************)
EXTENDS EmbeddingBatches, BulkBatches, GoldenGate

VARIABLES
    builder,        \* which of the two runs
    refresh,        \* of the index: "none", "done" or "raised"
    searchable      \* the ids a refreshed index can be searched for

buildVars == <<vars, bulkVars, gateVars, builder, refresh, searchable>>

-----------------------------------------------------------------------------
(* A lexical builder refuses a corpus without documents.  The builder that does
   not run has an empty load or an unused size. *)
BuildInit ==
    /\ builder \in {"lexical", "semantic"}
    /\ Init
    /\ BulkInit
    /\ GateIdle
    /\ refresh = "none"
    /\ searchable = {}
    /\ builder = "lexical" => size = 0 /\ sources # << >>
    /\ builder = "semantic" =>
         /\ sources = << >>
         /\ \A limit \in DocumentLimits : maxDocuments <= limit
         /\ \A limit \in ByteLimits : maxBytes <= limit

(* What was loaded can be searched once the index was refreshed.  Nobody looks
   before, so what OpenSearch shows by itself meanwhile is left out.  A refresh
   that fails may have been made, and ends the build. *)
Refresh ==
    /\ bulkPc = "returned"
    /\ refresh = "none"
    /\ refresh' = "done"
    /\ searchable' = IdsOf(index)
    /\ UNCHANGED <<vars, bulkVars, gateVars, builder>>

RefreshFails ==
    /\ bulkPc = "returned"
    /\ refresh = "none"
    /\ refresh' = "raised"
    /\ searchable' \in {searchable, IdsOf(index)}
    /\ UNCHANGED <<vars, bulkVars, gateVars, builder>>

(* Slip: a load that raised is judged all the same. *)
JudgeAnyIndex ==
    /\ refresh = "done" \/ bulkPc = "raised"
    /\ BeginGate("lexical", IdsOf(index))
    /\ UNCHANGED <<vars, bulkVars, builder, refresh, searchable>>

JudgeIndex ==
    /\ refresh = "done"
    /\ BeginGate("lexical", searchable)
    /\ UNCHANGED <<vars, bulkVars, builder, refresh, searchable>>

(* _validate_collection has counted the points by then. *)
JudgeCollection ==
    /\ pc = "done"
    /\ Cardinality(DOMAIN points) = DocCount
    /\ BeginGate("semantic", DOMAIN points)
    /\ UNCHANGED <<vars, bulkVars, builder, refresh, searchable>>

LexicalBuild ==
    /\ builder = "lexical"
    /\ \/ BulkNext /\ UNCHANGED <<vars, gateVars, builder, refresh, searchable>>
       \/ Refresh
       \/ RefreshFails
       \/ JudgeIndex

SemanticBuild ==
    /\ builder = "semantic"
    /\ \/ Next /\ UNCHANGED <<bulkVars, gateVars, builder, refresh, searchable>>
       \/ JudgeCollection

Judge == GateNext /\ UNCHANGED <<vars, bulkVars, builder, refresh, searchable>>

BuildNext == LexicalBuild \/ SemanticBuild \/ Judge

BuildSpec == BuildInit /\ [][BuildNext]_buildVars

-----------------------------------------------------------------------------
(* Properties *)

(* A build that is accepted is whole, although neither golden set looks at more
   than a few documents: an index holds the latest document of every id of the
   load, and a collection every document under its own vector; and all of it
   could be found by the searches that accepted it. *)
AcceptedBuildsAreComplete ==
    verdict = "ok" =>
        IF builder = "lexical"
        THEN index = LatestOf(1..Len(sources)) /\ held = IdsOf(index)
        ELSE points = [d \in Docs |-> d] /\ held = Docs

(* build_embedding_preflight estimates the requests an operator is to pay for.
   A semantic build sends that many for its documents and, wherever it fails,
   never more.  The queries of its golden set come on top: the preflight leaves
   them out, none is sent before the estimate is used up, and a build that comes
   to a verdict sends one for each case.  The SDK's own retries are not counted;
   a lexical build sends nothing to the provider. *)
RequestsAreAsEstimated ==
    LET cases == Len(Suites["semantic"])
    IN  /\ requests <= Estimate
        /\ embedded > 0 => requests = Estimate
        /\ embedded <= cases
        /\ builder = "semantic" /\ verdict \in {"ok", "failed"} =>
             requests + embedded = Estimate + cases
        /\ builder = "lexical" => requests = 0 /\ embedded = 0
=============================================================================
