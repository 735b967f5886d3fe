----------------------------- MODULE GoldenGate -----------------------------
(***************************************************************************)
(* How a build is judged before it may be activated: _validate_golden_set  *)
(* of src/search/indexing/builder.py for a lexical index and               *)
(* evaluate_semantic_collection of src/search/eval/runner.py for a         *)
(* collection.  It details ValidationPasses and ValidationFails of         *)
(* LexicalIndex, EvaluationPasses and ValidationFails of VectorIndex.      *)
(*                                                                         *)
(* A case is what it expects: the canonical ids its hits must include,     *)
(* whether these were confirmed, and the documents that have the content   *)
(* type and the language expected of some hit.  A verse and its            *)
(* translations are documents of one canonical id.  Which documents of the *)
(* store a case hits is up to the backend.                                 *)
(***************************************************************************)
EXTENDS Naturals, Sequences, FiniteSets

CONSTANTS
    Canonical,      \* the canonical id of each document
    Suites,         \* golden sets: sequences of cases, per build kind
    HitLimit        \* top_k of a case

ASSUME SuitesAssumption ==
    Suites \in [{"lexical", "semantic"} ->
                Seq([ids : SUBSET Nat, confirmed : BOOLEAN, fits : SUBSET Nat])]

VARIABLES
    kind,           \* which builder asks
    held,           \* the documents in the store
    case,           \* the case that is next
    hardFailures,   \* cases, by their place in the suite
    softMisses,
    embedded,       \* requests for the embedding of a case's query
    verdict

gateVars == <<kind, held, case, hardFailures, softMisses, embedded, verdict>>

Suite == Suites[kind]

-----------------------------------------------------------------------------
(* GoldenQuery.is_hard *)
IsHard(c) == c.confirmed /\ c.ids # {}

(* _structural_problems, which only the lexical builder looks for: no hit at
   all, or none of an expected type and language. *)
HasProblems(hits, c) == kind = "lexical" /\ hits \cap c.fits = {}

(* canonical_content_id of each hit *)
Found(hits) == {Canonical[d] : d \in hits}

(* Only the semantic gate has its queries embedded, each by a request of its own. *)
QueryRequests == IF kind = "semantic" THEN 1 ELSE 0

HitSets == {hits \in SUBSET held : Cardinality(hits) <= HitLimit}

GateIdle ==
    /\ kind = "lexical"
    /\ held = {}
    /\ case = 1
    /\ hardFailures = {}
    /\ softMisses = {}
    /\ embedded = 0
    /\ verdict = "none"

BeginGate(builder, contents) ==
    /\ verdict = "none"
    /\ kind' = builder
    /\ held' = contents
    /\ verdict' = "pending"
    /\ UNCHANGED <<case, hardFailures, softMisses, embedded>>

(* Slip: a case without structural problems is not asked for its ids. *)
JudgeStructure ==
    /\ verdict = "pending"
    /\ case <= Len(Suite)
    /\ \E hits \in HitSets :
         LET c == Suite[case]
             failed == HasProblems(hits, c)
         IN  /\ hardFailures' = hardFailures \cup (IF failed THEN {case} ELSE {})
             /\ softMisses' = softMisses \cup
                  (IF ~failed /\ ~(c.ids \subseteq Found(hits)) THEN {case} ELSE {})
    /\ case' = case + 1
    /\ embedded' = embedded + QueryRequests
    /\ UNCHANGED <<kind, held, verdict>>

(* One turn of the loop over the cases. *)
JudgeCase ==
    /\ verdict = "pending"
    /\ case <= Len(Suite)
    /\ \E hits \in HitSets :
         LET c == Suite[case]
             missing == c.ids \ Found(hits) # {}
             failed == HasProblems(hits, c) \/ (missing /\ IsHard(c))
         IN  /\ hardFailures' = hardFailures \cup (IF failed THEN {case} ELSE {})
             /\ softMisses' = softMisses \cup (IF missing /\ ~failed THEN {case} ELSE {})
    /\ case' = case + 1
    /\ embedded' = embedded + QueryRequests
    /\ UNCHANGED <<kind, held, verdict>>

(* A case's query cannot be embedded, with or without having been sent, or the
   search itself fails. *)
CaseFails ==
    /\ verdict = "pending"
    /\ case <= Len(Suite)
    /\ embedded' \in {embedded, embedded + QueryRequests}
    /\ verdict' = "raised"
    /\ UNCHANGED <<kind, held, case, hardFailures, softMisses>>

Conclude ==
    /\ verdict = "pending"
    /\ case > Len(Suite)
    /\ verdict' = IF hardFailures = {} THEN "ok" ELSE "failed"
    /\ UNCHANGED <<kind, held, case, hardFailures, softMisses, embedded>>

GateNext == JudgeCase \/ CaseFails \/ Conclude

-----------------------------------------------------------------------------
(* Properties *)

(* eval_set.py: confirmed ids are hard, pending ones are reported and never
   fail.  A store that is accepted holds a document of every confirmed id of its
   suite and, if it is an index, something that fits each case; one that is turned
   down was turned down for a confirmed case or by a case whose shape is
   checked.  A collection whose cases are all pending is always accepted. *)
VerdictIsAboutTheStore ==
    /\ verdict = "ok" =>
         \A i \in DOMAIN Suite :
            /\ Suite[i].confirmed => Suite[i].ids \subseteq Found(held)
            /\ kind = "lexical" => Suite[i].fits \cap held # {}
    /\ verdict = "failed" /\ kind = "semantic" =>
         \E i \in DOMAIN Suite : Suite[i].confirmed /\ Suite[i].ids # {}
    /\ hardFailures \cap softMisses = {}
=============================================================================
