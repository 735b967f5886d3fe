---------------------------- MODULE SearchExecute ----------------------------
(***************************************************************************)
(* One search request (build_search_execute_response) and one readiness    *)
(* probe (check_search_readiness) of src/services/search_service.py, run   *)
(* side by side while operators activate, roll back and delete versions.   *)
(*                                                                         *)
(* Every request to a backend and every look at the disk is a step of its  *)
(* own, and each may fail.  The semantic versions move as ServedVersions   *)
(* lets them, which is what VectorIndex implements, or are lost with the   *)
(* alias when operators who delete race each other; a deleted collection's *)
(* profile disappears a step later.  The serving alias of the lexical      *)
(* index moves as LexicalIndex allows: one target, a second one after a    *)
(* lost race, none after a deletion.                                       *)
(*                                                                         *)
(* A version is what its build profile says of it: the corpus it was built *)
(* from and whether the running code (for vectors, with the configured     *)
(* provider, model and dimensions) can use it.  Whether the smoke query    *)
(* hits and whether a collection holds points is up to their data.         *)
(***************************************************************************)
EXTENDS Naturals, FiniteSets

CONSTANTS
    LexVersions,    \* lexical indices: records [corpus, compatible]
    SemVersions,    \* semantic collections: records [corpus, compatible]
    NoVersion,      \* a model value
    Policies,       \* the retrieval policies a deployment may configure
    MaxMoves,       \* bound: what operators do while the two run
    SideBySide      \* bound: whether the two may overlap; if not, probes come first

ASSUME PoliciesAssumption == Policies \subseteq {"lexical_v1", "hybrid_v1"}
ASSUME MaxMovesAssumption == MaxMoves \in Nat
ASSUME SideBySideAssumption == SideBySide \in BOOLEAN

Scopes == {"ayah", "translation"}
Clients == {"opensearch", "qdrant", "provider"}
ProfileForms == {"absent", "valid", "invalid", "unreadable"}

VARIABLES
    policy,         \* settings.search_retrieval_policy
    clients,        \* what lifespan of main.py built for the app
    lexAlias,       \* the indices the lexical alias leads to
    semPublished,   \* the collections that exist
    semServing,     \* the one the semantic alias leads to
    profileFiles,   \* what this process finds on disk as each one's profile
    moves,          \* ghost: how often an operator changed any of these
    past,           \* ghost: what the aliases led to, by number of moves, from
                    \* the beginning of the request on
    req,            \* the search request
    probe           \* the readiness probe

settings == <<policy, clients>>
backends == <<lexAlias, semPublished, semServing, profileFiles>>
vars == <<policy, clients, lexAlias, semPublished, semServing, profileFiles, moves, past,
          req, probe>>

Sem == INSTANCE ServedVersions
       WITH Versions <- SemVersions, published <- semPublished, serving <- semServing

-----------------------------------------------------------------------------
(* Types *)

SemanticPcs == {"resolve", "exists", "read", "config"}
RequestPcs == SemanticPcs \cup
    {"profile", "embed", "check", "search", "again", "query", "chart", "done"}
ProbePcs == SemanticPcs \cup {"targets", "profile", "smoke", "count", "done"}

(* The names check_search_readiness gives to its checks, but that
   "semantic_profile_compatible" is semantic_collection_config_match too:
   a version's "compatible" does not tell the two apart. *)
Checks == {"opensearch_configured", "opensearch_reachable", "alias_single_target",
           "index_profile_compatible", "smoke_query", "embedding_provider_configured",
           "qdrant_configured", "qdrant_reachable", "semantic_collection_non_empty",
           "semantic_profile_compatible", "hybrid_corpus_compatible"}

Request == [pc : RequestPcs, translations : BOOLEAN, scope : Scopes,
            lexical : LexVersions \cup {NoVersion},
            collection : SemVersions \cup {NoVersion},
            target : SemVersions \cup {NoVersion},
            paid : BOOLEAN,
            lexUsed : [Scopes \cup {"chart"} -> SUBSET LexVersions],
            semUsed : [Scopes -> SUBSET SemVersions],
            outcome : {"none", "ok", "refused", "outage", "untyped"},
            since : 0..MaxMoves]
Probe == [pc : ProbePcs, failed : SUBSET Checks,
          lexical : LexVersions \cup {NoVersion},
          collection : SemVersions \cup {NoVersion},
          outcome : {"none", "ready", "not_ready", "untyped"},
          since : 0..MaxMoves]
Aliases == [lex : SUBSET LexVersions, sem : SemVersions \cup {NoVersion}]

NewRequest(translations) ==
    [pc |-> "profile", translations |-> translations, scope |-> "ayah",
     lexical |-> NoVersion, collection |-> NoVersion, target |-> NoVersion,
     paid |-> FALSE,
     lexUsed |-> [s \in Scopes \cup {"chart"} |-> {}],
     semUsed |-> [s \in Scopes |-> {}],
     outcome |-> "none", since |-> moves]
NewProbe ==
    [pc |-> "targets", failed |-> {}, lexical |-> NoVersion, collection |-> NoVersion,
     outcome |-> "none", since |-> moves]

(* What the aliases lead to now, as the whole past of a request that begins. *)
Present == [m \in 0..MaxMoves |-> [lex |-> lexAlias, sem |-> semServing]]

TypeOK ==
    /\ policy \in Policies
    /\ clients \subseteq Clients
    /\ lexAlias \subseteq LexVersions
    /\ semPublished \subseteq SemVersions
    /\ profileFiles \in [SemVersions -> ProfileForms]
    /\ Sem!ServingIsPublished
    /\ moves \in 0..MaxMoves
    /\ past \in [0..MaxMoves -> Aliases]
    /\ req \in Request
    /\ probe \in Probe

-----------------------------------------------------------------------------
(* The validators of src/search/vector/profile.py and lexical_opensearch.py *)

(* semantic_artifact_mismatches found nothing: the collection fits the running
   code and provider, and it was built from the corpus the lexical index was
   built from. *)
Servable(collection, lexical) ==
    collection.compatible /\ collection.corpus = lexical.corpus

(* read_index_profile and get_alias_targets insist on a single target. *)
LeadsTo(v) == lexAlias = {v}

-----------------------------------------------------------------------------
(* Operators *)

(* The settings stay, and what a request sees from now on is the new state. *)
Moved ==
    /\ moves < MaxMoves
    /\ moves' = moves + 1
    /\ past' = [m \in 0..MaxMoves |-> IF m > moves THEN [lex |-> lexAlias', sem |-> semServing']
                                     ELSE past[m]]
    /\ UNCHANGED <<settings, req, probe>>

(* An activation, one that raced another, or the deletion of an index. *)
LexicalMove ==
    /\ \E v \in LexVersions : lexAlias' \in {{v}, lexAlias \cup {v}, lexAlias \ {v}}
    /\ Cardinality(lexAlias') <= 2
    /\ lexAlias' # lexAlias
    /\ UNCHANGED <<semPublished, semServing, profileFiles>>
    /\ Moved

(* A build writes the profile before it publishes the collection. *)
SemanticMove ==
    /\ Sem!ServedNext
    /\ profileFiles' = [v \in SemVersions |-> IF v \in semPublished' \ semPublished
                                             THEN "valid" ELSE profileFiles[v]]
    /\ UNCHANGED lexAlias
    /\ Moved

(* A profile is damaged, belongs to another release, or is seen by an account
   that may not read it: builds write it with mode 0600. *)
SpoilProfile ==
    /\ \E v \in SemVersions, form \in {"invalid", "unreadable"} :
         /\ profileFiles[v] = "valid"
         /\ profileFiles' = [profileFiles EXCEPT ![v] = form]
    /\ UNCHANGED <<lexAlias, semPublished, semServing>>
    /\ Moved

(* A --delete-old that raced another activation deletes what that one made the
   alias lead to, and the alias goes with it. *)
SemanticLoss ==
    /\ semServing # NoVersion
    /\ semPublished' = semPublished \ {semServing}
    /\ semServing' = NoVersion
    /\ UNCHANGED <<lexAlias, profileFiles>>
    /\ Moved

(* delete_semantic_profile, after the collection is gone. *)
ForgetProfile ==
    /\ \E v \in SemVersions \ semPublished :
         /\ profileFiles[v] # "absent"
         /\ profileFiles' = [profileFiles EXCEPT ![v] = "absent"]
    /\ UNCHANGED <<lexAlias, semPublished, semServing>>
    /\ Moved

-----------------------------------------------------------------------------
(* build_search_execute_response *)

Standing == UNCHANGED <<settings, backends, moves>>
Stay == Standing /\ UNCHANGED <<past, probe>>
(* The request raises: what it found is gone, what it paid is not. *)
Raise(outcome) ==
    req' = [NewRequest(FALSE) EXCEPT
              !.pc = "done", !.outcome = outcome, !.paid = req.paid, !.since = req.since]

BeginRequest ==
    /\ req.pc = "done"
    /\ probe.pc = "done" \/ SideBySide
    /\ \E translations \in BOOLEAN : req' = NewRequest(translations)
    /\ past' = Present
    /\ Standing /\ UNCHANGED probe

(* build_search_adapter insists on a URL; then read_index_profile. *)
ReadLexicalProfile ==
    /\ req.pc = "profile"
    /\ "opensearch" \in clients
    /\ \E v \in LexVersions :
         /\ LeadsTo(v)
         /\ req' = [req EXCEPT !.lexical = v,
                               !.pc = IF policy = "hybrid_v1" THEN "resolve" ELSE "check"]
    /\ Stay

(* _build_qdrant_store insists on a URL; then resolve_alias. *)
ResolveCollection ==
    /\ req.pc = "resolve"
    /\ "qdrant" \in clients
    /\ semServing # NoVersion
    /\ req' = [req EXCEPT !.collection = semServing, !.pc = "exists"]
    /\ Stay

(* read_semantic_profile: path.exists() ... *)
FindProfile ==
    /\ req.pc = "exists"
    /\ profileFiles[req.collection] # "absent"
    /\ req' = [req EXCEPT !.pc = "read"]
    /\ Stay

(* ... then path.read_text() and its validation. *)
ReadProfile ==
    /\ req.pc = "read"
    /\ profileFiles[req.collection] = "valid"
    /\ req' = [req EXCEPT !.pc = "config"]
    /\ Stay

(* Slip: the corpora are not compared. *)
VerifyCollectionAlone ==
    /\ req.pc = "config"
    /\ req.collection \in semPublished
    /\ req.collection.compatible
    /\ req' = [req EXCEPT !.pc = "embed"]
    /\ Stay

(* The live config, then the comparison of both profiles with each other and
   with the running code: all of it before anything is paid for. *)
VerifyCollection ==
    /\ req.pc = "config"
    /\ req.collection \in semPublished
    /\ Servable(req.collection, req.lexical)
    /\ req' = [req EXCEPT !.pc = "embed"]
    /\ Stay

EmbedQuery ==
    /\ req.pc = "embed"
    /\ req' = [req EXCEPT !.paid = TRUE, !.pc = "check"]
    /\ Stay

(* LexicalRetriever.retrieve: ensure_compatible_index, then the search. *)
CheckLexical ==
    /\ req.pc = "check"
    /\ \E v \in LexVersions : LeadsTo(v) /\ v.compatible
    /\ req' = [req EXCEPT !.pc = "search"]
    /\ Stay

(* RetrievalPipeline.run is called for the verses, then for the translations
   when they are asked for. *)
NextScope(r) ==
    IF r.scope = "ayah" /\ r.translations
    THEN [r EXCEPT !.scope = "translation", !.pc = "check"]
    ELSE [r EXCEPT !.pc = "chart"]

SearchLexical ==
    LET found == [req EXCEPT !.lexUsed[req.scope] = lexAlias]
    IN  /\ req.pc = "search"
        /\ lexAlias # {}
        /\ req' = IF policy = "hybrid_v1" THEN [found EXCEPT !.pc = "again"]
                  ELSE NextScope(found)
        /\ Stay

(* Slip: a failing semantic side leaves the lexical results. *)
ResolveAgainOrSkip ==
    /\ req.pc = "again"
    /\ req' = IF semServing = NoVersion THEN NextScope(req)
              ELSE [req EXCEPT !.target = semServing, !.pc = "query"]
    /\ Stay

(* SemanticQdrantRetriever.retrieve resolves the alias once more. *)
ResolveAgain ==
    /\ req.pc = "again"
    /\ semServing # NoVersion
    /\ req' = [req EXCEPT !.target = semServing, !.pc = "query"]
    /\ Stay

(* Slip: the target is not what the alias led to. *)
QueryAnyPublished ==
    /\ req.pc = "query"
    /\ \E v \in semPublished : req' = NextScope([req EXCEPT !.semUsed[req.scope] = {v}])
    /\ Stay

QueryVectors ==
    /\ req.pc = "query"
    /\ req.target \in semPublished
    /\ req' = NextScope([req EXCEPT !.semUsed[req.scope] = {req.target}])
    /\ Stay

(* aggregate_surah_distribution, for the verses only. *)
AggregateChart ==
    /\ req.pc = "chart"
    /\ lexAlias # {}
    /\ req' = [req EXCEPT !.lexUsed["chart"] = lexAlias, !.pc = "done", !.outcome = "ok"]
    /\ Stay

(* A check fails, a URL is missing, or a backend says that what was asked for
   is not there: a SearchRetrievalError.  Vectors of another dimension are
   refused too. *)
Refuse ==
    /\ \/ /\ req.pc = "profile"
          /\ "opensearch" \in clients => \A v \in LexVersions : ~LeadsTo(v)
       \/ req.pc = "resolve" /\ ("qdrant" \in clients => semServing = NoVersion)
       \/ req.pc = "exists" /\ profileFiles[req.collection] = "absent"
       \/ req.pc = "read" /\ profileFiles[req.collection] = "invalid"
       \/ /\ req.pc = "config"
          /\ req.collection \in semPublished => ~Servable(req.collection, req.lexical)
       \/ req.pc = "check" /\ \A v \in LexVersions : LeadsTo(v) => ~v.compatible
       \/ req.pc \in {"search", "chart"} /\ lexAlias = {}
       \/ req.pc = "again" /\ semServing = NoVersion
       \/ req.pc = "query" /\ (req.target \in semPublished => ~req.target.compatible)
    /\ Raise("refused")
    /\ Stay

(* A backend or the embedding provider fails on its own.  The request raises a
   SearchRetrievalError when the client's error is one the code translates. *)
Outage ==
    /\ req.pc \notin {"done", "exists", "read"}
    /\ \E outcome \in {"outage", "untyped"} : Raise(outcome)
    /\ Stay

(* path.exists() or path.read_text() raises an OSError, which nobody
   translates: the disk fails, the file may not be read, or it was there for
   the first look and is gone at the second. *)
ProfileRaises ==
    /\ req.pc \in {"exists", "read"}
    /\ Raise("untyped")
    /\ Stay

-----------------------------------------------------------------------------
(* check_search_readiness *)

StayP == Standing /\ UNCHANGED <<past, req>>

(* The probe ends with these checks failed besides those that failed before. *)
Report(failures) ==
    probe' = [NewProbe EXCEPT
                !.pc = "done", !.since = probe.since, !.failed = probe.failed \cup failures,
                !.outcome = IF probe.failed \cup failures = {} THEN "ready" ELSE "not_ready"]
ProbeRaises ==
    probe' = [NewProbe EXCEPT !.pc = "done", !.since = probe.since, !.outcome = "untyped"]
(* One more check is done, and the probe goes on whatever it says. *)
Proceed(pc, failures) == probe' = [probe EXCEPT !.pc = pc, !.failed = @ \cup failures]

BeginProbe ==
    /\ probe.pc = "done"
    /\ (req.pc = "done" /\ req.outcome = "none") \/ SideBySide
    /\ probe' = IF "opensearch" \in clients THEN NewProbe
                ELSE [NewProbe EXCEPT !.pc = "done", !.failed = {"opensearch_configured"},
                                      !.outcome = "not_ready"]
    /\ StayP

ProbeTargets ==
    /\ probe.pc = "targets"
    /\ IF \E v \in LexVersions : LeadsTo(v) THEN Proceed("profile", {})
       ELSE Report({"alias_single_target"})
    /\ StayP

(* Slip: a mismatch is not looked for. *)
ProbeProfileOnly ==
    /\ probe.pc = "profile"
    /\ \/ \E v \in LexVersions :
              LeadsTo(v) /\ probe' = [probe EXCEPT !.lexical = v, !.pc = "smoke"]
       \/ (\A v \in LexVersions : ~LeadsTo(v)) /\ Report({"opensearch_reachable"})
    /\ StayP

(* read_index_profile raises when the alias moved away from its one target. *)
ProbeProfile ==
    /\ probe.pc = "profile"
    /\ \/ \E v \in LexVersions :
            /\ LeadsTo(v)
            /\ IF v.compatible THEN probe' = [probe EXCEPT !.lexical = v, !.pc = "smoke"]
               ELSE Report({"index_profile_compatible"})
       \/ (\A v \in LexVersions : ~LeadsTo(v)) /\ Report({"opensearch_reachable"})
    /\ StayP

(* No hit is a failed check, and the probe goes on. *)
ProbeSmoke ==
    /\ probe.pc = "smoke"
    /\ IF lexAlias = {} THEN Report({"opensearch_reachable"})
       ELSE \E misses \in SUBSET {"smoke_query"} :
              IF policy = "hybrid_v1" THEN Proceed("resolve", misses) ELSE Report(misses)
    /\ StayP

(* The provider and the store are looked for before any request; lifespan
   always has a provider under hybrid_v1.  A QdrantError of any kind is
   reported as one and the same failed check, here and below. *)
ProbeResolve ==
    /\ probe.pc = "resolve"
    /\ IF "provider" \notin clients THEN Report({"embedding_provider_configured"})
       ELSE IF "qdrant" \notin clients THEN Report({"qdrant_configured"})
       ELSE IF semServing = NoVersion THEN Report({"qdrant_reachable"})
       ELSE probe' = [probe EXCEPT !.collection = semServing, !.pc = "exists"]
    /\ StayP

ProbeFind ==
    /\ probe.pc = "exists"
    /\ IF profileFiles[probe.collection] = "absent" THEN Report({"qdrant_reachable"})
       ELSE Proceed("read", {})
    /\ StayP

(* A profile that is no longer there or may not be read is left to
   ProbeProfileRaises. *)
ProbeRead ==
    /\ probe.pc = "read"
    /\ \/ profileFiles[probe.collection] = "invalid" /\ Report({"qdrant_reachable"})
       \/ profileFiles[probe.collection] = "valid" /\ Proceed("count", {})
    /\ StayP

(* No point is a failed check, and the probe goes on. *)
ProbeCount ==
    /\ probe.pc = "count"
    /\ IF probe.collection \in semPublished
       THEN \E misses \in SUBSET {"semantic_collection_non_empty"} : Proceed("config", misses)
       ELSE Report({"qdrant_reachable"})
    /\ StayP

(* The report of semantic_artifact_mismatches, one check for each category. *)
Mismatches(collection, lexical) ==
    (IF collection.compatible THEN {} ELSE {"semantic_profile_compatible"}) \cup
    (IF collection.corpus = lexical.corpus THEN {} ELSE {"hybrid_corpus_compatible"})

ProbeConfig ==
    /\ probe.pc = "config"
    /\ Report(IF probe.collection \in semPublished
              THEN Mismatches(probe.collection, probe.lexical) ELSE {"qdrant_reachable"})
    /\ StayP

ProbeOutage ==
    /\ probe.pc \notin {"done", "exists", "read"}
    /\ \/ Report({IF probe.pc \in {"targets", "profile", "smoke"} THEN "opensearch_reachable"
                  ELSE "qdrant_reachable"})
       \/ ProbeRaises
    /\ StayP

ProbeProfileRaises ==
    /\ probe.pc \in {"exists", "read"}
    /\ ProbeRaises
    /\ StayP

-----------------------------------------------------------------------------
(* lifespan builds the clients whose URL is set, and under hybrid_v1 the
   provider, without which the app does not start.  Nothing ties the directory
   of the profiles to the store.  Request and probe start out answered. *)
Init ==
    /\ policy \in Policies
    /\ clients \in SUBSET Clients
    /\ policy = "lexical_v1" => clients \subseteq {"opensearch"}
    /\ policy = "hybrid_v1" => "provider" \in clients
    /\ lexAlias \in {S \in SUBSET LexVersions : Cardinality(S) <= 2}
    /\ semPublished \in SUBSET SemVersions
    /\ semServing \in semPublished \cup {NoVersion}
    /\ profileFiles \in [SemVersions -> {"absent", "valid"}]
    /\ moves = 0
    /\ past = Present
    /\ req = [NewRequest(FALSE) EXCEPT !.pc = "done"]
    /\ probe = [NewProbe EXCEPT !.pc = "done"]

Operators ==
    \/ LexicalMove \/ SemanticMove \/ SemanticLoss \/ ForgetProfile \/ SpoilProfile

RequestStep ==
    \/ BeginRequest \/ ReadLexicalProfile \/ ResolveCollection \/ FindProfile
    \/ ReadProfile \/ VerifyCollection \/ EmbedQuery \/ CheckLexical
    \/ SearchLexical \/ ResolveAgain \/ QueryVectors \/ AggregateChart
    \/ Refuse \/ Outage \/ ProfileRaises

ProbeStep ==
    \/ BeginProbe \/ ProbeTargets \/ ProbeProfile \/ ProbeSmoke \/ ProbeResolve
    \/ ProbeFind \/ ProbeRead \/ ProbeCount \/ ProbeConfig \/ ProbeOutage
    \/ ProbeProfileRaises

Next == Operators \/ RequestStep \/ ProbeStep

Spec == Init /\ [][Next]_vars

-----------------------------------------------------------------------------
(* Properties *)

(* Nothing moved since the request, or the probe, began. *)
Undisturbed(process) == process.since = moves

Parts == {"ayah"} \cup (IF req.translations THEN {"translation"} ELSE {})

(* The docstring of build_search_execute_response: never a silent fall back to
   lexical-only.  Whatever operators do meanwhile, a hybrid answer has asked
   both backends for every scope it shows, and a lexical one no vectors. *)
NoSilentFallback ==
    req.outcome = "ok" =>
        /\ \A s \in Parts : req.lexUsed[s] # {}
        /\ IF policy = "hybrid_v1"
           THEN \A s \in Parts : Cardinality(req.semUsed[s]) = 1
           ELSE \A s \in Scopes : req.semUsed[s] = {}

(* The parts of an answer are read one after the other while operators go on:
   its provenance, verses, translations and chart may be of different versions.
   But each is of a version that served while the request ran, none is of an
   older one than a part read before it, on either side, and the versions its
   provenance names fit each other. *)
AnswersMoveForward ==
    req.outcome = "ok" =>
        /\ \E p, a, t, c \in req.since..moves :
             /\ p <= a /\ a <= t /\ t <= c
             /\ past[p].lex = {req.lexical}
             /\ past[a].lex = req.lexUsed["ayah"]
             /\ req.translations => past[t].lex = req.lexUsed["translation"]
             /\ past[c].lex = req.lexUsed["chart"]
        /\ policy = "hybrid_v1" =>
             /\ \E r, a, t \in req.since..moves :
                  /\ r <= a /\ a <= t
                  /\ past[r].sem = req.collection
                  /\ {past[a].sem} = req.semUsed["ayah"]
                  /\ req.translations => {past[t].sem} = req.semUsed["translation"]
             /\ Servable(req.collection, req.lexical)

(* _enforce_semantic_compatibility: a misconfigured collection costs nothing.
   While nothing moves, a query is only embedded when the collection it will
   be compared with can be served next to the lexical index. *)
PaidOnlyIfServable ==
    req.paid /\ Undisturbed(req) =>
        /\ semServing \in semPublished
        /\ profileFiles[semServing] = "valid"
        /\ \E v \in LexVersions : LeadsTo(v) /\ Servable(semServing, v)

(* The checks that can fail although requests are answered: two are about the
   data, which execute does not ask about, and two stand for every error of a
   backend, a passing one included. *)
Inconclusive == {"smoke_query", "semantic_collection_non_empty",
                 "opensearch_reachable", "qdrant_reachable"}

(* check_search_readiness: health is not reported while execute would return a
   service error.  While nothing moves, ready means that no check refuses a
   request, and a conclusive failed check means that none is answered. *)
ReadinessPredictsAnswers ==
    Undisturbed(req) /\ Undisturbed(probe) =>
        /\ probe.outcome = "ready" => req.outcome # "refused"
        /\ ~(probe.failed \subseteq Inconclusive) => req.outcome # "ok"

(* _enforce_semantic_compatibility: it never returns silently meaningless
   similarities.  Every collection an answer queried fits the provider that
   embedded the query. *)
NoMeaninglessSimilarities ==
    req.outcome = "ok" => \A s \in Scopes : \A v \in req.semUsed[s] : v.compatible
=============================================================================
