------------------------ MODULE SearchExecuteProofs ------------------------
(***************************************************************************)
(* What a search request and a readiness probe can rely on, proved for any *)
(* versions of the two indices, any policies and any number of moves of    *)
(* the operators between their steps.                                      *)
(***************************************************************************)
EXTENDS SearchExecute, FiniteSetTheorems, TLAPS

-----------------------------------------------------------------------------
(* Types                                                                    *)

LEMMA NextScopeResult ==
    ASSUME NEW r \in Request
    PROVE  /\ NextScope(r) \in Request
           /\ NextScope(r).translations = r.translations
           /\ NextScope(r).lexical = r.lexical
           /\ NextScope(r).collection = r.collection
           /\ NextScope(r).paid = r.paid
           /\ NextScope(r).lexUsed = r.lexUsed
           /\ NextScope(r).semUsed = r.semUsed
           /\ NextScope(r).outcome = r.outcome
           /\ NextScope(r).since = r.since
           /\ \/ /\ r.scope = "ayah" /\ r.translations
                 /\ NextScope(r).scope = "translation" /\ NextScope(r).pc = "check"
              \/ /\ ~(r.scope = "ayah" /\ r.translations)
                 /\ NextScope(r).scope = r.scope /\ NextScope(r).pc = "chart"
BY DEF NextScope, Request, RequestPcs, SemanticPcs, Scopes

LEMMA FoundIsTyped ==
    ASSUME TypeOK
    PROVE  /\ [req EXCEPT !.lexUsed[req.scope] = lexAlias] \in Request
           /\ \A v \in SemVersions : [req EXCEPT !.semUsed[req.scope] = {v}] \in Request
<1>1. req \in Request /\ lexAlias \in SUBSET LexVersions /\ req.scope \in Scopes
  BY DEF TypeOK, Request
<1>2. [req.lexUsed EXCEPT ![req.scope] = lexAlias] \in [Scopes \cup {"chart"} -> SUBSET LexVersions]
  BY <1>1 DEF Request
<1>3. ASSUME NEW v \in SemVersions
      PROVE  [req.semUsed EXCEPT ![req.scope] = {v}] \in [Scopes -> SUBSET SemVersions]
  BY <1>1 DEF Request
<1> QED BY <1>1, <1>2, <1>3 DEF Request

LEMMA NewRequestTyped ==
    ASSUME TypeOK, NEW b \in BOOLEAN
    PROVE  NewRequest(b) \in Request
BY DEF TypeOK, NewRequest, Request, RequestPcs, SemanticPcs, Scopes

LEMMA RaiseResult ==
    ASSUME TypeOK, NEW outcome, outcome \in {"refused", "outage", "untyped"}, Raise(outcome)
    PROVE  /\ req' \in Request /\ req'.pc = "done" /\ req'.outcome = outcome
           /\ req'.scope = "ayah" /\ req'.paid = req.paid /\ req'.since = req.since
           /\ \A s \in Scopes : req'.semUsed[s] = {}
<1> DEFINE new == NewRequest(FALSE)
<1>1. new \in Request /\ new.scope = "ayah" /\ \A s \in Scopes : new.semUsed[s] = {}
  <2>1. new \in Request
    BY NewRequestTyped
  <2> QED BY <2>1 DEF NewRequest
<1>2. req.paid \in BOOLEAN /\ req.since \in 0..MaxMoves /\ "done" \in RequestPcs
  BY DEF TypeOK, Request, RequestPcs
<1>3. req' = [[[[new EXCEPT !.pc = "done"] EXCEPT !.outcome = outcome]
                 EXCEPT !.paid = req.paid] EXCEPT !.since = req.since]
  BY DEF Raise
<1> HIDE DEF new
<1>4. [new EXCEPT !.pc = "done"] \in Request
  BY <1>1, <1>2 DEF Request
<1> HIDE DEF RequestPcs
<1> QED BY <1>1, <1>2, <1>3, <1>4 DEF Request

LEMMA PresentTyped == TypeOK => Present \in [0..MaxMoves -> Aliases]
BY DEF TypeOK, Sem!ServingIsPublished, Present, Aliases

LEMMA RequestTyped == TypeOK /\ RequestStep => TypeOK'
<1> SUFFICES ASSUME TypeOK, RequestStep PROVE TypeOK'
  OBVIOUS
<1>1. /\ req \in Request /\ lexAlias \subseteq LexVersions /\ semPublished \subseteq SemVersions
      /\ semServing \in SemVersions \cup {NoVersion} /\ moves \in 0..MaxMoves
  BY DEF TypeOK, Sem!ServingIsPublished
<1>2. Standing /\ probe' = probe /\ (past' = past \/ past' = Present)
  BY DEF RequestStep, BeginRequest, ReadLexicalProfile, ResolveCollection, FindProfile,
         ReadProfile, VerifyCollection, EmbedQuery, CheckLexical, SearchLexical,
         ResolveAgain, QueryVectors, AggregateChart, Refuse, Outage, ProfileRaises, Stay
<1>3. req' \in Request
  <2>1. CASE BeginRequest
    BY <2>1, NewRequestTyped DEF BeginRequest
  <2>2. CASE ReadLexicalProfile
    BY <1>1, <2>2 DEF ReadLexicalProfile, Request, RequestPcs, SemanticPcs
  <2>3. CASE ResolveCollection
    BY <1>1, <2>3 DEF ResolveCollection, Request, RequestPcs, SemanticPcs
  <2>4. CASE FindProfile
    BY <1>1, <2>4 DEF FindProfile, Request, RequestPcs, SemanticPcs
  <2>5. CASE ReadProfile
    BY <1>1, <2>5 DEF ReadProfile, Request, RequestPcs, SemanticPcs
  <2>6. CASE VerifyCollection
    BY <1>1, <2>6 DEF VerifyCollection, Request, RequestPcs
  <2>7. CASE EmbedQuery
    BY <1>1, <2>7 DEF EmbedQuery, Request, RequestPcs
  <2>8. CASE CheckLexical
    BY <1>1, <2>8 DEF CheckLexical, Request, RequestPcs
  <2>9. CASE SearchLexical
    <3> DEFINE found == [req EXCEPT !.lexUsed[req.scope] = lexAlias]
    <3>1. found \in Request
      BY FoundIsTyped
    <3>2. req' = [found EXCEPT !.pc = "again"] \/ req' = NextScope(found)
      BY <2>9 DEF SearchLexical
    <3> HIDE DEF found
    <3>3. [found EXCEPT !.pc = "again"] \in Request
      BY <3>1 DEF Request, RequestPcs
    <3> QED BY <3>1, <3>2, <3>3, NextScopeResult
  <2>10. CASE ResolveAgain
    BY <1>1, <2>10 DEF ResolveAgain, Request, RequestPcs
  <2>11. CASE QueryVectors
    <3>1. req.target \in SemVersions /\ req' = NextScope([req EXCEPT !.semUsed[req.scope] = {req.target}])
      BY <1>1, <2>11 DEF QueryVectors
    <3> QED BY <3>1, FoundIsTyped, NextScopeResult
  <2>12. CASE AggregateChart
    <3>1. [req.lexUsed EXCEPT !["chart"] = lexAlias] \in [Scopes \cup {"chart"} -> SUBSET LexVersions]
      BY <1>1 DEF Request
    <3> QED BY <1>1, <2>12, <3>1 DEF AggregateChart, Request, RequestPcs
  <2>13. CASE Refuse \/ Outage \/ ProfileRaises
    BY <1>1, <2>13, RaiseResult DEF Refuse, Outage, ProfileRaises
  <2> QED BY <2>1, <2>2, <2>3, <2>4, <2>5, <2>6, <2>7, <2>8, <2>9, <2>10, <2>11, <2>12, <2>13
          DEF RequestStep
<1> QED BY <1>2, <1>3, PresentTyped DEF TypeOK, Standing, settings, backends, Sem!ServingIsPublished

(* What is left of a probe that ends. *)
Ended(failed, outcome) ==
    [pc |-> "done", failed |-> failed, lexical |-> NoVersion, collection |-> NoVersion,
     outcome |-> outcome, since |-> probe.since]

LEMMA EndResult ==
    ASSUME TypeOK, NEW failed \in SUBSET Checks, NEW outcome \in {"ready", "not_ready", "untyped"},
           probe' = Ended(failed, outcome)
    PROVE  /\ probe' \in Probe /\ probe'.pc = "done" /\ probe'.outcome = outcome
           /\ probe'.since = probe.since /\ probe'.failed = failed
<1>1. probe.since \in 0..MaxMoves
  BY DEF TypeOK, Probe
<1>2. "done" \in ProbePcs
  BY DEF ProbePcs
<1>3. Ended(failed, outcome) \in Probe
  BY <1>1, <1>2 DEF Probe, Ended
<1> QED BY <1>3 DEF Ended

LEMMA ReportResult ==
    ASSUME TypeOK, NEW failures \in SUBSET Checks, Report(failures)
    PROVE  /\ probe' \in Probe /\ probe'.pc = "done" /\ probe'.since = probe.since
           /\ probe'.failed = probe.failed \cup failures
           /\ probe'.outcome = IF probe'.failed = {} THEN "ready" ELSE "not_ready"
<1> DEFINE outcome == IF probe.failed \cup failures = {} THEN "ready" ELSE "not_ready"
<1>1. probe.failed \cup failures \in SUBSET Checks
  BY DEF TypeOK, Probe
<1>2. probe' = Ended(probe.failed \cup failures, outcome)
  BY DEF Report, NewProbe, Ended
<1>3. outcome \in {"ready", "not_ready", "untyped"}
  OBVIOUS
<1> HIDE DEF outcome
<1>4. /\ probe' \in Probe /\ probe'.pc = "done" /\ probe'.outcome = outcome
      /\ probe'.since = probe.since /\ probe'.failed = probe.failed \cup failures
  BY <1>1, <1>2, <1>3, EndResult
<1> QED BY <1>4 DEF outcome

LEMMA RaisesResult ==
    ASSUME TypeOK, ProbeRaises
    PROVE  /\ probe' \in Probe /\ probe'.pc = "done" /\ probe'.since = probe.since
           /\ probe'.failed = {} /\ probe'.outcome = "untyped"
<1>1. probe' = Ended({}, "untyped")
  BY DEF ProbeRaises, NewProbe, Ended
<1>2. {} \in SUBSET Checks /\ "untyped" \in {"ready", "not_ready", "untyped"}
  OBVIOUS
<1> QED BY <1>1, <1>2, EndResult

(* A probe that goes on, having filled in what it found. *)
LEMMA GoesOnTyped ==
    ASSUME TypeOK, NEW pc \in ProbePcs
    PROVE  /\ \A v \in LexVersions : [probe EXCEPT !.lexical = v, !.pc = pc] \in Probe
           /\ \A v \in SemVersions : [probe EXCEPT !.collection = v, !.pc = pc] \in Probe
           /\ \A failures \in SUBSET Checks : Proceed(pc, failures) => probe' \in Probe
<1>1. probe \in Probe
  BY DEF TypeOK
<1>2. ASSUME NEW failures \in SUBSET Checks, Proceed(pc, failures) PROVE probe' \in Probe
  <2>1. probe' = [[probe EXCEPT !.pc = pc] EXCEPT !.failed = probe.failed \cup failures]
    BY <1>1, <1>2 DEF Proceed, Probe
  <2>2. [probe EXCEPT !.pc = pc] \in Probe /\ probe.failed \cup failures \in SUBSET Checks
    BY <1>1 DEF Probe
  <2> QED BY <2>1, <2>2 DEF Probe
<1>3. ASSUME NEW v \in LexVersions PROVE [probe EXCEPT !.lexical = v, !.pc = pc] \in Probe
  <2>1. [probe EXCEPT !.pc = pc] \in Probe
    BY <1>1 DEF Probe
  <2> QED BY <1>1, <2>1 DEF Probe
<1>4. ASSUME NEW v \in SemVersions PROVE [probe EXCEPT !.collection = v, !.pc = pc] \in Probe
  <2>1. [probe EXCEPT !.pc = pc] \in Probe
    BY <1>1 DEF Probe
  <2> QED BY <1>1, <2>1 DEF Probe
<1> QED BY <1>2, <1>3, <1>4

LEMMA SomeChecks ==
    /\ {} \in SUBSET Checks
    /\ \A c \in Checks : {c} \in SUBSET Checks
    /\ {"opensearch_configured", "opensearch_reachable", "alias_single_target",
        "index_profile_compatible", "smoke_query", "embedding_provider_configured",
        "qdrant_configured", "qdrant_reachable", "semantic_collection_non_empty"} \subseteq Checks
    /\ \A c, l : Mismatches(c, l) \in SUBSET Checks
BY DEF Checks, Mismatches

LEMMA ProbeTyped == TypeOK /\ ProbeStep => TypeOK'
<1> SUFFICES ASSUME TypeOK, ProbeStep PROVE TypeOK'
  OBVIOUS
<1>1. probe \in Probe /\ semServing \in SemVersions \cup {NoVersion} /\ moves \in 0..MaxMoves
  BY DEF TypeOK, Sem!ServingIsPublished
<1>2. StayP
  BY DEF ProbeStep, BeginProbe, ProbeTargets, ProbeProfile, ProbeSmoke, ProbeResolve,
         ProbeFind, ProbeRead, ProbeCount, ProbeConfig, ProbeOutage, ProbeProfileRaises
<1>3. probe' \in Probe
  <2>1. CASE BeginProbe
    BY <1>1, <2>1, SomeChecks DEF BeginProbe, NewProbe, Probe, ProbePcs
  <2> USE <1>1, ReportResult, RaisesResult, GoesOnTyped, SomeChecks
  <2>2. {"profile", "smoke", "resolve", "exists", "read", "count", "config"} \subseteq ProbePcs
    BY DEF ProbePcs, SemanticPcs
  <2>3. CASE ProbeTargets \/ ProbeProfile
    BY <2>2, <2>3 DEF ProbeTargets, ProbeProfile
  <2>4. CASE ProbeSmoke
    BY <2>2, <2>4 DEF ProbeSmoke
  <2>5. CASE ProbeResolve
    <3>1. CASE semServing = NoVersion \/ "provider" \notin clients \/ "qdrant" \notin clients
      <4>1. \/ Report({"embedding_provider_configured"}) \/ Report({"qdrant_configured"})
            \/ Report({"qdrant_reachable"})
        BY <2>5, <3>1 DEF ProbeResolve
      <4> QED BY <4>1
    <3>2. CASE ~(semServing = NoVersion \/ "provider" \notin clients \/ "qdrant" \notin clients)
      <4>1. semServing \in SemVersions /\ "exists" \in ProbePcs
        BY <2>2, <3>2
      <4>2. probe' = [probe EXCEPT !.collection = semServing, !.pc = "exists"]
        BY <2>5, <3>2 DEF ProbeResolve
      <4> QED BY <4>1, <4>2
    <3> QED BY <3>1, <3>2
  <2>6. CASE ProbeFind
    BY <2>2, <2>6 DEF ProbeFind
  <2>7. CASE ProbeRead \/ ProbeCount
    BY <2>2, <2>7 DEF ProbeRead, ProbeCount
  <2>8. CASE ProbeConfig
    <3> DEFINE F == IF probe.collection \in semPublished
                    THEN Mismatches(probe.collection, probe.lexical) ELSE {"qdrant_reachable"}
    <3>1. F \in SUBSET Checks
      OBVIOUS
    <3>2. Report(F)
      BY <2>8 DEF ProbeConfig
    <3> HIDE DEF F
    <3> QED BY <3>1, <3>2
  <2>9. CASE ProbeOutage \/ ProbeProfileRaises
    <3> DEFINE F == {IF probe.pc \in {"targets", "profile", "smoke"} THEN "opensearch_reachable"
                     ELSE "qdrant_reachable"}
    <3>1. F \in SUBSET Checks
      OBVIOUS
    <3>2. Report(F) \/ ProbeRaises
      BY <2>9 DEF ProbeOutage, ProbeProfileRaises
    <3> HIDE DEF F
    <3> QED BY <3>1, <3>2
  <2> QED BY <2>1, <2>3, <2>4, <2>5, <2>6, <2>7, <2>8, <2>9 DEF ProbeStep
<1> QED BY <1>2, <1>3 DEF TypeOK, StayP, Standing, settings, backends, Sem!ServingIsPublished

LEMMA OperatorsTyped == TypeOK /\ Operators => TypeOK'
<1> SUFFICES ASSUME TypeOK, Operators PROVE TypeOK'
  OBVIOUS
<1>1. Moved
  BY DEF Operators, LexicalMove, SemanticMove, SemanticLoss, ForgetProfile, SpoilProfile
<1>2. /\ policy' = policy /\ clients' = clients /\ moves' \in 0..MaxMoves
      /\ req' = req /\ probe' = probe
  BY <1>1, MaxMovesAssumption DEF Moved, settings, TypeOK
<1>3. /\ lexAlias' \subseteq LexVersions /\ semPublished' \subseteq SemVersions
      /\ profileFiles' \in [SemVersions -> ProfileForms] /\ Sem!ServingIsPublished'
  <2>1. CASE LexicalMove
    BY <2>1 DEF LexicalMove, TypeOK, Sem!ServingIsPublished
  <2>2. CASE SemanticMove
    <3>1. semPublished' \subseteq SemVersions /\ Sem!ServingIsPublished'
      BY <2>2 DEF SemanticMove, TypeOK, Sem!ServingIsPublished, Sem!ServedNext, Sem!Publish,
                  Sem!Serve, Sem!Retire
    <3> QED BY <2>2, <3>1 DEF SemanticMove, TypeOK, ProfileForms
  <2>3. CASE SemanticLoss
    BY <2>3 DEF SemanticLoss, TypeOK, Sem!ServingIsPublished
  <2>4. CASE ForgetProfile \/ SpoilProfile
    BY <2>4 DEF ForgetProfile, SpoilProfile, TypeOK, ProfileForms, Sem!ServingIsPublished
  <2> QED BY <2>1, <2>2, <2>3, <2>4 DEF Operators
<1>4. past' \in [0..MaxMoves -> Aliases]
  <2>1. [lex |-> lexAlias', sem |-> semServing'] \in Aliases
    BY <1>3 DEF Sem!ServingIsPublished, Aliases
  <2> QED BY <1>1, <2>1 DEF Moved, TypeOK
<1> QED BY <1>2, <1>3, <1>4 DEF TypeOK

LEMMA InitTyped == Init => TypeOK
<1> SUFFICES ASSUME Init PROVE TypeOK
  OBVIOUS
<1>1. moves \in 0..MaxMoves /\ moves = 0
  BY MaxMovesAssumption DEF Init
<1>2. req \in Request
  BY <1>1 DEF Init, NewRequest, Request, RequestPcs, SemanticPcs, Scopes
<1>3. probe \in Probe
  BY <1>1 DEF Init, NewProbe, Probe, ProbePcs, SemanticPcs
<1>4. Sem!ServingIsPublished /\ profileFiles \in [SemVersions -> ProfileForms]
  BY DEF Init, Sem!ServingIsPublished, ProfileForms
<1>5. past \in [0..MaxMoves -> Aliases]
  BY DEF Init, Present, Aliases
<1> QED BY <1>1, <1>2, <1>3, <1>4, <1>5 DEF Init, TypeOK

LEMMA StutterTyped == TypeOK /\ UNCHANGED vars => TypeOK'
BY DEF TypeOK, vars, Sem!ServingIsPublished

(* build_search_execute_response and check_search_readiness: every state they
   and the operators reach is well typed. *)
THEOREM TypeCorrect == Spec => []TypeOK
<1>1. TypeOK /\ [Next]_vars => TypeOK'
  BY RequestTyped, ProbeTyped, OperatorsTyped, StutterTyped DEF Next
<1> QED BY <1>1, InitTyped, PTL DEF Spec

-----------------------------------------------------------------------------
(* The inductive invariant                                                  *)

Hybrid == policy = "hybrid_v1"
ProviderIsBuilt == Hybrid => "provider" \in clients

(* What a request has asked of the backends for one scope. *)
Asked(s) ==
    /\ req.lexUsed[s] # {}
    /\ Hybrid => \E v \in SemVersions : req.semUsed[s] = {v}

Verified == {"embed", "check", "search", "again", "query", "chart"}
Resolved == {"exists", "read", "config"} \cup Verified

(* Whatever operators do: a scope is only left behind when both backends
   answered it, vectors are only for hybrid retrieval, and the versions that
   were verified fit each other. *)
RequestProgress ==
    /\ req.pc # "done" => req.outcome = "none"
    /\ ~Hybrid => /\ req.pc \notin SemanticPcs \cup {"embed", "again", "query"}
                  /\ ~req.paid
                  /\ \A s \in Scopes : req.semUsed[s] = {}
    /\ req.pc \in {"profile", "embed"} \cup SemanticPcs => req.scope = "ayah"
    /\ req.scope = "translation" => req.translations /\ Asked("ayah")
    /\ req.pc \in {"again", "query"} => req.lexUsed[req.scope] # {}
    /\ req.pc = "chart" \/ req.outcome = "ok" => \A s \in Parts : Asked(s)
    /\ req.pc \notin {"profile", "done"} => "opensearch" \in clients
    /\ Hybrid /\ req.pc \in Resolved => "qdrant" \in clients
    /\ Hybrid /\ (req.pc \in Verified \/ req.outcome = "ok") =>
         Servable(req.collection, req.lexical)

ProbeProgress ==
    probe.pc # "done" => /\ probe.outcome = "none"
                         /\ probe.failed \subseteq Inconclusive
                         /\ "opensearch" \in clients

(* What a request has read of either side was there, in the order it was read. *)
PastIsPresent == past[moves] = [lex |-> lexAlias, sem |-> semServing]

Answered == req.pc = "chart" \/ req.outcome = "ok"
HasLexical(s) ==
    \/ Answered
    \/ req.scope = s /\ req.pc \in {"again", "query"}
    \/ s = "ayah" /\ req.scope = "translation"
HasVectors(s) == Answered \/ (s = "ayah" /\ req.scope = "translation")

LexicalReadAt(p, a, t, c) ==
    /\ p <= a /\ a <= t /\ t <= c
    /\ past[p].lex = {req.lexical}
    /\ HasLexical("ayah") => past[a].lex = req.lexUsed["ayah"]
    /\ HasLexical("translation") /\ req.translations =>
         past[t].lex = req.lexUsed["translation"]
    /\ req.outcome = "ok" => past[c].lex = req.lexUsed["chart"]
LexicalReads ==
    req.pc \notin {"profile", "done"} \/ req.outcome = "ok" =>
        \E p, a, t, c \in req.since..moves : LexicalReadAt(p, a, t, c)

VectorsReadAt(r, a, t) ==
    /\ r <= a /\ a <= t
    /\ past[r].sem = req.collection
    /\ HasVectors("ayah") => {past[a].sem} = req.semUsed["ayah"]
    /\ HasVectors("translation") /\ req.translations =>
         {past[t].sem} = req.semUsed["translation"]
    /\ req.pc = "query" => past[IF req.scope = "ayah" THEN a ELSE t].sem = req.target
SemanticReads ==
    Hybrid /\ (req.pc \in Resolved \/ req.outcome = "ok") =>
        \E r, a, t \in req.since..moves : VectorsReadAt(r, a, t)

(* What can be answered, as the backends are now. *)
LexicalServes == "opensearch" \in clients /\ \E v \in LexVersions : LeadsTo(v) /\ v.compatible
SemanticServes ==
    /\ {"qdrant", "provider"} \subseteq clients
    /\ semServing # NoVersion /\ semServing \in semPublished
    /\ profileFiles[semServing] = "valid"
    /\ \E v \in LexVersions : LeadsTo(v) /\ Servable(semServing, v)
Serves == LexicalServes /\ (Hybrid => SemanticServes)

(* What a request has seen is what is there, while nothing moves. *)
RequestSees ==
    Undisturbed(req) =>
        /\ req.pc \notin {"profile", "done"} => req.lexical \in LexVersions /\ LeadsTo(req.lexical)
        /\ Hybrid /\ req.pc \in Resolved => req.collection = semServing /\ semServing # NoVersion
        /\ Hybrid /\ req.pc \in {"config"} \cup Verified => profileFiles[req.collection] = "valid"
        /\ Hybrid /\ req.pc \in Verified => req.collection \in semPublished
        /\ req.pc \in {"search", "again", "query", "chart"} \/ req.scope = "translation" =>
             req.lexical.compatible
        /\ req.pc = "query" => req.target = req.collection
        /\ req.paid => SemanticServes
        /\ req.outcome = "ok" => Serves
        /\ req.outcome = "refused" => ~Serves

ProbeSees ==
    Undisturbed(probe) =>
        /\ probe.pc \in {"smoke", "count"} \cup SemanticPcs =>
             /\ probe.lexical \in LexVersions
             /\ LeadsTo(probe.lexical) /\ probe.lexical.compatible
        /\ probe.pc \in {"count"} \cup SemanticPcs => Hybrid
        /\ probe.pc \in {"exists", "read", "count", "config"} =>
             /\ probe.collection = semServing /\ semServing # NoVersion
             /\ "qdrant" \in clients
        /\ probe.pc \in {"count", "config"} => profileFiles[probe.collection] = "valid"
        /\ probe.outcome = "ready" => Serves
        /\ ~(probe.failed \subseteq Inconclusive) => ~Serves

RequestInv == req.since <= moves /\ RequestProgress /\ RequestSees
ReadsInv == PastIsPresent /\ LexicalReads /\ SemanticReads
ProbeInv == probe.since <= moves /\ ProbeProgress /\ ProbeSees

SearchInv == TypeOK /\ ProviderIsBuilt /\ RequestInv /\ ReadsInv /\ ProbeInv

-----------------------------------------------------------------------------
(* Steps of the request: what it has done and seen                          *)

(* A step that fills in one field or goes on leaves the rest alone. *)
SameAnswers ==
    /\ req'.translations = req.translations /\ req'.scope = req.scope
    /\ req'.lexUsed = req.lexUsed /\ req'.semUsed = req.semUsed
    /\ req'.since = req.since /\ req'.outcome = req.outcome

LEMMA BackendsStay ==
    ASSUME Standing
    PROVE  /\ Hybrid' = Hybrid /\ clients' = clients /\ moves' = moves
           /\ lexAlias' = lexAlias /\ semPublished' = semPublished
           /\ semServing' = semServing /\ profileFiles' = profileFiles
           /\ Serves' = Serves /\ SemanticServes' = SemanticServes
BY DEF Standing, settings, backends, Hybrid, Serves, LexicalServes, SemanticServes, LeadsTo

LEMMA BeginRequestStep == SearchInv /\ BeginRequest => RequestInv'
<1> SUFFICES ASSUME SearchInv, BeginRequest PROVE RequestInv'
  OBVIOUS
<1>1. /\ req'.pc = "profile" /\ req'.scope = "ayah" /\ req'.outcome = "none"
      /\ req'.paid = FALSE /\ req'.since = moves /\ moves' = moves /\ moves \in Nat
      /\ \A s \in Scopes : req'.semUsed[s] = {}
  BY MaxMovesAssumption DEF BeginRequest, NewRequest, Standing, SearchInv, TypeOK
<1> QED BY <1>1 DEF RequestInv, RequestProgress, RequestSees, SemanticPcs, Resolved, Verified

(* A step that only goes on, with what it found. *)
LEMMA ReadLexicalProfileStep == SearchInv /\ ReadLexicalProfile => RequestInv'
<1> SUFFICES ASSUME SearchInv, ReadLexicalProfile PROVE RequestInv'
  OBVIOUS
<1>1. /\ SameAnswers /\ Standing
      /\ req.pc = "profile" /\ req'.pc = IF Hybrid THEN "resolve" ELSE "check"
      /\ req'.lexical \in LexVersions /\ LeadsTo(req'.lexical) /\ "opensearch" \in clients
      /\ req'.collection = req.collection /\ req'.paid = req.paid
  BY DEF ReadLexicalProfile, Stay, SearchInv, TypeOK, Request, Hybrid, SameAnswers
<1>2. RequestInv /\ ProviderIsBuilt /\ req.outcome = "none" /\ req \in Request
  BY <1>1 DEF SearchInv, TypeOK, RequestInv, RequestProgress
<1>3. RequestProgress'
  BY <1>1, <1>2, BackendsStay
     DEF RequestInv, RequestProgress, SemanticPcs, Resolved, Verified, SameAnswers, Asked, Parts,
         Servable, Scopes, Request
<1>4. RequestSees'
  BY <1>1, <1>2, BackendsStay
     DEF RequestInv, RequestProgress, RequestSees, SemanticPcs, Resolved, Verified, SameAnswers,
         LeadsTo, Undisturbed, SemanticServes, ProviderIsBuilt
<1> QED BY <1>1, <1>2, <1>3, <1>4, BackendsStay DEF RequestInv, SameAnswers

LEMMA ResolveCollectionStep == SearchInv /\ ResolveCollection => RequestInv'
<1> SUFFICES ASSUME SearchInv, ResolveCollection PROVE RequestInv'
  OBVIOUS
<1>1. /\ SameAnswers /\ Standing
      /\ req.pc = "resolve" /\ req'.pc = "exists" /\ semServing # NoVersion
      /\ "qdrant" \in clients
      /\ req'.collection = semServing /\ req'.lexical = req.lexical /\ req'.paid = req.paid
  BY DEF ResolveCollection, Stay, SearchInv, TypeOK, Request, SameAnswers
<1>2. RequestInv /\ ProviderIsBuilt /\ req.outcome = "none" /\ req \in Request
  BY <1>1 DEF SearchInv, TypeOK, RequestInv, RequestProgress
<1>3. RequestProgress'
  BY <1>1, <1>2, BackendsStay
     DEF RequestInv, RequestProgress, SemanticPcs, Resolved, Verified, SameAnswers, Asked, Parts,
         Servable, Scopes, Request
<1>4. RequestSees'
  BY <1>1, <1>2, BackendsStay
     DEF RequestInv, RequestProgress, RequestSees, SemanticPcs, Resolved, Verified, SameAnswers,
         LeadsTo, Undisturbed, SemanticServes, ProviderIsBuilt
<1> QED BY <1>1, <1>2, <1>3, <1>4, BackendsStay DEF RequestInv, SameAnswers

LEMMA FindProfileStep == SearchInv /\ FindProfile => RequestInv'
<1> SUFFICES ASSUME SearchInv, FindProfile PROVE RequestInv'
  OBVIOUS
<1>1. /\ SameAnswers /\ Standing
      /\ req.pc = "exists" /\ req'.pc = "read"
      /\ req'.collection = req.collection /\ req'.lexical = req.lexical /\ req'.paid = req.paid
  BY DEF FindProfile, Stay, SearchInv, TypeOK, Request, SameAnswers
<1>2. RequestInv /\ ProviderIsBuilt /\ req.outcome = "none" /\ req \in Request
  BY <1>1 DEF SearchInv, TypeOK, RequestInv, RequestProgress
<1>3. RequestProgress'
  BY <1>1, <1>2, BackendsStay
     DEF RequestInv, RequestProgress, SemanticPcs, Resolved, Verified, SameAnswers, Asked, Parts,
         Servable, Scopes, Request
<1>4. RequestSees'
  BY <1>1, <1>2, BackendsStay
     DEF RequestInv, RequestProgress, RequestSees, SemanticPcs, Resolved, Verified, SameAnswers,
         LeadsTo, Undisturbed, SemanticServes, ProviderIsBuilt
<1> QED BY <1>1, <1>2, <1>3, <1>4, BackendsStay DEF RequestInv, SameAnswers

LEMMA ReadProfileStep == SearchInv /\ ReadProfile => RequestInv'
<1> SUFFICES ASSUME SearchInv, ReadProfile PROVE RequestInv'
  OBVIOUS
<1>1. /\ SameAnswers /\ Standing
      /\ req.pc = "read" /\ req'.pc = "config" /\ profileFiles[req.collection] = "valid"
      /\ req'.collection = req.collection /\ req'.lexical = req.lexical /\ req'.paid = req.paid
  BY DEF ReadProfile, Stay, SearchInv, TypeOK, Request, SameAnswers
<1>2. RequestInv /\ ProviderIsBuilt /\ req.outcome = "none" /\ req \in Request
  BY <1>1 DEF SearchInv, TypeOK, RequestInv, RequestProgress
<1>3. RequestProgress'
  BY <1>1, <1>2, BackendsStay
     DEF RequestInv, RequestProgress, SemanticPcs, Resolved, Verified, SameAnswers, Asked, Parts,
         Servable, Scopes, Request
<1>4. RequestSees'
  BY <1>1, <1>2, BackendsStay
     DEF RequestInv, RequestProgress, RequestSees, SemanticPcs, Resolved, Verified, SameAnswers,
         LeadsTo, Undisturbed, SemanticServes, ProviderIsBuilt
<1> QED BY <1>1, <1>2, <1>3, <1>4, BackendsStay DEF RequestInv, SameAnswers

LEMMA VerifyCollectionStep == SearchInv /\ VerifyCollection => RequestInv'
<1> SUFFICES ASSUME SearchInv, VerifyCollection PROVE RequestInv'
  OBVIOUS
<1>1. /\ SameAnswers /\ Standing
      /\ req.pc = "config" /\ req'.pc = "embed" /\ req.collection \in semPublished
      /\ Servable(req.collection, req.lexical)
      /\ req'.collection = req.collection /\ req'.lexical = req.lexical /\ req'.paid = req.paid
  BY DEF VerifyCollection, Stay, SearchInv, TypeOK, Request, SameAnswers
<1>2. RequestInv /\ ProviderIsBuilt /\ req.outcome = "none" /\ req \in Request
  BY <1>1 DEF SearchInv, TypeOK, RequestInv, RequestProgress
<1>3. RequestProgress'
  BY <1>1, <1>2, BackendsStay
     DEF RequestInv, RequestProgress, SemanticPcs, Resolved, Verified, SameAnswers, Asked, Parts,
         Servable, Scopes, Request
<1>4. RequestSees'
  BY <1>1, <1>2, BackendsStay
     DEF RequestInv, RequestProgress, RequestSees, SemanticPcs, Resolved, Verified, SameAnswers,
         LeadsTo, Undisturbed, SemanticServes, ProviderIsBuilt
<1> QED BY <1>1, <1>2, <1>3, <1>4, BackendsStay DEF RequestInv, SameAnswers

LEMMA EmbedQueryStep == SearchInv /\ EmbedQuery => RequestInv'
<1> SUFFICES ASSUME SearchInv, EmbedQuery PROVE RequestInv'
  OBVIOUS
<1>1. /\ SameAnswers /\ Standing
      /\ req.pc = "embed" /\ req'.pc = "check" /\ req'.paid = TRUE
      /\ req'.collection = req.collection /\ req'.lexical = req.lexical
  BY DEF EmbedQuery, Stay, SearchInv, TypeOK, Request, SameAnswers
<1>2. RequestInv /\ ProviderIsBuilt /\ req.outcome = "none" /\ req \in Request
  BY <1>1 DEF SearchInv, TypeOK, RequestInv, RequestProgress
<1>3. RequestProgress'
  BY <1>1, <1>2, BackendsStay
     DEF RequestInv, RequestProgress, SemanticPcs, Resolved, Verified, SameAnswers, Asked, Parts,
         Servable, Scopes, Request
<1>4. RequestSees'
  BY <1>1, <1>2, BackendsStay
     DEF RequestInv, RequestProgress, RequestSees, SemanticPcs, Resolved, Verified, SameAnswers,
         LeadsTo, Undisturbed, SemanticServes, ProviderIsBuilt
<1> QED BY <1>1, <1>2, <1>3, <1>4, BackendsStay DEF RequestInv, SameAnswers

LEMMA CheckLexicalStep == SearchInv /\ CheckLexical => RequestInv'
<1> SUFFICES ASSUME SearchInv, CheckLexical PROVE RequestInv'
  OBVIOUS
<1>1. /\ SameAnswers /\ Standing
      /\ req.pc = "check" /\ req'.pc = "search" /\ req'.paid = req.paid
      /\ \E v \in LexVersions : LeadsTo(v) /\ v.compatible
      /\ req'.collection = req.collection /\ req'.lexical = req.lexical
  BY DEF CheckLexical, Stay, SearchInv, TypeOK, Request, SameAnswers
<1>2. RequestInv /\ ProviderIsBuilt /\ req.outcome = "none" /\ req \in Request
  BY <1>1 DEF SearchInv, TypeOK, RequestInv, RequestProgress
<1>3. RequestProgress'
  BY <1>1, <1>2, BackendsStay
     DEF RequestInv, RequestProgress, SemanticPcs, Resolved, Verified, SameAnswers, Asked, Parts,
         Servable, Scopes, Request
<1>4. RequestSees'
  BY <1>1, <1>2, BackendsStay
     DEF RequestInv, RequestProgress, RequestSees, SemanticPcs, Resolved, Verified, SameAnswers,
         LeadsTo, Undisturbed, SemanticServes, ProviderIsBuilt
<1> QED BY <1>1, <1>2, <1>3, <1>4, BackendsStay DEF RequestInv, SameAnswers

LEMMA ResolveAgainStep == SearchInv /\ ResolveAgain => RequestInv'
<1> SUFFICES ASSUME SearchInv, ResolveAgain PROVE RequestInv'
  OBVIOUS
<1>1. /\ SameAnswers /\ Standing
      /\ req.pc = "again" /\ req'.pc = "query" /\ req'.target = semServing
      /\ req'.paid = req.paid
      /\ req'.collection = req.collection /\ req'.lexical = req.lexical
  BY DEF ResolveAgain, Stay, SearchInv, TypeOK, Request, SameAnswers
<1>2. RequestInv /\ ProviderIsBuilt /\ req.outcome = "none" /\ req \in Request
  BY <1>1 DEF SearchInv, TypeOK, RequestInv, RequestProgress
<1>3. RequestProgress'
  BY <1>1, <1>2, BackendsStay
     DEF RequestInv, RequestProgress, SemanticPcs, Resolved, Verified, SameAnswers, Asked, Parts,
         Servable, Scopes, Request
<1>4. RequestSees'
  BY <1>1, <1>2, BackendsStay
     DEF RequestInv, RequestProgress, RequestSees, SemanticPcs, Resolved, Verified, SameAnswers,
         LeadsTo, Undisturbed, SemanticServes, ProviderIsBuilt
<1> QED BY <1>1, <1>2, <1>3, <1>4, BackendsStay DEF RequestInv, SameAnswers

(* A request ends without an answer. *)
LEMMA EndsWithout ==
    ASSUME SearchInv, Standing, req.pc # "done",
           NEW outcome, outcome \in {"refused", "outage", "untyped"}, Raise(outcome),
           Undisturbed(req) /\ outcome = "refused" => ~Serves
    PROVE  RequestInv'
<1>1. req \in Request /\ RequestInv /\ TypeOK
  BY DEF SearchInv, TypeOK
<1>2. /\ req'.pc = "done" /\ req'.outcome = outcome /\ req'.scope = "ayah"
      /\ req'.paid = req.paid /\ req'.since = req.since /\ \A s \in Scopes : req'.semUsed[s] = {}
  BY <1>1, RaiseResult
<1>3. RequestProgress'
  BY <1>1, <1>2, BackendsStay DEF RequestInv, RequestProgress, SemanticPcs, Resolved, Verified
<1>4. RequestSees'
  BY <1>1, <1>2, BackendsStay
     DEF RequestInv, RequestSees, SemanticPcs, Resolved, Verified, Undisturbed
<1> QED BY <1>1, <1>2, <1>3, <1>4, BackendsStay DEF RequestInv

LEMMA RaisesStep == SearchInv /\ (Outage \/ ProfileRaises) => RequestInv'
BY EndsWithout DEF Outage, ProfileRaises, Stay

LEMMA RefuseStep == SearchInv /\ Refuse => RequestInv'
<1> SUFFICES ASSUME SearchInv, Refuse PROVE RequestInv'
  OBVIOUS
<1>1. Standing /\ Raise("refused") /\ req.pc # "done" /\ RequestInv
  BY DEF Refuse, SearchInv, Stay
<1>2. ASSUME Undisturbed(req), Serves PROVE FALSE
  <2>1. PICK v \in LexVersions : LeadsTo(v) /\ v.compatible
    BY <1>2 DEF Serves, LexicalServes
  <2>2. (\A w \in LexVersions : LeadsTo(w) => w = v) /\ lexAlias # {} /\ "opensearch" \in clients
    BY <1>2, <2>1 DEF LeadsTo, Serves, LexicalServes
  <2>3. Hybrid => /\ "qdrant" \in clients /\ semServing # NoVersion
                  /\ semServing \in semPublished
                  /\ profileFiles[semServing] = "valid" /\ Servable(semServing, v)
    BY <1>2, <2>2 DEF Serves, SemanticServes
  <2>4. req.pc \notin {"profile", "done"} => req.lexical = v
    BY <1>1, <1>2, <2>1, <2>2 DEF RequestInv, RequestSees
  <2>5. req.pc \in {"resolve", "again", "exists", "read", "config", "query"} => Hybrid
    BY <1>1 DEF RequestInv, RequestProgress, SemanticPcs
  <2>6. req.pc \in {"exists", "read", "config", "again", "query"} =>
          req.collection = semServing /\ semServing # NoVersion
    BY <1>1, <1>2, <2>5 DEF RequestInv, RequestSees, Resolved, Verified
  <2>7. req.pc = "query" => req.target = semServing
    BY <1>1, <1>2, <2>6 DEF RequestInv, RequestSees
  <2> QED BY <2>1, <2>2, <2>3, <2>4, <2>5, <2>6, <2>7 DEF Refuse, Servable
<1> QED BY <1>1, <1>2, EndsWithout

(* The last backend of a scope answered. *)
LEMMA ScopeDone ==
    ASSUME SearchInv, Standing, NEW r \in Request, req' = NextScope(r),
           req.pc \in {"search", "query"},
           /\ r.translations = req.translations /\ r.scope = req.scope /\ r.paid = req.paid
           /\ r.lexical = req.lexical /\ r.collection = req.collection
           /\ r.outcome = req.outcome /\ r.since = req.since,
           \A s \in Scopes \ {req.scope} :
              r.lexUsed[s] = req.lexUsed[s] /\ r.semUsed[s] = req.semUsed[s],
           r.lexUsed[req.scope] # {},
           Hybrid => \E v \in SemVersions : r.semUsed[req.scope] = {v},
           ~Hybrid => r.semUsed[req.scope] = {}
    PROVE  RequestInv'
<1>1. req \in Request /\ RequestInv /\ req.outcome = "none" /\ req.scope \in {"ayah", "translation"}
  BY DEF SearchInv, TypeOK, RequestInv, RequestProgress, Request, Scopes
<1>2. /\ req'.translations = req.translations /\ req'.paid = req.paid
      /\ req'.lexical = req.lexical /\ req'.collection = req.collection
      /\ req'.outcome = req.outcome /\ req'.since = req.since
      /\ req'.lexUsed = r.lexUsed /\ req'.semUsed = r.semUsed
      /\ \/ /\ req.scope = "ayah" /\ req.translations
            /\ req'.scope = "translation" /\ req'.pc = "check"
         \/ /\ ~(req.scope = "ayah" /\ req.translations)
            /\ req'.scope = req.scope /\ req'.pc = "chart"
  BY NextScopeResult
<1>3. /\ Asked("ayah")'
      /\ req.scope = "translation" => Asked("translation")' /\ req.translations
  <2>1. CASE req.scope = "ayah"
    BY <1>2, <2>1, BackendsStay DEF Asked
  <2>2. CASE req.scope = "translation"
    <3>1. Asked("ayah") /\ req.translations
      BY <1>1, <2>2 DEF RequestInv, RequestProgress
    <3>2. Asked("translation")'
      BY <1>2, <2>2, BackendsStay DEF Asked
    <3>3. r.lexUsed["ayah"] = req.lexUsed["ayah"] /\ r.semUsed["ayah"] = req.semUsed["ayah"]
      BY <2>2 DEF Scopes
    <3>4. Asked("ayah")'
      BY <1>2, <3>1, <3>3, BackendsStay DEF Asked
    <3> QED BY <2>2, <3>1, <3>2, <3>4
  <2> QED BY <1>1, <2>1, <2>2
<1>4. req'.pc = "chart" =>
        Parts' = IF req.scope = "translation" THEN {"ayah", "translation"} ELSE {"ayah"}
  BY <1>1, <1>2, <1>3 DEF Parts
<1>5. ~Hybrid => \A s \in Scopes : req'.semUsed[s] = {}
  BY <1>1, <1>2 DEF RequestInv, RequestProgress, Scopes
<1>6. /\ "opensearch" \in clients
      /\ Hybrid => "qdrant" \in clients /\ Servable(req.collection, req.lexical)
  BY <1>1 DEF RequestInv, RequestProgress, Resolved, Verified
<1>7. RequestProgress'
  BY <1>1, <1>2, <1>3, <1>4, <1>5, <1>6, BackendsStay
     DEF RequestInv, RequestProgress, SemanticPcs, Servable
<1>8. RequestSees'
  <2>1. SUFFICES ASSUME Undisturbed(req)' PROVE RequestSees'
    BY DEF RequestSees
  <2>2. Undisturbed(req)
    BY <1>2, <2>1, BackendsStay DEF Undisturbed
  <2>3. /\ req.lexical \in LexVersions /\ LeadsTo(req.lexical) /\ req.lexical.compatible
        /\ Hybrid => /\ req.collection = semServing /\ semServing # NoVersion
                     /\ profileFiles[req.collection] = "valid" /\ req.collection \in semPublished
        /\ req.paid => SemanticServes
    BY <1>1, <2>2 DEF RequestInv, RequestSees, Resolved, Verified
  <2>4. LeadsTo(req.lexical)'
    BY <1>2, <2>3, BackendsStay DEF LeadsTo
  <2> QED BY <1>1, <1>2, <2>3, <2>4, BackendsStay DEF RequestSees, SemanticPcs, Resolved, Verified
<1> QED BY <1>1, <1>2, <1>7, <1>8, BackendsStay DEF RequestInv

LEMMA FoundResult ==
    ASSUME TypeOK
    PROVE  /\ LET found == [req EXCEPT !.lexUsed[req.scope] = lexAlias]
              IN  /\ found \in Request /\ found.translations = req.translations
                  /\ found.scope = req.scope /\ found.paid = req.paid
                  /\ found.lexical = req.lexical /\ found.collection = req.collection
                  /\ found.outcome = req.outcome /\ found.since = req.since
                  /\ found.semUsed = req.semUsed /\ found.lexUsed[req.scope] = lexAlias
                  /\ \A s \in Scopes \ {req.scope} : found.lexUsed[s] = req.lexUsed[s]
           /\ req.target \in SemVersions =>
              LET found == [req EXCEPT !.semUsed[req.scope] = {req.target}]
              IN  /\ found \in Request /\ found.translations = req.translations
                  /\ found.scope = req.scope /\ found.paid = req.paid
                  /\ found.lexical = req.lexical /\ found.collection = req.collection
                  /\ found.outcome = req.outcome /\ found.since = req.since
                  /\ found.lexUsed = req.lexUsed /\ found.semUsed[req.scope] = {req.target}
                  /\ \A s \in Scopes \ {req.scope} : found.semUsed[s] = req.semUsed[s]
BY FoundIsTyped DEF TypeOK, Request, Scopes

LEMMA SearchLexicalStep == SearchInv /\ SearchLexical => RequestInv'
<1> SUFFICES ASSUME SearchInv, SearchLexical PROVE RequestInv'
  OBVIOUS
<1> DEFINE found == [req EXCEPT !.lexUsed[req.scope] = lexAlias]
<1>1. /\ Standing /\ req.pc = "search" /\ lexAlias # {} /\ RequestInv /\ req \in Request
      /\ req' = IF Hybrid THEN [found EXCEPT !.pc = "again"] ELSE NextScope(found)
  BY DEF SearchLexical, SearchInv, TypeOK, Hybrid, Stay
<1>2. /\ found \in Request /\ found.translations = req.translations /\ found.scope = req.scope
      /\ found.paid = req.paid /\ found.lexical = req.lexical
      /\ found.collection = req.collection /\ found.outcome = req.outcome
      /\ found.since = req.since /\ found.semUsed = req.semUsed
      /\ found.lexUsed[req.scope] = lexAlias
      /\ \A s \in Scopes \ {req.scope} : found.lexUsed[s] = req.lexUsed[s]
  BY FoundResult DEF SearchInv
<1> HIDE DEF found
<1>3. CASE ~Hybrid
  <2>1. found.semUsed[req.scope] = {}
    BY <1>1, <1>2, <1>3 DEF RequestInv, RequestProgress, Request
  <2> QED BY <1>1, <1>2, <1>3, <2>1, ScopeDone
<1>4. CASE Hybrid
  <2>1. /\ req'.pc = "again" /\ req'.translations = req.translations /\ req'.scope = req.scope
        /\ req'.paid = req.paid /\ req'.lexical = req.lexical /\ req'.collection = req.collection
        /\ req'.outcome = req.outcome /\ req'.since = req.since
        /\ req'.semUsed = req.semUsed /\ req'.lexUsed = found.lexUsed
    BY <1>1, <1>2, <1>4 DEF Request
  <2>2. req.outcome = "none" /\ req.scope \in {"ayah", "translation"} /\ Hybrid'
    BY <1>1, <1>4, BackendsStay DEF RequestInv, RequestProgress, Request, Scopes
  <2>3. req'.lexUsed[req'.scope] # {}
    BY <1>1, <1>2, <2>1
  <2>4. ASSUME req.scope = "translation" PROVE req.translations /\ Asked("ayah")'
    <3>1. req'.lexUsed["ayah"] = req.lexUsed["ayah"]
      BY <1>2, <2>1, <2>4 DEF Scopes
    <3>2. req.translations /\ Asked("ayah")
      BY <1>1, <2>4 DEF RequestInv, RequestProgress
    <3> QED BY <1>1, <2>1, <3>1, <3>2, BackendsStay DEF Asked
  <2>5. /\ "opensearch" \in clients /\ "qdrant" \in clients /\ Servable(req.collection, req.lexical)
    BY <1>1, <1>4 DEF RequestInv, RequestProgress, Resolved, Verified
  <2>6. RequestProgress'
    BY <1>1, <2>1, <2>2, <2>3, <2>4, <2>5, BackendsStay DEF RequestProgress, SemanticPcs, Servable
  <2>7. RequestSees'
    BY <1>1, <1>4, <2>1, <2>2, BackendsStay
       DEF RequestInv, RequestSees, Undisturbed, LeadsTo, SemanticPcs, Resolved, Verified
  <2> QED BY <1>1, <2>1, <2>6, <2>7, BackendsStay DEF RequestInv
<1> QED BY <1>3, <1>4

LEMMA QueryVectorsStep == SearchInv /\ QueryVectors => RequestInv'
<1> SUFFICES ASSUME SearchInv, QueryVectors PROVE RequestInv'
  OBVIOUS
<1> DEFINE found == [req EXCEPT !.semUsed[req.scope] = {req.target}]
<1>1. /\ Standing /\ req.pc = "query" /\ req.target \in SemVersions /\ RequestInv
      /\ req' = NextScope(found)
  BY DEF QueryVectors, SearchInv, TypeOK, Stay
<1>2. /\ found \in Request /\ found.translations = req.translations /\ found.scope = req.scope
      /\ found.paid = req.paid /\ found.lexical = req.lexical
      /\ found.collection = req.collection /\ found.outcome = req.outcome
      /\ found.since = req.since /\ found.lexUsed = req.lexUsed
      /\ found.semUsed[req.scope] = {req.target}
      /\ \A s \in Scopes \ {req.scope} : found.semUsed[s] = req.semUsed[s]
  BY <1>1, FoundResult DEF SearchInv
<1> HIDE DEF found
<1>3. Hybrid /\ found.lexUsed[req.scope] # {}
  BY <1>1, <1>2 DEF RequestInv, RequestProgress
<1> QED BY <1>1, <1>2, <1>3, ScopeDone

LEMMA AggregateChartStep == SearchInv /\ AggregateChart => RequestInv'
<1> SUFFICES ASSUME SearchInv, AggregateChart PROVE RequestInv'
  OBVIOUS
<1>1. /\ Standing /\ req.pc = "chart" /\ RequestInv /\ ProviderIsBuilt /\ req \in Request
      /\ req.outcome = "none"
      /\ req' = [req EXCEPT !.lexUsed["chart"] = lexAlias, !.pc = "done", !.outcome = "ok"]
  BY DEF AggregateChart, SearchInv, TypeOK, RequestInv, RequestProgress, Stay
<1>2. /\ req'.pc = "done" /\ req'.outcome = "ok" /\ req'.translations = req.translations
      /\ req'.scope = req.scope /\ req'.paid = req.paid /\ req'.lexical = req.lexical
      /\ req'.collection = req.collection /\ req'.since = req.since
      /\ req'.semUsed = req.semUsed
      /\ \A s \in Scopes : req'.lexUsed[s] = req.lexUsed[s]
  BY <1>1 DEF Request, Scopes
<1>3. Parts' = Parts /\ Parts \subseteq Scopes /\ "ayah" \in Scopes
  BY <1>1, <1>2 DEF Parts, Scopes
<1>4. \A s \in Scopes : Asked(s)' = Asked(s)
  BY <1>1, <1>2, <1>3, BackendsStay DEF Asked
<1>5. RequestProgress'
  BY <1>1, <1>2, <1>3, <1>4, BackendsStay
     DEF RequestInv, RequestProgress, SemanticPcs, Resolved, Verified, Servable
<1>6. ASSUME Undisturbed(req) PROVE Serves
  BY <1>1, <1>6 DEF RequestInv, RequestProgress, RequestSees, Resolved, Verified, Serves,
     LexicalServes, SemanticServes, ProviderIsBuilt
<1>7. RequestSees'
  BY <1>1, <1>2, <1>6, BackendsStay
     DEF RequestInv, RequestSees, Undisturbed, LeadsTo, SemanticPcs, Resolved, Verified
<1> QED BY <1>1, <1>2, <1>5, <1>7, BackendsStay DEF RequestInv

LEMMA RequestKeepsInv == SearchInv /\ RequestStep => RequestInv'
BY BeginRequestStep, ReadLexicalProfileStep, ResolveCollectionStep, FindProfileStep,
   ReadProfileStep, VerifyCollectionStep, EmbedQueryStep, CheckLexicalStep, SearchLexicalStep,
   ResolveAgainStep, QueryVectorsStep, AggregateChartStep, RefuseStep, RaisesStep
   DEF RequestStep

-----------------------------------------------------------------------------
(* Steps of the request: when what it read was there                        *)

LEMMA LexicalReadsAre ==
    ASSUME NEW p \in req'.since..moves', NEW a \in req'.since..moves',
           NEW t \in req'.since..moves', NEW c \in req'.since..moves',
           LexicalReadAt(p, a, t, c)'
    PROVE  LexicalReads'
BY DEF LexicalReads

LEMMA SemanticReadsAre ==
    ASSUME NEW r \in req'.since..moves', NEW a \in req'.since..moves', NEW t \in req'.since..moves',
           VectorsReadAt(r, a, t)'
    PROVE  SemanticReads'
BY DEF SemanticReads

LEMMA NowIsPast ==
    ASSUME SearchInv
    PROVE  /\ moves \in req.since..moves /\ req.since \in Nat /\ moves \in Nat
           /\ past[moves].lex = lexAlias /\ past[moves].sem = semServing
           /\ Stay => PastIsPresent' /\ past' = past /\ moves' = moves /\ Hybrid' = Hybrid
<1>1. req.since \in Nat /\ moves \in Nat /\ req.since <= moves
  BY MaxMovesAssumption DEF SearchInv, TypeOK, Request, RequestInv
<1>2. past[moves] = [lex |-> lexAlias, sem |-> semServing]
  BY DEF SearchInv, ReadsInv, PastIsPresent
<1> QED BY <1>1, <1>2 DEF PastIsPresent, Stay, Standing, settings, backends, Hybrid

(* What a request has read so far, when it has begun to. *)
LEMMA HasReadLexical ==
    ASSUME SearchInv, req.pc \notin {"profile", "done"}
    PROVE  \E p, a, t, c \in req.since..moves : LexicalReadAt(p, a, t, c)
BY DEF SearchInv, ReadsInv, LexicalReads

LEMMA HasReadVectors ==
    ASSUME SearchInv, Hybrid, req.pc \in Resolved
    PROVE  \E r, a, t \in req.since..moves : VectorsReadAt(r, a, t)
BY DEF SearchInv, ReadsInv, SemanticReads

LEMMA BeginRequestReads == SearchInv /\ BeginRequest => ReadsInv'
<1> SUFFICES ASSUME SearchInv, BeginRequest PROVE ReadsInv'
  OBVIOUS
<1>1. req'.pc = "profile" /\ req'.outcome = "none" /\ past' = Present /\ moves' = moves
      /\ lexAlias' = lexAlias /\ semServing' = semServing /\ moves \in 0..MaxMoves
  BY DEF BeginRequest, NewRequest, Standing, backends, SearchInv, TypeOK
<1> QED BY <1>1 DEF ReadsInv, PastIsPresent, Present, LexicalReads, SemanticReads, Resolved,
   Verified

LEMMA RaisesReads ==
    ASSUME SearchInv, Stay, NEW outcome, outcome \in {"refused", "outage", "untyped"},
           Raise(outcome)
    PROVE  ReadsInv'
<1>1. req'.pc = "done" /\ req'.outcome = outcome
  BY RaiseResult DEF SearchInv
<1> QED BY <1>1, NowIsPast DEF ReadsInv, LexicalReads, SemanticReads, Resolved, Verified

(* Before it asks for hits, a request goes on with what it has read. *)
LEMMA VerifyingReads ==
    ASSUME SearchInv, Stay, SameAnswers,
           req'.lexical = req.lexical, req'.collection = req.collection,
           req.pc \in {"exists", "read", "config", "embed", "check"},
           req'.pc \in {"read", "config", "embed", "check", "search"}
    PROVE  ReadsInv'
<1>1. LexicalReads'
  <2>1. PICK p, a, t, c \in req.since..moves : LexicalReadAt(p, a, t, c)
    BY HasReadLexical
  <2>2. LexicalReadAt(p, a, t, c)'
    BY <2>1, NowIsPast DEF LexicalReadAt, HasLexical, Answered, SameAnswers
  <2> QED BY <2>2, LexicalReadsAre, NowIsPast DEF SameAnswers
<1>2. SemanticReads'
  <2>1. CASE Hybrid
    <3>1. PICK r, a, t \in req.since..moves : VectorsReadAt(r, a, t)
      BY <2>1, HasReadVectors DEF Resolved, Verified
    <3>2. VectorsReadAt(r, a, t)'
      BY <3>1, NowIsPast DEF VectorsReadAt, HasVectors, Answered, SameAnswers
    <3> QED BY <3>2, SemanticReadsAre, NowIsPast DEF SameAnswers
  <2>2. CASE ~Hybrid
    BY <2>2, NowIsPast DEF SemanticReads
  <2> QED BY <2>1, <2>2
<1> QED BY <1>1, <1>2, NowIsPast DEF ReadsInv

LEMMA ReadLexicalProfileReads == SearchInv /\ ReadLexicalProfile => ReadsInv'
<1> SUFFICES ASSUME SearchInv, ReadLexicalProfile PROVE ReadsInv'
  OBVIOUS
<1>1. /\ Stay /\ req.pc = "profile" /\ req'.pc = IF Hybrid THEN "resolve" ELSE "check"
      /\ lexAlias = {req'.lexical} /\ req'.scope = req.scope /\ req'.since = req.since
      /\ req'.outcome = req.outcome
  BY DEF ReadLexicalProfile, SearchInv, TypeOK, Request, Hybrid, LeadsTo
<1>2. req.scope = "ayah" /\ req.outcome = "none"
  BY <1>1 DEF SearchInv, RequestInv, RequestProgress
<1>3. LexicalReadAt(moves, moves, moves, moves)'
  BY <1>1, <1>2, NowIsPast DEF LexicalReadAt, HasLexical, Answered
<1>4. LexicalReads'
  BY <1>1, <1>3, NowIsPast, LexicalReadsAre DEF LexicalReads
<1>5. SemanticReads'
  BY <1>1, <1>2, NowIsPast DEF SemanticReads, Resolved, Verified
<1> QED BY <1>1, <1>4, <1>5, NowIsPast DEF ReadsInv

LEMMA ResolveCollectionReads == SearchInv /\ ResolveCollection => ReadsInv'
<1> SUFFICES ASSUME SearchInv, ResolveCollection PROVE ReadsInv'
  OBVIOUS
<1>1. /\ Stay /\ SameAnswers /\ req.pc = "resolve" /\ req'.pc = "exists"
      /\ req'.lexical = req.lexical /\ req'.collection = semServing
  BY DEF ResolveCollection, SearchInv, TypeOK, Request, SameAnswers
<1>2. req.scope = "ayah" /\ req.outcome = "none"
  BY <1>1 DEF SearchInv, RequestInv, RequestProgress, SemanticPcs
<1>3. LexicalReads'
  <2>1. PICK p, a, t, c \in req.since..moves : LexicalReadAt(p, a, t, c)
    BY <1>1, HasReadLexical
  <2>2. LexicalReadAt(p, a, t, c)'
    BY <1>1, <2>1, NowIsPast DEF LexicalReadAt, HasLexical, Answered, SameAnswers
  <2> QED BY <1>1, <2>2, LexicalReadsAre, NowIsPast DEF SameAnswers
<1>4. SemanticReads'
  <2>1. PICK n \in Nat : n \in req'.since..moves' /\ past'[n].sem = semServing
    BY <1>1, NowIsPast DEF SameAnswers
  <2>2. VectorsReadAt(n, n, n)'
    BY <1>1, <1>2, <2>1, NowIsPast DEF VectorsReadAt, HasVectors, Answered, SameAnswers
  <2> QED BY <2>1, <2>2, SemanticReadsAre
<1> QED BY <1>1, <1>3, <1>4, NowIsPast DEF ReadsInv

LEMMA ResolveAgainReads == SearchInv /\ ResolveAgain => ReadsInv'
<1> SUFFICES ASSUME SearchInv, ResolveAgain PROVE ReadsInv'
  OBVIOUS
<1>1. /\ Stay /\ SameAnswers /\ req.pc = "again" /\ req'.pc = "query"
      /\ req'.lexical = req.lexical /\ req'.collection = req.collection
      /\ req'.target = semServing
  BY DEF ResolveAgain, SearchInv, TypeOK, Request, SameAnswers
<1>2. Hybrid /\ req.outcome = "none" /\ req.scope \in {"ayah", "translation"}
  BY <1>1 DEF SearchInv, TypeOK, Request, Scopes, RequestInv, RequestProgress
<1>3. LexicalReads'
  <2>1. PICK p, a, t, c \in req.since..moves : LexicalReadAt(p, a, t, c)
    BY <1>1, HasReadLexical
  <2>2. LexicalReadAt(p, a, t, c)'
    BY <1>1, <2>1, NowIsPast DEF LexicalReadAt, HasLexical, Answered, SameAnswers
  <2> QED BY <1>1, <2>2, LexicalReadsAre, NowIsPast DEF SameAnswers
<1>4. SemanticReads'
  <2>1. PICK r, a, t \in req.since..moves : VectorsReadAt(r, a, t)
    BY <1>1, <1>2, HasReadVectors DEF Resolved, Verified
  <2>2. PICK n \in req.since..moves : n = moves /\ past'[n].sem = semServing
    BY <1>1, NowIsPast
  <2>3. CASE req.scope = "ayah"
    <3>1. VectorsReadAt(r, n, n)'
      BY <1>1, <1>2, <2>1, <2>2, <2>3, NowIsPast DEF VectorsReadAt, HasVectors, Answered, SameAnswers
    <3> QED BY <1>1, <3>1, SemanticReadsAre, NowIsPast DEF SameAnswers
  <2>4. CASE req.scope = "translation"
    <3>1. VectorsReadAt(r, a, n)'
      BY <1>1, <1>2, <2>1, <2>2, <2>4, NowIsPast DEF VectorsReadAt, HasVectors, Answered, SameAnswers
    <3> QED BY <1>1, <3>1, SemanticReadsAre, NowIsPast DEF SameAnswers
  <2> QED BY <1>2, <2>3, <2>4
<1> QED BY <1>1, <1>3, <1>4, NowIsPast DEF ReadsInv

(* Where a request is once a scope has been asked of the lexical index, or of
   both sides. *)
LEMMA NextScopeReads ==
    ASSUME SearchInv, NEW r \in Request, req' = NextScope(r),
           req.pc \in {"search", "query"},
           r.scope = req.scope, r.translations = req.translations, r.outcome = req.outcome
    PROVE  /\ req'.outcome = "none"
           /\ HasLexical("ayah")' /\ HasVectors("ayah")'
           /\ req.scope = "ayah" =>
                /\ ~(HasLexical("translation") /\ req.translations)'
                /\ ~(HasVectors("translation") /\ req.translations)'
           /\ req'.pc # "query"
<1>1. req.outcome = "none" /\ req.scope \in {"ayah", "translation"}
      /\ (req.scope = "translation" => req.translations)
  BY DEF SearchInv, TypeOK, Request, Scopes, RequestInv, RequestProgress
<1> QED BY <1>1, NextScopeResult DEF HasLexical, HasVectors, Answered

LEMMA SearchLexicalReads == SearchInv /\ SearchLexical => ReadsInv'
<1> SUFFICES ASSUME SearchInv, SearchLexical PROVE ReadsInv'
  OBVIOUS
<1> DEFINE found == [req EXCEPT !.lexUsed[req.scope] = lexAlias]
<1>1. /\ Stay /\ req.pc = "search" /\ req \in Request
      /\ req' = IF Hybrid THEN [found EXCEPT !.pc = "again"] ELSE NextScope(found)
  BY DEF SearchLexical, SearchInv, TypeOK, Hybrid
<1>2. /\ found \in Request /\ found.translations = req.translations /\ found.scope = req.scope
      /\ found.lexical = req.lexical /\ found.collection = req.collection
      /\ found.outcome = req.outcome /\ found.since = req.since
      /\ found.semUsed = req.semUsed /\ found.lexUsed[req.scope] = lexAlias
      /\ \A s \in Scopes \ {req.scope} : found.lexUsed[s] = req.lexUsed[s]
  BY FoundResult DEF SearchInv
<1>3. /\ req.outcome = "none" /\ req.scope \in {"ayah", "translation"}
      /\ req.scope = "translation" => req.translations
  BY <1>1 DEF SearchInv, TypeOK, Request, Scopes, RequestInv, RequestProgress
<1> HIDE DEF found
<1>4. /\ req'.translations = req.translations /\ req'.lexical = req.lexical
      /\ req'.collection = req.collection /\ req'.outcome = "none" /\ req'.since = req.since
      /\ req'.semUsed = req.semUsed /\ req'.lexUsed = found.lexUsed
      /\ Hybrid => req'.pc = "again" /\ req'.scope = req.scope
      /\ req.scope = "ayah" => ~(HasLexical("translation") /\ req.translations)'
  <2>1. CASE Hybrid
    <3>1. req' = [found EXCEPT !.pc = "again"]
      BY <1>1, <2>1
    <3> QED BY <1>2, <1>3, <2>1, <3>1 DEF Request, HasLexical, Answered
  <2>2. CASE ~Hybrid
    BY <1>1, <1>2, <1>3, <2>2, NextScopeReads, NextScopeResult
  <2> QED BY <2>1, <2>2
<1>5. PICK n \in req.since..moves : n = moves /\ past'[n].lex = lexAlias
  BY <1>1, NowIsPast
<1>6. LexicalReads'
  <2>1. PICK p, a, t, c \in req.since..moves : LexicalReadAt(p, a, t, c)
    BY <1>1, HasReadLexical
  <2>2. CASE req.scope = "ayah"
    <3>1. LexicalReadAt(p, n, n, n)'
      BY <1>1, <1>2, <1>3, <1>4, <1>5, <2>1, <2>2, NowIsPast DEF LexicalReadAt
    <3> QED BY <1>1, <1>4, <3>1, LexicalReadsAre, NowIsPast
  <2>3. CASE req.scope = "translation"
    <3>1. HasLexical("ayah") /\ req'.lexUsed["ayah"] = req.lexUsed["ayah"]
      BY <1>2, <1>4, <2>3 DEF HasLexical, Scopes
    <3>2. LexicalReadAt(p, a, n, n)'
      BY <1>1, <1>2, <1>3, <1>4, <1>5, <2>1, <2>3, <3>1, NowIsPast DEF LexicalReadAt
    <3> QED BY <1>1, <1>4, <3>2, LexicalReadsAre, NowIsPast
  <2> QED BY <1>3, <2>2, <2>3
<1>7. SemanticReads'
  <2>1. CASE Hybrid
    <3>1. PICK r, a, t \in req.since..moves : VectorsReadAt(r, a, t)
      BY <1>1, <2>1, HasReadVectors DEF Resolved, Verified
    <3>2. VectorsReadAt(r, a, t)'
      BY <1>1, <1>3, <1>4, <2>1, <3>1, NowIsPast DEF VectorsReadAt, HasVectors, Answered
    <3> QED BY <1>1, <1>4, <3>2, SemanticReadsAre, NowIsPast
  <2>2. CASE ~Hybrid
    BY <1>1, <2>2, NowIsPast DEF SemanticReads
  <2> QED BY <2>1, <2>2
<1> QED BY <1>1, <1>6, <1>7, NowIsPast DEF ReadsInv

LEMMA QueryVectorsReads == SearchInv /\ QueryVectors => ReadsInv'
<1> SUFFICES ASSUME SearchInv, QueryVectors PROVE ReadsInv'
  OBVIOUS
<1> DEFINE found == [req EXCEPT !.semUsed[req.scope] = {req.target}]
<1>1. /\ Stay /\ req.pc = "query" /\ req.target \in SemVersions /\ req' = NextScope(found)
  BY DEF QueryVectors, SearchInv, TypeOK
<1>2. /\ found \in Request /\ found.translations = req.translations /\ found.scope = req.scope
      /\ found.lexical = req.lexical /\ found.collection = req.collection
      /\ found.outcome = req.outcome /\ found.since = req.since
      /\ found.lexUsed = req.lexUsed /\ found.semUsed[req.scope] = {req.target}
      /\ \A s \in Scopes \ {req.scope} : found.semUsed[s] = req.semUsed[s]
  BY <1>1, FoundResult DEF SearchInv
<1>3. /\ Hybrid /\ req.scope \in {"ayah", "translation"}
      /\ req.scope = "translation" => req.translations
  BY <1>1 DEF SearchInv, TypeOK, Request, Scopes, RequestInv, RequestProgress
<1> HIDE DEF found
<1>4. /\ req'.translations = req.translations /\ req'.lexical = req.lexical
      /\ req'.collection = req.collection /\ req'.since = req.since
      /\ req'.lexUsed = req.lexUsed /\ req'.semUsed = found.semUsed
  BY <1>1, <1>2, NextScopeResult
<1>5. /\ req'.outcome = "none" /\ req'.pc # "query"
      /\ req.scope = "ayah" => /\ ~(HasLexical("translation") /\ req.translations)'
                               /\ ~(HasVectors("translation") /\ req.translations)'
  BY <1>1, <1>2, NextScopeReads
<1>6. LexicalReads'
  <2>1. PICK p, a, t, c \in req.since..moves : LexicalReadAt(p, a, t, c)
    BY <1>1, HasReadLexical
  <2>2. HasLexical("ayah") /\ (req.scope = "translation" => HasLexical("translation"))
    BY <1>1, <1>3 DEF HasLexical
  <2>3. LexicalReadAt(p, a, t, c)'
    BY <1>1, <1>3, <1>4, <1>5, <2>1, <2>2, NowIsPast DEF LexicalReadAt
  <2> QED BY <1>1, <1>4, <2>3, LexicalReadsAre, NowIsPast
<1>7. SemanticReads'
  <2>1. PICK r, a, t \in req.since..moves : VectorsReadAt(r, a, t)
    BY <1>1, <1>3, HasReadVectors DEF Resolved, Verified
  <2>2. CASE req.scope = "ayah"
    <3>1. VectorsReadAt(r, a, t)'
      BY <1>1, <1>2, <1>4, <1>5, <2>1, <2>2, NowIsPast DEF VectorsReadAt
    <3> QED BY <1>1, <1>4, <3>1, SemanticReadsAre, NowIsPast
  <2>3. CASE req.scope = "translation"
    <3>1. HasVectors("ayah") /\ req'.semUsed["ayah"] = req.semUsed["ayah"]
      BY <1>2, <1>4, <2>3 DEF HasVectors, Scopes
    <3>2. VectorsReadAt(r, a, t)'
      BY <1>1, <1>2, <1>3, <1>4, <1>5, <2>1, <2>3, <3>1, NowIsPast DEF VectorsReadAt
    <3> QED BY <1>1, <1>4, <3>2, SemanticReadsAre, NowIsPast
  <2> QED BY <1>3, <2>2, <2>3
<1> QED BY <1>1, <1>6, <1>7, NowIsPast DEF ReadsInv

LEMMA AggregateChartReads == SearchInv /\ AggregateChart => ReadsInv'
<1> SUFFICES ASSUME SearchInv, AggregateChart PROVE ReadsInv'
  OBVIOUS
<1>1. /\ Stay /\ req.pc = "chart" /\ req \in Request
      /\ req' = [req EXCEPT !.lexUsed["chart"] = lexAlias, !.pc = "done", !.outcome = "ok"]
  BY DEF AggregateChart, SearchInv, TypeOK
<1>2. /\ req'.pc = "done" /\ req'.outcome = "ok" /\ req'.translations = req.translations
      /\ req'.lexical = req.lexical /\ req'.collection = req.collection
      /\ req'.since = req.since /\ req'.semUsed = req.semUsed
      /\ req'.lexUsed["chart"] = lexAlias
      /\ req'.lexUsed["ayah"] = req.lexUsed["ayah"]
      /\ req'.lexUsed["translation"] = req.lexUsed["translation"]
  BY <1>1 DEF Request, Scopes
<1>3. Answered
  BY <1>1 DEF Answered
<1>4. LexicalReads'
  <2>1. PICK p, a, t, c \in req.since..moves : LexicalReadAt(p, a, t, c)
    BY <1>1, HasReadLexical
  <2>2. PICK n \in req.since..moves : n = moves /\ past'[n].lex = lexAlias
    BY <1>1, NowIsPast
  <2>3. LexicalReadAt(p, a, t, n)'
    BY <1>1, <1>2, <1>3, <2>1, <2>2, NowIsPast DEF LexicalReadAt, HasLexical
  <2> QED BY <1>1, <1>2, <2>3, LexicalReadsAre, NowIsPast
<1>5. SemanticReads'
  <2>1. CASE Hybrid
    <3>1. PICK r, a, t \in req.since..moves : VectorsReadAt(r, a, t)
      BY <1>1, <2>1, HasReadVectors DEF Resolved, Verified
    <3>2. VectorsReadAt(r, a, t)'
      BY <1>1, <1>2, <1>3, <3>1, NowIsPast DEF VectorsReadAt, HasVectors
    <3> QED BY <1>1, <1>2, <3>2, SemanticReadsAre, NowIsPast
  <2>2. CASE ~Hybrid
    BY <1>1, <2>2, NowIsPast DEF SemanticReads
  <2> QED BY <2>1, <2>2
<1> QED BY <1>1, <1>4, <1>5, NowIsPast DEF ReadsInv

LEMMA RequestKeepsReads == SearchInv /\ RequestStep => ReadsInv'
<1> SUFFICES ASSUME SearchInv, RequestStep PROVE ReadsInv'
  OBVIOUS
<1>1. CASE FindProfile \/ ReadProfile \/ VerifyCollection \/ EmbedQuery \/ CheckLexical
  <2>1. /\ Stay /\ SameAnswers /\ req'.lexical = req.lexical /\ req'.collection = req.collection
        /\ req.pc \in {"exists", "read", "config", "embed", "check"}
        /\ req'.pc \in {"read", "config", "embed", "check", "search"}
    BY <1>1 DEF FindProfile, ReadProfile, VerifyCollection, EmbedQuery, CheckLexical, SearchInv,
       TypeOK, Request, SameAnswers
  <2> QED BY <2>1, VerifyingReads
<1>2. CASE Refuse \/ Outage \/ ProfileRaises
  BY <1>2, RaisesReads DEF Refuse, Outage, ProfileRaises
<1> QED BY <1>1, <1>2, BeginRequestReads, ReadLexicalProfileReads, ResolveCollectionReads,
   SearchLexicalReads, ResolveAgainReads, QueryVectorsReads, AggregateChartReads DEF RequestStep

LEMMA RequestKeepsProbe == SearchInv /\ RequestStep => ProbeInv' /\ ProviderIsBuilt'
<1> SUFFICES ASSUME SearchInv, RequestStep PROVE ProbeInv' /\ ProviderIsBuilt'
  OBVIOUS
<1>1. Standing /\ probe' = probe /\ ProbeInv /\ ProviderIsBuilt
  BY DEF SearchInv, RequestStep, BeginRequest, ReadLexicalProfile, ResolveCollection, FindProfile,
         ReadProfile, VerifyCollection, EmbedQuery, CheckLexical, SearchLexical,
         ResolveAgain, QueryVectors, AggregateChart, Refuse, Outage, ProfileRaises, Stay
<1> QED BY <1>1, BackendsStay
       DEF ProbeInv, ProbeProgress, ProbeSees, ProviderIsBuilt, Undisturbed, LeadsTo

-----------------------------------------------------------------------------
(* Steps of the probe                                                       *)

LEMMA ReadsStay ==
    ASSUME ReadsInv, Standing, past' = past, req' = req
    PROVE  ReadsInv'
<1>1. PastIsPresent'
  BY BackendsStay DEF ReadsInv, PastIsPresent
<1>2. \A p, a, t, c : LexicalReadAt(p, a, t, c) => LexicalReadAt(p, a, t, c)'
  BY DEF LexicalReadAt, HasLexical, Answered
<1>3. \A r, a, t : VectorsReadAt(r, a, t) => VectorsReadAt(r, a, t)'
  BY DEF VectorsReadAt, HasVectors, Answered
<1>4. LexicalReads'
  BY <1>2, BackendsStay DEF ReadsInv, LexicalReads
<1>5. SemanticReads'
  BY <1>3, BackendsStay DEF ReadsInv, SemanticReads
<1> QED BY <1>1, <1>4, <1>5 DEF ReadsInv

LEMMA ProbeKeepsRequest == SearchInv /\ ProbeStep => RequestInv' /\ ReadsInv' /\ ProviderIsBuilt'
<1> SUFFICES ASSUME SearchInv, ProbeStep PROVE RequestInv' /\ ReadsInv' /\ ProviderIsBuilt'
  OBVIOUS
<1>1. Standing /\ past' = past /\ req' = req /\ RequestInv /\ ReadsInv /\ ProviderIsBuilt
  BY DEF SearchInv, ProbeStep, BeginProbe, ProbeTargets, ProbeProfile, ProbeSmoke, ProbeResolve,
         ProbeFind, ProbeRead, ProbeCount, ProbeConfig, ProbeOutage, ProbeProfileRaises, StayP
<1>2. Parts' = Parts /\ \A s \in Scopes : Asked(s)' = Asked(s)
  BY <1>1, BackendsStay DEF Parts, Asked
<1>3. "ayah" \in Scopes /\ Parts \subseteq Scopes
  BY DEF Parts, Scopes
<1>4. RequestProgress'
  BY <1>1, <1>2, <1>3, BackendsStay DEF RequestInv, RequestProgress
<1>5. RequestSees'
  BY <1>1, BackendsStay DEF RequestInv, RequestSees, Undisturbed, LeadsTo
<1> QED BY <1>1, <1>4, <1>5, BackendsStay, ReadsStay DEF RequestInv, ProviderIsBuilt

(* A probe that ends says the truth of the backends as they are. *)
LEMMA Ends ==
    ASSUME SearchInv, StayP,
           \/ ProbeRaises
           \/ \E failures \in SUBSET Checks :
                /\ Report(failures)
                /\ Undisturbed(probe) /\ probe.failed \cup failures = {} => Serves
                /\ Undisturbed(probe) /\ ~(probe.failed \cup failures \subseteq Inconclusive)
                     => ~Serves
    PROVE  ProbeInv'
<1>1. /\ probe'.pc = "done" /\ probe'.since = probe.since
      /\ Undisturbed(probe) /\ probe'.outcome = "ready" => Serves
      /\ Undisturbed(probe) /\ ~(probe'.failed \subseteq Inconclusive) => ~Serves
  <2>1. CASE ProbeRaises
    BY <2>1, RaisesResult DEF SearchInv, Inconclusive
  <2>2. CASE ~ProbeRaises
    BY <2>2, ReportResult DEF SearchInv
  <2> QED BY <2>1, <2>2
<1>2. Standing /\ ProbeInv
  BY DEF StayP, SearchInv
<1> QED BY <1>1, <1>2, BackendsStay DEF ProbeInv, ProbeProgress, ProbeSees, Undisturbed, SemanticPcs

(* A probe that goes on has seen what is there. *)
LEMMA GoesOn ==
    ASSUME SearchInv, StayP, probe.pc # "done",
           probe'.pc # "done", probe'.outcome = probe.outcome, probe'.since = probe.since,
           probe'.failed \subseteq Inconclusive,
           Undisturbed(probe) =>
             /\ probe'.pc \in {"smoke", "count"} \cup SemanticPcs =>
                  /\ probe'.lexical \in LexVersions
                  /\ LeadsTo(probe'.lexical) /\ probe'.lexical.compatible
             /\ probe'.pc \in {"count"} \cup SemanticPcs => Hybrid
             /\ probe'.pc \in {"exists", "read", "count", "config"} =>
                  /\ probe'.collection = semServing /\ semServing # NoVersion
                  /\ "qdrant" \in clients
             /\ probe'.pc \in {"count", "config"} => profileFiles[probe'.collection] = "valid"
    PROVE  ProbeInv'
<1>1. ProbeInv /\ Standing
  BY DEF SearchInv, StayP
<1>2. ProbeProgress'
  BY <1>1, BackendsStay DEF ProbeInv, ProbeProgress
<1>3. ProbeSees'
  BY <1>1, BackendsStay DEF ProbeInv, ProbeProgress, ProbeSees, Undisturbed, LeadsTo
<1> QED BY <1>1, <1>2, <1>3, BackendsStay DEF ProbeInv

LEMMA Proceeds ==
    ASSUME SearchInv, NEW pc, NEW failures, Proceed(pc, failures)
    PROVE  /\ probe'.pc = pc /\ probe'.failed = probe.failed \cup failures
           /\ probe'.outcome = probe.outcome /\ probe'.since = probe.since
           /\ probe'.lexical = probe.lexical /\ probe'.collection = probe.collection
BY DEF SearchInv, TypeOK, Probe, Proceed

LEMMA LexicalProbesKeepInv ==
    SearchInv /\ (BeginProbe \/ ProbeTargets \/ ProbeProfile \/ ProbeSmoke) => ProbeInv'
<1> SUFFICES ASSUME SearchInv, BeginProbe \/ ProbeTargets \/ ProbeProfile \/ ProbeSmoke
             PROVE  ProbeInv'
  OBVIOUS
<1>1. StayP /\ Standing /\ ProbeInv /\ probe \in Probe
  BY DEF SearchInv, TypeOK, BeginProbe, ProbeTargets, ProbeProfile, ProbeSmoke, StayP
<1>2. CASE BeginProbe
  <2>1. moves \in Nat
    BY DEF SearchInv, TypeOK
  <2>2. CASE "opensearch" \in clients
    <3>1. /\ probe'.pc = "targets" /\ probe'.outcome = "none" /\ probe'.since = moves
          /\ probe'.failed = {}
      BY <1>2, <2>2 DEF BeginProbe, NewProbe
    <3> QED BY <1>1, <2>1, <2>2, <3>1, BackendsStay
           DEF ProbeInv, ProbeProgress, ProbeSees, SemanticPcs
  <2>3. CASE "opensearch" \notin clients
    <3>1. /\ probe'.pc = "done" /\ probe'.outcome = "not_ready" /\ probe'.since = moves
      BY <1>2, <2>3 DEF BeginProbe, NewProbe
    <3>2. ~Serves
      BY <2>3 DEF Serves, LexicalServes
    <3> QED BY <1>1, <2>1, <3>1, <3>2, BackendsStay
           DEF ProbeInv, ProbeProgress, ProbeSees, SemanticPcs
  <2> QED BY <2>2, <2>3
<1>3. probe.pc # "done" => probe.failed \subseteq Inconclusive
  BY <1>1 DEF ProbeInv, ProbeProgress
<1>4. CASE ProbeTargets
  <2>1. CASE \E v \in LexVersions : LeadsTo(v)
    <3>1. Proceed("profile", {}) /\ probe.pc = "targets"
      BY <1>4, <2>1 DEF ProbeTargets
    <3> QED BY <1>1, <1>3, <3>1, Proceeds, GoesOn DEF SemanticPcs
  <2>2. CASE ~ \E v \in LexVersions : LeadsTo(v)
    <3>1. Report({"alias_single_target"}) /\ ~Serves
      BY <1>4, <2>2 DEF ProbeTargets, Serves, LexicalServes
    <3> QED BY <1>1, <3>1, Ends, SomeChecks
  <2> QED BY <2>1, <2>2
<1>5. CASE ProbeProfile
  <2>1. CASE \E v \in LexVersions : LeadsTo(v)
    <3>1. PICK v \in LexVersions :
            /\ LeadsTo(v) /\ probe.pc = "profile"
            /\ IF v.compatible THEN probe' = [probe EXCEPT !.lexical = v, !.pc = "smoke"]
               ELSE Report({"index_profile_compatible"})
      BY <1>5, <2>1 DEF ProbeProfile
    <3>2. CASE v.compatible
      <4>1. /\ probe'.pc = "smoke" /\ probe'.outcome = probe.outcome
            /\ probe'.since = probe.since /\ probe'.lexical = v /\ probe'.failed = probe.failed
        BY <1>1, <3>1, <3>2 DEF Probe
      <4> QED BY <1>1, <1>3, <3>1, <3>2, <4>1, GoesOn DEF SemanticPcs
    <3>3. CASE ~v.compatible
      <4>1. Report({"index_profile_compatible"}) /\ ~Serves
        BY <3>1, <3>3 DEF Serves, LexicalServes, LeadsTo
      <4> QED BY <1>1, <4>1, Ends, SomeChecks
    <3> QED BY <3>2, <3>3
  <2>2. CASE ~ \E v \in LexVersions : LeadsTo(v)
    <3>1. Report({"opensearch_reachable"}) /\ ~Serves
      BY <1>5, <2>2 DEF ProbeProfile, Serves, LexicalServes
    <3> QED BY <1>1, <3>1, Ends, SomeChecks
  <2> QED BY <2>1, <2>2
<1>6. CASE ProbeSmoke
  <2>1. /\ probe.pc = "smoke"
        /\ Undisturbed(probe) => /\ probe.lexical \in LexVersions
                                 /\ LeadsTo(probe.lexical) /\ probe.lexical.compatible
        /\ "opensearch" \in clients
    BY <1>1, <1>6 DEF ProbeSmoke, ProbeInv, ProbeProgress, ProbeSees
  <2>2. CASE lexAlias = {}
    <3>1. Report({"opensearch_reachable"}) /\ ~Serves
      BY <1>6, <2>2 DEF ProbeSmoke, Serves, LexicalServes, LeadsTo
    <3> QED BY <1>1, <3>1, Ends, SomeChecks
  <2>3. CASE lexAlias # {} /\ Hybrid
    <3>1. PICK misses \in SUBSET {"smoke_query"} : Proceed("resolve", misses)
      BY <1>6, <2>3 DEF ProbeSmoke, Hybrid
    <3>2. probe.failed \cup misses \subseteq Inconclusive
      BY <1>3, <2>1 DEF Inconclusive
    <3> QED BY <1>1, <2>1, <2>3, <3>1, <3>2, Proceeds, GoesOn
  <2>4. CASE lexAlias # {} /\ ~Hybrid
    <3>1. PICK misses \in SUBSET {"smoke_query"} : Report(misses)
      BY <1>6, <2>4 DEF ProbeSmoke, Hybrid
    <3>2. misses \in SUBSET Checks /\ probe.failed \cup misses \subseteq Inconclusive
      BY <1>3, <2>1, SomeChecks DEF Inconclusive
    <3>3. Undisturbed(probe) => Serves
      BY <2>1, <2>4 DEF Serves, LexicalServes
    <3> QED BY <1>1, <3>1, <3>2, <3>3, Ends
  <2> QED BY <2>2, <2>3, <2>4
<1> QED BY <1>2, <1>4, <1>5, <1>6

LEMMA SemanticProbesKeepInv ==
    SearchInv /\ (ProbeResolve \/ ProbeFind \/ ProbeRead \/ ProbeCount \/ ProbeConfig) => ProbeInv'
<1> SUFFICES ASSUME SearchInv,
                    ProbeResolve \/ ProbeFind \/ ProbeRead \/ ProbeCount \/ ProbeConfig
             PROVE  ProbeInv'
  OBVIOUS
<1>1. StayP /\ Standing /\ ProbeInv /\ ProviderIsBuilt /\ probe \in Probe
      /\ probe.pc \in {"count"} \cup SemanticPcs
  BY DEF SearchInv, TypeOK, ProbeResolve, ProbeFind, ProbeRead, ProbeCount, ProbeConfig, StayP,
     SemanticPcs
<1>2. /\ probe.pc # "done" /\ probe.failed \subseteq Inconclusive /\ "opensearch" \in clients
      /\ probe.pc \in {"exists", "read", "count", "config"} /\ Undisturbed(probe) =>
           /\ probe.collection = semServing /\ semServing # NoVersion /\ "qdrant" \in clients
      /\ probe.pc \in {"count", "config"} /\ Undisturbed(probe) =>
           profileFiles[probe.collection] = "valid"
  BY <1>1 DEF ProbeInv, ProbeProgress, ProbeSees, SemanticPcs
<1>3. ASSUME Undisturbed(probe)
      PROVE  /\ Hybrid /\ "provider" \in clients /\ probe.lexical \in LexVersions
             /\ LeadsTo(probe.lexical) /\ probe.lexical.compatible
             /\ \A v \in LexVersions : LeadsTo(v) => v = probe.lexical
  BY <1>1, <1>3 DEF ProbeInv, ProbeSees, ProviderIsBuilt, LeadsTo
(* What another try could change tells nothing. *)
<1>4. ASSUME Report({"qdrant_reachable"}), Undisturbed(probe) => ~Serves PROVE ProbeInv'
  BY <1>1, <1>4, Ends, SomeChecks
<1>5. CASE ProbeResolve
  <2>1. CASE semServing = NoVersion \/ "provider" \notin clients \/ "qdrant" \notin clients
    <3>1. \/ Report({"embedding_provider_configured"}) \/ Report({"qdrant_configured"})
          \/ Report({"qdrant_reachable"})
      BY <1>5, <2>1 DEF ProbeResolve
    <3>2. Undisturbed(probe) => ~Serves
      BY <1>3, <2>1 DEF Serves, SemanticServes
    <3> QED BY <1>1, <3>1, <3>2, Ends, SomeChecks
  <2>2. CASE ~(semServing = NoVersion \/ "provider" \notin clients \/ "qdrant" \notin clients)
    <3>1. /\ probe'.pc = "exists" /\ probe'.outcome = probe.outcome /\ probe'.since = probe.since
          /\ probe'.failed = probe.failed /\ probe'.lexical = probe.lexical
          /\ probe'.collection = semServing
      BY <1>1, <1>5, <2>2 DEF ProbeResolve, Probe
    <3> QED BY <1>1, <1>2, <1>3, <2>2, <3>1, GoesOn
  <2> QED BY <2>1, <2>2
<1>6. CASE ProbeFind
  <2>1. CASE profileFiles[probe.collection] = "absent"
    <3>1. Report({"qdrant_reachable"}) /\ (Undisturbed(probe) => ~Serves)
      BY <1>2, <1>3, <1>6, <2>1 DEF ProbeFind, Serves, SemanticServes
    <3> QED BY <1>4, <3>1
  <2>2. CASE profileFiles[probe.collection] # "absent"
    <3>1. Proceed("read", {}) /\ probe.pc = "exists"
      BY <1>6, <2>2 DEF ProbeFind
    <3> QED BY <1>1, <1>2, <1>3, <3>1, Proceeds, GoesOn
  <2> QED BY <2>1, <2>2
<1>7. CASE ProbeRead
  <2>1. CASE profileFiles[probe.collection] = "invalid"
    <3>1. Report({"qdrant_reachable"}) /\ (Undisturbed(probe) => ~Serves)
      BY <1>2, <1>3, <1>7, <2>1 DEF ProbeRead, Serves, SemanticServes
    <3> QED BY <1>4, <3>1
  <2>2. CASE profileFiles[probe.collection] # "invalid"
    <3>1. Proceed("count", {}) /\ probe.pc = "read" /\ profileFiles[probe.collection] = "valid"
      BY <1>7, <2>2 DEF ProbeRead
    <3> QED BY <1>1, <1>2, <1>3, <3>1, Proceeds, GoesOn
  <2> QED BY <2>1, <2>2
<1>8. CASE ProbeCount
  <2>1. CASE probe.collection \notin semPublished
    <3>1. Report({"qdrant_reachable"}) /\ (Undisturbed(probe) => ~Serves)
      BY <1>2, <1>3, <1>8, <2>1 DEF ProbeCount, Serves, SemanticServes
    <3> QED BY <1>4, <3>1
  <2>2. CASE probe.collection \in semPublished
    <3>1. PICK misses \in SUBSET {"semantic_collection_non_empty"} : Proceed("config", misses)
      BY <1>8, <2>2 DEF ProbeCount
    <3>2. probe.pc = "count" /\ probe.failed \cup misses \subseteq Inconclusive
      BY <1>2, <1>8 DEF ProbeCount, Inconclusive
    <3> QED BY <1>1, <1>2, <1>3, <3>1, <3>2, Proceeds, GoesOn
  <2> QED BY <2>1, <2>2
<1>9. CASE ProbeConfig
  <2>1. CASE probe.collection \notin semPublished
    <3>1. Report({"qdrant_reachable"}) /\ (Undisturbed(probe) => ~Serves)
      BY <1>2, <1>3, <1>9, <2>1 DEF ProbeConfig, Serves, SemanticServes
    <3> QED BY <1>4, <3>1
  <2>2. CASE probe.collection \in semPublished
    <3> DEFINE F == Mismatches(probe.collection, probe.lexical)
    <3>1. Report(F) /\ probe.pc = "config" /\ F \in SUBSET Checks
      BY <1>9, <2>2, SomeChecks DEF ProbeConfig
    <3>2. F = {} <=> Servable(probe.collection, probe.lexical)
      BY DEF Mismatches, Servable
    <3>3. F \cap Inconclusive = {}
      BY DEF Mismatches, Inconclusive
    <3> HIDE DEF F
    <3>4. ASSUME Undisturbed(probe) PROVE F = {} <=> Serves
      BY <1>2, <1>3, <2>2, <3>1, <3>2, <3>4 DEF Serves, LexicalServes, SemanticServes
    <3>5. probe.failed \cup F = {} => F = {}
      OBVIOUS
    <3>6. ~(probe.failed \cup F \subseteq Inconclusive) => F # {}
      BY <1>2
    <3> QED BY <1>1, <3>1, <3>4, <3>5, <3>6, Ends
  <2> QED BY <2>1, <2>2
<1> QED BY <1>5, <1>6, <1>7, <1>8, <1>9

LEMMA ProbeKeepsInv == SearchInv /\ ProbeStep => ProbeInv'
<1> SUFFICES ASSUME SearchInv, ProbeStep PROVE ProbeInv'
  OBVIOUS
<1>1. CASE ProbeOutage
  <2> DEFINE F == {IF probe.pc \in {"targets", "profile", "smoke"} THEN "opensearch_reachable"
                   ELSE "qdrant_reachable"}
  <2>1. F \in SUBSET Checks /\ F # {} /\ F \subseteq Inconclusive
    BY SomeChecks DEF Inconclusive
  <2>2. StayP /\ (Report(F) \/ ProbeRaises) /\ probe.pc # "done"
    BY <1>1 DEF ProbeOutage
  <2> HIDE DEF F
  <2>3. probe.failed \cup F # {} /\ probe.failed \cup F \subseteq Inconclusive
    BY <2>1, <2>2 DEF SearchInv, ProbeInv, ProbeProgress
  <2> QED BY <2>1, <2>2, <2>3, Ends
<1>2. CASE ProbeProfileRaises
  BY <1>2, Ends DEF ProbeProfileRaises
<1> QED BY <1>1, <1>2, LexicalProbesKeepInv, SemanticProbesKeepInv DEF ProbeStep

-----------------------------------------------------------------------------
(* Steps of the operators                                                   *)

(* Whatever an operator does is a move: nobody is undisturbed any more, and
   what is past stays. *)
LEMMA OperatorsKeepInv ==
    SearchInv /\ Operators => RequestInv' /\ ReadsInv' /\ ProbeInv' /\ ProviderIsBuilt'
<1> SUFFICES ASSUME SearchInv, Operators
             PROVE  RequestInv' /\ ReadsInv' /\ ProbeInv' /\ ProviderIsBuilt'
  OBVIOUS
<1>1. /\ policy' = policy /\ clients' = clients /\ moves' = moves + 1 /\ moves \in 0..MaxMoves
      /\ moves' \in 0..MaxMoves /\ req' = req /\ probe' = probe
      /\ past' = [m \in 0..MaxMoves |-> IF m > moves THEN [lex |-> lexAlias', sem |-> semServing']
                                       ELSE past[m]]
  BY MaxMovesAssumption
     DEF Operators, LexicalMove, SemanticMove, SemanticLoss, ForgetProfile, SpoilProfile, Moved,
         settings, SearchInv, TypeOK
<1>2. /\ RequestInv /\ ReadsInv /\ ProbeInv /\ ProviderIsBuilt
      /\ req.since \in 0..MaxMoves /\ req.since <= moves
      /\ probe.since \in Nat /\ probe.since <= moves
  BY MaxMovesAssumption DEF SearchInv, TypeOK, RequestInv, ProbeInv, Request, Probe
<1>3. ~Undisturbed(req)' /\ ~Undisturbed(probe)' /\ req'.since <= moves' /\ probe'.since <= moves'
  BY <1>1, <1>2, MaxMovesAssumption DEF Undisturbed
<1>4. /\ Hybrid' = Hybrid /\ Parts' = Parts /\ Parts \subseteq Scopes /\ "ayah" \in Scopes
      /\ \A s \in Scopes : Asked(s)' = Asked(s)
  BY <1>1 DEF Hybrid, Parts, Scopes, Asked
<1>5. RequestProgress' /\ ProbeProgress'
  BY <1>1, <1>2, <1>4 DEF RequestInv, RequestProgress, ProbeInv, ProbeProgress
<1>6. /\ past'[moves'] = [lex |-> lexAlias', sem |-> semServing']
      /\ \A m \in req.since..moves : past'[m] = past[m] /\ m \in req.since..moves'
  BY <1>1, <1>2, MaxMovesAssumption
<1>7. LexicalReads'
  <2>1. SUFFICES ASSUME req.pc \notin {"profile", "done"} \/ req.outcome = "ok"
                 PROVE  LexicalReads'
    BY <1>1 DEF LexicalReads
  <2>2. PICK p, a, t, c \in req.since..moves : LexicalReadAt(p, a, t, c)
    BY <1>2, <2>1 DEF ReadsInv, LexicalReads
  <2>3. LexicalReadAt(p, a, t, c)'
    BY <1>1, <1>6, <2>2 DEF LexicalReadAt, HasLexical, Answered
  <2> QED BY <1>1, <1>6, <2>3, LexicalReadsAre
<1>8. SemanticReads'
  <2>1. SUFFICES ASSUME Hybrid, req.pc \in Resolved \/ req.outcome = "ok" PROVE SemanticReads'
    BY <1>1, <1>4 DEF SemanticReads
  <2>2. PICK r, a, t \in req.since..moves : VectorsReadAt(r, a, t)
    BY <1>2, <2>1 DEF ReadsInv, SemanticReads
  <2>3. VectorsReadAt(r, a, t)'
    BY <1>1, <1>6, <2>2 DEF VectorsReadAt, HasVectors, Answered
  <2> QED BY <1>1, <1>6, <2>3, SemanticReadsAre
<1> QED BY <1>1, <1>2, <1>3, <1>4, <1>5, <1>6, <1>7, <1>8
       DEF RequestInv, RequestSees, ReadsInv, PastIsPresent, ProbeInv, ProbeSees, ProviderIsBuilt

-----------------------------------------------------------------------------
(* The theorems                                                             *)

LEMMA InitKeepsInv == Init => SearchInv
<1> SUFFICES ASSUME Init PROVE SearchInv
  OBVIOUS
<1>1. /\ req.pc = "done" /\ req.outcome = "none" /\ req.scope = "ayah" /\ req.paid = FALSE
      /\ req.since = 0 /\ moves = 0 /\ moves \in 0..MaxMoves /\ past = Present
      /\ \A s \in Scopes : req.semUsed[s] = {}
  BY MaxMovesAssumption DEF Init, NewRequest
<1>2. probe.pc = "done" /\ probe.outcome = "none" /\ probe.since = 0 /\ probe.failed = {}
  <2>1. probe = [NewProbe EXCEPT !.pc = "done"]
    BY DEF Init
  <2> QED BY <1>1, <2>1 DEF NewProbe
<1>3. ProviderIsBuilt
  BY DEF Init, Hybrid, ProviderIsBuilt
<1>4. RequestInv
  BY <1>1 DEF RequestInv, RequestProgress, RequestSees, SemanticPcs, Resolved, Verified
<1>5. ReadsInv
  BY <1>1 DEF ReadsInv, PastIsPresent, Present, LexicalReads, SemanticReads, Resolved, Verified
<1>6. ProbeInv
  BY <1>1, <1>2 DEF ProbeInv, ProbeProgress, ProbeSees, SemanticPcs
<1> QED BY <1>3, <1>4, <1>5, <1>6, InitTyped DEF SearchInv

LEMMA StutterKeepsInv == SearchInv /\ UNCHANGED vars => SearchInv'
<1> SUFFICES ASSUME SearchInv, UNCHANGED vars PROVE SearchInv'
  OBVIOUS
<1>1. /\ TypeOK' /\ RequestInv /\ ReadsInv /\ ProbeInv /\ ProviderIsBuilt
      /\ Standing /\ req' = req /\ probe' = probe /\ past' = past
  BY StutterTyped DEF SearchInv, vars, Standing, settings, backends
<1>2. Parts' = Parts /\ \A s \in Scopes : Asked(s)' = Asked(s)
  BY <1>1, BackendsStay DEF Parts, Asked
<1>3. "ayah" \in Scopes /\ Parts \subseteq Scopes
  BY DEF Parts, Scopes
<1>4. RequestInv'
  BY <1>1, <1>2, <1>3, BackendsStay
     DEF RequestInv, RequestProgress, RequestSees, Undisturbed, LeadsTo
<1>5. ReadsInv'
  BY <1>1, ReadsStay
<1>6. ProbeInv'
  BY <1>1, BackendsStay DEF ProbeInv, ProbeProgress, ProbeSees, Undisturbed, LeadsTo
<1> QED BY <1>1, <1>4, <1>5, <1>6, BackendsStay DEF SearchInv, ProviderIsBuilt

(* build_search_execute_response and check_search_readiness: what a request
   and a probe have seen is what is there as long as no operator moved, what
   they read was there when they read it, and what they have done they
   remember whatever operators do. *)
THEOREM SearchInvariant == Spec => []SearchInv
<1>1. SearchInv /\ [Next]_vars => SearchInv'
  BY RequestKeepsInv, RequestKeepsReads, RequestKeepsProbe, ProbeKeepsRequest, ProbeKeepsInv,
     OperatorsKeepInv, RequestTyped, ProbeTyped, OperatorsTyped, StutterKeepsInv
     DEF Next, SearchInv
<1> QED BY <1>1, InitKeepsInv, PTL DEF Spec

(* build_search_execute_response never falls back silently to lexical-only: a
   hybrid answer asked both backends for every scope it shows. *)
THEOREM NoFallbackTheorem == Spec => []NoSilentFallback
<1>1. SearchInv => NoSilentFallback
  <2> SUFFICES ASSUME SearchInv, req.outcome = "ok" PROVE NoSilentFallback
    BY DEF NoSilentFallback
  <2>1. /\ \A s \in Parts : Asked(s)
        /\ ~Hybrid => \A s \in Scopes : req.semUsed[s] = {}
    BY DEF SearchInv, RequestInv, RequestProgress
  <2>2. ASSUME NEW s \in Parts, Hybrid PROVE Cardinality(req.semUsed[s]) = 1
    <3>1. PICK v \in SemVersions : req.semUsed[s] = {v}
      BY <2>1, <2>2 DEF Asked
    <3>2. Cardinality({v}) = 1
      BY FS_Singleton
    <3> QED BY <3>1, <3>2
  <2> QED BY <2>1, <2>2 DEF NoSilentFallback, Asked, Hybrid
<1> QED BY <1>1, SearchInvariant, PTL

(* build_search_execute_response: however operators move meanwhile, each part
   of an answer is of a version that served while it was made, none of an
   older one than a part read before it, and the versions its provenance names
   fit each other. *)
THEOREM ForwardTheorem == Spec => []AnswersMoveForward
<1>1. SearchInv => AnswersMoveForward
  <2> SUFFICES ASSUME SearchInv, req.outcome = "ok" PROVE AnswersMoveForward
    BY DEF AnswersMoveForward
  <2>1. ReadsInv /\ RequestProgress /\ Answered
    BY DEF SearchInv, RequestInv, Answered
  <2>2. PICK p, a, t, c \in req.since..moves : LexicalReadAt(p, a, t, c)
    BY <2>1 DEF ReadsInv, LexicalReads
  <2>3. /\ p <= a /\ a <= t /\ t <= c
        /\ past[p].lex = {req.lexical} /\ past[a].lex = req.lexUsed["ayah"]
        /\ req.translations => past[t].lex = req.lexUsed["translation"]
        /\ past[c].lex = req.lexUsed["chart"]
    BY <2>1, <2>2 DEF LexicalReadAt, HasLexical
  <2>4. ASSUME policy = "hybrid_v1"
        PROVE  /\ \E r, b, u \in req.since..moves :
                    /\ r <= b /\ b <= u
                    /\ past[r].sem = req.collection
                    /\ {past[b].sem} = req.semUsed["ayah"]
                    /\ req.translations => {past[u].sem} = req.semUsed["translation"]
               /\ Servable(req.collection, req.lexical)
    <3>1. PICK r, b, u \in req.since..moves : VectorsReadAt(r, b, u)
      BY <2>1, <2>4 DEF ReadsInv, SemanticReads, Hybrid
    <3>2. /\ r <= b /\ b <= u /\ past[r].sem = req.collection
          /\ {past[b].sem} = req.semUsed["ayah"]
          /\ req.translations => {past[u].sem} = req.semUsed["translation"]
      BY <2>1, <3>1 DEF VectorsReadAt, HasVectors
    <3> QED BY <2>1, <2>4, <3>2 DEF RequestProgress, Hybrid
  <2> QED BY <2>3, <2>4 DEF AnswersMoveForward
<1> QED BY <1>1, SearchInvariant, PTL

(* _enforce_semantic_compatibility: while nothing moves, a query is embedded
   only for a collection that can be served. *)
THEOREM PaidTheorem == Spec => []PaidOnlyIfServable
<1>1. SearchInv => PaidOnlyIfServable
  BY DEF SearchInv, RequestInv, RequestSees, SemanticServes, PaidOnlyIfServable
<1> QED BY <1>1, SearchInvariant, PTL

(* check_search_readiness: while nothing moves, ready means that no check
   refuses a request, and a conclusive failed check that none is answered. *)
THEOREM ReadinessTheorem == Spec => []ReadinessPredictsAnswers
<1>1. SearchInv => ReadinessPredictsAnswers
  BY DEF SearchInv, RequestInv, RequestSees, ProbeInv, ProbeSees, ReadinessPredictsAnswers
<1> QED BY <1>1, SearchInvariant, PTL
=============================================================================
