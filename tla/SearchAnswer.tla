---------------------------- MODULE SearchAnswer ----------------------------
(***************************************************************************)
(* What one answer shows: from a corpus snapshot and a request to the      *)
(* blocks of the response (the data of build_search_execute_response in    *)
(* src/services/search_service.py, src/search/retrievers and               *)
(* src/search/response_builder.py).  SearchExecute has the same request's  *)
(* failures and what changes meanwhile; here nothing fails or changes.     *)
(*                                                                         *)
(* What matches a query, in which order and with which score is chosen     *)
(* freely: lexical hits are any documents that pass the filter, a vector   *)
(* search has a similarity for every point that passes.  A list of at most *)
(* CANDIDATE_POOL holds everything of the small corpora used here.         *)
(***************************************************************************)
EXTENDS SearchDocuments, SequencesExt

CONSTANTS
    Snapshots,      \* corpora
    Requests,       \* raw filters and output preferences
    Policies,       \* of SEARCH_RETRIEVAL_POLICY
    Scores,         \* scores of hits
    LanguageOrder,  \* _LANGUAGE_ORDER
    ChartSize,      \* 15 in the code
    DefaultTopK, MaxTopK    \* 10 and 25 in the code

ASSUME AnswerAssumption ==
    /\ \A s \in Snapshots : IsSnapshot(s)
    /\ \A r \in Requests : IsRequest(r)
    /\ Policies \subseteq {"lexical_v1", "hybrid_v1"}
    /\ Scores \subseteq Nat
    /\ DefaultTopK \in 1..MaxTopK /\ MaxTopK \in Nat /\ ChartSize \in Nat \ {0}
    /\ LanguageOrder \in Seq(Nat) /\ IsInjective(LanguageOrder)

Retrievers == {"opensearch_lexical", "qdrant_dense"}

VARIABLES
    snapshot, request, policy,
    pc,
    lexical,        \* documents in the served index
    semantic,       \* documents in the served collection
    filters,        \* SearchFilters of the request
    matched,        \* verses the query matches lexically
    verses, translations,   \* candidates of the two scopes
    chart,          \* surah -> number of matches
    response        \* overall confidence and blocks

inputs == <<snapshot, request, policy>>
vars == <<inputs, pc, lexical, semantic, filters, matched, verses, translations, chart, response>>

NoResponse == [confidence |-> <<0, 1>>, blocks |-> << >>]

Hybrid == policy = "hybrid_v1"

-----------------------------------------------------------------------------
Init ==
    /\ snapshot \in Snapshots
    /\ request \in Requests
    /\ policy \in Policies
    /\ pc = "corpus"
    /\ lexical = {} /\ semantic = {}
    /\ filters = FromRequestFilters(request)
    /\ matched = {}
    /\ verses = << >> /\ translations = << >>
    /\ chart = [s \in {} |-> 0]
    /\ response = NoResponse

(* Both builds of one snapshot.  The semantic one refuses a corpus that is not
   complete: then there is nothing a hybrid search could be answered from. *)
Index ==
    LET documents == Documents(snapshot)
    IN  /\ pc = "corpus"
        /\ documents # {}
        /\ Hybrid => SelectionSucceeds(documents)
        /\ lexical' = Indexed(documents)
        /\ semantic' = IF Hybrid THEN Selected(documents) ELSE {}
        /\ pc' = "verses"
        /\ UNCHANGED <<inputs, filters, matched, verses, translations, chart, response>>

(* _resolve_top_k *)
TopK == IF request.topK = {} THEN DefaultTopK
        ELSE Max({1, Min({MaxTopK} \cup request.topK)})

(* A candidate tells which retrievers found it. *)
Candidate(d, score, hits, nearby) ==
    [doc |-> d, score |-> score,
     by |-> {x \in Retrievers : \/ x = "opensearch_lexical" /\ d \in hits
                                \/ x = "qdrant_dense" /\ d \in nearby}]

(* The candidates a pipeline may return for what its retrievers found, best
   first and no more than most. *)
Candidates(hits, nearby, most) ==
    LET found == hits \cup nearby
        size == IF Cardinality(found) < most THEN Cardinality(found) ELSE most
        rankings == {r \in [1..size -> found] : \A i, j \in 1..size : r[i] = r[j] => i = j}
        scores == {s \in [1..size -> Scores] : \A i, j \in 1..size : i < j => s[j] <= s[i]}
    IN  {[i \in 1..size |-> Candidate(r[i], s[i], hits, nearby)] : r \in rankings, s \in scores}

(* What may match a query under a filter, in either backend. *)
HitSets(f) == SUBSET {d \in lexical : OpenSearchPasses(f, d)}

Nearby(f) == {d \in semantic : QdrantPasses(f, d)}

RetrieveVerses ==
    /\ pc = "verses"
    /\ LET f == QuranAyahScope(filters)
       IN  \E hits \in HitSets(f) :
             /\ matched' = hits
             /\ verses' \in Candidates(hits, Nearby(f), TopK)
    /\ pc' = IF filters.include THEN "translations" ELSE "chart"
    /\ UNCHANGED <<inputs, lexical, semantic, filters, translations, chart, response>>

RetrieveTranslations ==
    /\ pc = "translations"
    /\ LET f == TranslationScope(filters)
       IN  \E hits \in HitSets(f) :
             translations' \in Candidates(hits, Nearby(f), TopK)
    /\ pc' = "chart"
    /\ UNCHANGED <<inputs, lexical, semantic, filters, matched, verses, chart, response>>

(* aggregate_surah_distribution: the fullest buckets of the verse scope. *)
MatchesIn(s) == Cardinality({d \in matched : d.surah = s})

(* Slip: the first surahs that match, not the fullest. *)
ChartedInOrder ==
    LET surahs == {d.surah : d \in matched}
    IN  {s \in surahs : Cardinality({t \in surahs : t < s}) < ChartSize}

Charted ==
    LET surahs == {d.surah : d \in matched}
        fuller(s) == {t \in surahs : \/ MatchesIn(t) > MatchesIn(s)
                                     \/ MatchesIn(t) = MatchesIn(s) /\ t < s}
    IN  {s \in surahs : Cardinality(fuller(s)) < ChartSize}

Chart ==
    /\ pc = "chart"
    /\ chart' = [s \in Charted |-> MatchesIn(s)]
    /\ pc' = "render"
    /\ UNCHANGED <<inputs, lexical, semantic, filters, matched, verses, translations, response>>

-----------------------------------------------------------------------------
(* response_builder.py.  The confidence of a lexical list is a monotone
   function of its best score, which stands for it; that of a hybrid list is
   0.35 + 0.4 * the share both retrievers found. *)

BestScore(c) == IF c = << >> THEN 0 ELSE Max({c[i].score : i \in DOMAIN c})

Agreed(c) == Cardinality({i \in DOMAIN c : c[i].by = Retrievers})

Confidence(c) ==
    IF ~Hybrid THEN <<BestScore(c), 1>>
    ELSE IF c = << >> THEN <<0, 1>>
    ELSE <<35 * Len(c) + 40 * Agreed(c), 100 * Len(c)>>

(* Slip: the overall confidence is that of the verses. *)
OverallOfVerses == Confidence(verses)

Overall == Confidence(verses \o translations)

Items(c) == [i \in DOMAIN c |-> c[i].doc]

ResultBlock(c, language, warnWhenEmpty) ==
    [type |-> "ayah_results", language |-> language, items |-> Items(c),
     confidence |-> Confidence(c), warning |-> warnWhenEmpty /\ c = << >>]

ChartBlock ==
    [type |-> "surah_distribution", language |-> 0, items |-> << >>,
     confidence |-> <<0, 1>>, warning |-> FALSE]

(* Numbers in ascending order, and what a sequence has at these positions.
   sorted, and a comprehension with a condition; SelectSeq and SetToSortSeq, by
   a description that can be reasoned about. *)
InOrder(numbers) ==
    CHOOSE s \in [1..Cardinality(numbers) -> numbers] : \A i, j \in DOMAIN s : i < j => s[i] < s[j]
Picked(c, positions) == [n \in 1..Cardinality(positions) |-> c[InOrder(positions)[n]]]

(* Slip: only languages with a place in the order are listed. *)
KnownLanguages(codes) ==
    Picked(LanguageOrder, {i \in DOMAIN LanguageOrder : LanguageOrder[i] \in codes})

(* _ordered_languages *)
OrderedLanguages(codes) ==
    Picked(LanguageOrder, {i \in DOMAIN LanguageOrder : LanguageOrder[i] \in codes})
        \o InOrder(codes \ ToSet(LanguageOrder))

(* _group_by_language *)
OfLanguage(c, l) == {i \in DOMAIN c : c[i].doc.language = l}
LanguageBlocks(c) ==
    LET codes == OrderedLanguages({c[i].doc.language : i \in DOMAIN c} \ {0})
    IN  [n \in DOMAIN codes |->
           ResultBlock(Picked(c, OfLanguage(c, codes[n])), codes[n], FALSE)]

Blocks ==
    (IF DOMAIN chart # {} THEN <<ChartBlock>> ELSE << >>)
        \o <<ResultBlock(verses, Arabic, TRUE)>> \o LanguageBlocks(translations)

(* A block's order is its position. *)
Render ==
    /\ pc = "render"
    /\ response' = [confidence |-> Overall, blocks |-> Blocks]
    /\ pc' = "done"
    /\ UNCHANGED <<inputs, lexical, semantic, filters, matched, verses, translations, chart>>

Next == Index \/ RetrieveVerses \/ RetrieveTranslations \/ Chart \/ Render

Spec == Init /\ [][Next]_vars

-----------------------------------------------------------------------------
(* Properties *)

(* Of what an answer is made, at each of its steps: every list is one that a
   pipeline may return for its scope, and what is derived from the lists is
   still derived from them when it is shown. *)
AnswerInv ==
    /\ pc \in {"translations", "chart", "render", "done"} =>
         /\ matched \in HitSets(QuranAyahScope(filters))
         /\ verses \in Candidates(matched, Nearby(QuranAyahScope(filters)), TopK)
    /\ \/ translations = << >>
       \/ LET f == TranslationScope(filters)
          IN  /\ pc \in {"chart", "render", "done"}
              /\ \E hits \in HitSets(f) : translations \in Candidates(hits, Nearby(f), TopK)
    /\ pc \in {"render", "done"} => chart = [s \in Charted |-> MatchesIn(s)]
    /\ pc = "done" => response = [confidence |-> Overall, blocks |-> Blocks]

(* select_semantic_documents only counts: what passes its counts still holds,
   of each verse, the Arabic text and every canonical translation, once. *)
CountsStandForCoverage ==
    semantic # {} =>
        \A a \in snapshot.ayahs, s \in SemanticSources :
            Cardinality({d \in semantic : d.ayah = a.global /\ d.source = s}) = 1

(* What an answer to the request can be made of, from its raw values and the
   corpus' own spelling: verses by surah and range; translations of them, unless
   they are switched off, by their own languages and by source.  `languages`,
   `language_codes` and `content_types` are parsed too, and make no difference:
   both scopes overwrite them. *)
CoveredSurahs ==
    LET raw == IF request.surahs.kind = "absent" THEN request.surahIds ELSE request.surahs
    IN  raw.values \cap 1..MaxSurah
CoveredLanguages ==
    LET raw == IF request.translationLanguages.kind = "absent"
               THEN request.translationLanguage ELSE request.translationLanguages
    IN  {v \in raw.values : Fold[v] # 0}
VerseIsCovered(a) ==
    /\ CoveredSurahs = {} \/ a.surah \in CoveredSurahs
    /\ \A n \in request.min : a.global >= n
    /\ \A n \in request.max : a.global <= n
TranslationIsCovered(a, t) ==
    /\ request.include # "false"
    /\ VerseIsCovered(a)
    /\ CoveredLanguages = {} \/ \E v \in CoveredLanguages : Fold[v] = Fold[t.language]
    /\ request.sources.values = {} \/ t.source \in request.sources.values

Covered ==
    {ArabicDocument(a) : a \in {a \in snapshot.ayahs : VerseIsCovered(a)}}
      \cup UNION {{TranslationDocument(a, i) :
                     i \in {j \in DOMAIN a.translations : TranslationIsCovered(a, a.translations[j])}} :
                   a \in snapshot.ayahs}

ScopesSearched ==
    {QuranAyahScope(filters)} \cup {f \in {TranslationScope(filters)} : filters.include}

(* A filter means the same thing in every backend, and the verses are kept
   whatever is asked of the translations.  Of what a backend holds, the scopes
   that are searched cover what the effective fields of the request cover: no
   field restricts one backend only, or the other scope, and surah names are in
   neither, although content_types may ask for them. *)
FiltersMeanTheSame ==
    /\ {d \in lexical : \E f \in ScopesSearched : OpenSearchPasses(f, d)} = lexical \cap Covered
    /\ {d \in semantic : \E f \in ScopesSearched : QdrantPasses(f, d)} = semantic \cap Covered

(* The docstring of SearchFilters (contracts.py:134): `languages` restricts every
   hit.  It does not hold of an answer, not even of its translations, where no
   verse has to be kept: no scope keeps that filter. *)
LanguagesRestrictHits ==
    pc = "done" /\ filters.languages # {} =>
        \A i \in DOMAIN translations : translations[i].doc.language \in filters.languages

Positions(d) ==
    {p \in (DOMAIN response.blocks) \X (1..MaxTopK) :
        /\ p[2] \in DOMAIN response.blocks[p[1]].items
        /\ response.blocks[p[1]].items[p[2]] = d}

(* Grouping loses and repeats nothing: each candidate is shown once, in the
   block of its language, and blocks keep the order of their candidates. *)
CandidatesAreShownOnce ==
    pc = "done" =>
        \A c \in {verses, translations} : \A i, j \in DOMAIN c :
            \E p \in Positions(c[i].doc), q \in Positions(c[j].doc) :
                /\ Positions(c[i].doc) = {p}
                /\ response.blocks[p[1]].language = c[i].doc.language
                /\ p[1] = q[1] /\ i < j => p[2] < q[2]

LessOrEqual(p, q) == p[1] * q[2] <= q[1] * p[2]

(* The overall confidence says no more than the most confident block with
   results and no less than the least confident one. *)
OverallIsBetweenBlocks ==
    pc = "done" =>
        LET shown == {b \in DOMAIN response.blocks : response.blocks[b].items # << >>}
        IN  shown # {} =>
              /\ \E b \in shown : LessOrEqual(response.confidence, response.blocks[b].confidence)
              /\ \E b \in shown : LessOrEqual(response.blocks[b].confidence, response.confidence)

(* The chart, its own request, agrees with the verses shown below it: a surah
   has at least the verses found lexically that are shown, one that is missing
   matches no more often than one that is there, and "no lexical matches" is
   only said, and the chart only left out, when there are none. *)
ChartAgreesWithVerses ==
    pc = "done" =>
        /\ \A s \in {d.surah : d \in matched} :
             LET shown == {i \in DOMAIN verses : /\ verses[i].doc.surah = s
                                                 /\ "opensearch_lexical" \in verses[i].by}
             IN  IF s \in DOMAIN chart THEN Cardinality(shown) <= chart[s]
                 ELSE \A t \in DOMAIN chart : Cardinality(shown) <= chart[t]
        /\ \A b \in DOMAIN response.blocks : response.blocks[b].warning => matched = {}
        /\ (matched = {}) <=> (\A b \in DOMAIN response.blocks :
                                  response.blocks[b].type # "surah_distribution")
=============================================================================
