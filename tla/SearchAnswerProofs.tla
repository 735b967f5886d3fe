-------------------------- MODULE SearchAnswerProofs --------------------------
(***************************************************************************)
(* What select_semantic_documents guarantees, what filters mean and what   *)
(* an answer shows, for every corpus and every request.                    *)
(***************************************************************************)
EXTENDS SearchAnswer, CountingLemmas, FiniteSetTheorems, SequenceTheorems, TLAPS

(* What is indexed comes from the snapshot, and what is embedded was selected
   from all of it. *)
IndicesComeFromSnapshot ==
    /\ snapshot \in Snapshots
    /\ request \in Requests
    /\ filters = FromRequestFilters(request)
    /\ lexical \subseteq Documents(snapshot)
    /\ semantic \subseteq Documents(snapshot)
    /\ semantic # {} => /\ SelectionSucceeds(Documents(snapshot))
                        /\ semantic = Selected(Documents(snapshot))

(* Whatever a backend holds at any step of a search was built from the one
   snapshot. *)
THEOREM Provenance == Spec => []IndicesComeFromSnapshot
<1>1. Init => IndicesComeFromSnapshot
  BY DEF Init, IndicesComeFromSnapshot
<1>2. IndicesComeFromSnapshot /\ [Next]_vars => IndicesComeFromSnapshot'
  <2> SUFFICES ASSUME IndicesComeFromSnapshot, [Next]_vars
               PROVE  IndicesComeFromSnapshot'
    OBVIOUS
  <2> USE DEF IndicesComeFromSnapshot
  <2>1. CASE Index
    <3>1. Hybrid => SelectionSucceeds(Documents(snapshot))
      BY <2>1 DEF Index
    <3>2. lexical' \subseteq Documents(snapshot)
      BY <2>1 DEF Index, Indexed
    <3>3. semantic' = IF Hybrid THEN Selected(Documents(snapshot)) ELSE {}
      BY <2>1 DEF Index
    <3>4. UNCHANGED <<snapshot, request, filters>>
      BY <2>1 DEF Index, inputs
    <3> QED
      BY <3>1, <3>2, <3>3, <3>4 DEF Selected
  <2>2. CASE RetrieveVerses
    BY <2>2 DEF RetrieveVerses, inputs
  <2>3. CASE RetrieveTranslations
    BY <2>3 DEF RetrieveTranslations, inputs
  <2>4. CASE Chart
    BY <2>4 DEF Chart, inputs
  <2>5. CASE Render
    BY <2>5 DEF Render, inputs
  <2>6. CASE UNCHANGED vars
    BY <2>6 DEF vars, inputs
  <2> QED
    BY <2>1, <2>2, <2>3, <2>4, <2>5, <2>6 DEF Next
<1> QED
  BY <1>1, <1>2, PTL DEF Spec

-----------------------------------------------------------------------------
(* Filters *)

(* The range of both dialects, for a document of a verse. *)
LEMMA DialectsAgree ==
    ASSUME NEW f, NEW d
    PROVE  OpenSearchPasses(f, d) <=> QdrantPasses(f, d)
BY DEF OpenSearchPasses, QdrantPasses

(* What documents_from_corpus makes of a snapshot. *)
LEMMA KindsOfDocuments ==
    ASSUME NEW s, NEW d \in Documents(s)
    PROVE  \/ \E a \in s.ayahs : d = ArabicDocument(a)
           \/ \E a \in s.ayahs : \E i \in DOMAIN a.translations : d = TranslationDocument(a, i)
           \/ d.type = "surah_name" /\ d.source = "quran-surah-names"
BY DEF Documents, SurahNameDocuments

(* A document tells which verse, and which of its translations, it is of. *)
LEMMA DocumentsAreOfOneVerse ==
    ASSUME NEW s, IsSnapshot(s), NEW a \in s.ayahs, NEW b \in s.ayahs
    PROVE  /\ ArabicDocument(a) = ArabicDocument(b) => a = b
           /\ \A i, j : TranslationDocument(a, i) = TranslationDocument(b, j) => a = b /\ i = j
           /\ \A i : TranslationDocument(a, i) # ArabicDocument(b)
<1>1. a.global = b.global => a = b
  BY DEF IsSnapshot
<1> QED
  BY <1>1 DEF ArabicDocument, TranslationDocument

(* The restrictions on verses are those of the request in both scopes. *)
LEMMA VerseRestrictions ==
    ASSUME IndicesComeFromSnapshot, NEW a \in snapshot.ayahs, NEW d,
           d.surah = a.surah, d.ayah = a.global
    PROVE  VerseIsCovered(a) <=>
             /\ Allows(filters.surahs, d.surah)
             /\ filters.min \cup filters.max # {} => d.ayah # 0
             /\ \A n \in filters.min : n <= d.ayah
             /\ \A n \in filters.max : d.ayah <= n
<1>1. a.surah \in 1..MaxSurah /\ a.global \in Nat \ {0} /\ MaxSurah \in Nat
  BY AnswerAssumption, VocabularyAssumption DEF IndicesComeFromSnapshot, IsSnapshot
<1>2. IsRequest(request)
  BY AnswerAssumption DEF IndicesComeFromSnapshot
<1>3. filters.min = request.min /\ filters.max = request.max
  BY DEF IndicesComeFromSnapshot, FromRequestFilters
<1>4. filters.surahs = CoveredSurahs
  <2>1. filters.surahs = SurahList(WithFallback(request.surahs, request.surahIds))
    BY DEF IndicesComeFromSnapshot, FromRequestFilters
  <2>2. WithFallback(request.surahs, request.surahIds).values \subseteq Int
    BY <1>2 DEF WithFallback, IsRequest
  <2> QED
    BY <1>1, <2>1, <2>2 DEF SurahList, CoveredSurahs, WithFallback
<1>5. request.min \subseteq Int /\ request.max \subseteq Int
  BY <1>2 DEF IsRequest
<1> QED
  BY <1>1, <1>3, <1>4, <1>5 DEF VerseIsCovered, Allows

(* The languages of the translation scope are those the request names. *)
LEMMA LanguageRestriction ==
    ASSUME IndicesComeFromSnapshot, NEW spelling \in DOMAIN Fold, Fold[spelling] # 0
    PROVE  Allows(filters.translationLanguages, Fold[spelling]) <=>
             \/ CoveredLanguages = {}
             \/ \E v \in CoveredLanguages : Fold[v] = Fold[spelling]
<1>1. filters.translationLanguages =
        FoldedList(WithFallback(request.translationLanguages, request.translationLanguage))
  BY DEF IndicesComeFromSnapshot, FromRequestFilters
<1>2. filters.translationLanguages = {Fold[v] : v \in CoveredLanguages}
  BY <1>1 DEF FoldedList, CoveredLanguages, WithFallback
<1> QED
  BY <1>2 DEF Allows

LEMMA ScopesCoverTheRequest ==
    ASSUME IndicesComeFromSnapshot, NEW d \in Documents(snapshot)
    PROVE  (\E f \in ScopesSearched : OpenSearchPasses(f, d)) <=> d \in Covered
<1> DEFINE q == QuranAyahScope(filters)
           t == TranslationScope(filters)
<1>1. /\ q.types = {"quran_ayah"} /\ q.languages = {} /\ q.sources = {}
      /\ q.surahs = filters.surahs /\ q.min = filters.min /\ q.max = filters.max
  BY DEF QuranAyahScope, IndicesComeFromSnapshot, FromRequestFilters
<1>2. /\ t.types = {"translation"} /\ t.languages = filters.translationLanguages
      /\ t.sources = request.sources.values
      /\ t.surahs = filters.surahs /\ t.min = filters.min /\ t.max = filters.max
  BY DEF TranslationScope, IndicesComeFromSnapshot, FromRequestFilters
<1>3. IsSnapshot(snapshot)
  BY AnswerAssumption DEF IndicesComeFromSnapshot
<1>4. (\E f \in ScopesSearched : OpenSearchPasses(f, d)) <=>
        \/ OpenSearchPasses(q, d)
        \/ request.include # "false" /\ OpenSearchPasses(t, d)
  <2>1. filters.include <=> request.include # "false"
    BY DEF IndicesComeFromSnapshot, FromRequestFilters
  <2> QED
    BY <2>1 DEF ScopesSearched
<1> HIDE DEF q, t
<1>5. CASE \E a \in snapshot.ayahs : d = ArabicDocument(a)
  <2>1. PICK a \in snapshot.ayahs : d = ArabicDocument(a)
    BY <1>5
  <2>2. d.type = "quran_ayah" /\ d.surah = a.surah /\ d.ayah = a.global
    BY <2>1 DEF ArabicDocument
  <2>3. d \in Covered <=> VerseIsCovered(a)
    BY <1>3, <2>1, DocumentsAreOfOneVerse DEF Covered
  <2>4. ~OpenSearchPasses(t, d)
    BY <1>2, <2>2 DEF OpenSearchPasses, Allows
  <2>5. OpenSearchPasses(q, d) <=> VerseIsCovered(a)
    BY <1>1, <2>2, VerseRestrictions DEF OpenSearchPasses, Allows
  <2> QED
    BY <1>4, <2>3, <2>4, <2>5
<1>6. CASE \E a \in snapshot.ayahs : \E i \in DOMAIN a.translations : d = TranslationDocument(a, i)
  <2>1. PICK a \in snapshot.ayahs : \E i \in DOMAIN a.translations : d = TranslationDocument(a, i)
    BY <1>6
  <2>2. PICK i \in DOMAIN a.translations : d = TranslationDocument(a, i)
    BY <2>1
  <2> DEFINE l == a.translations[i].language
  <2>3. /\ d.type = "translation" /\ d.surah = a.surah /\ d.ayah = a.global
        /\ d.language = Fold[l] /\ d.source = a.translations[i].source
    BY <2>2 DEF TranslationDocument
  <2>4. l \in DOMAIN Fold /\ Fold[l] # 0
    <3> DEFINE R == [source : STRING, language : {k \in DOMAIN Fold : Fold[k] # 0}]
    <3>1. a.translations \in Seq(R)
      BY <1>3 DEF IsSnapshot
    <3> HIDE DEF R
    <3>2. a.translations[i] \in R
      BY <2>2, <3>1
    <3> QED
      BY <3>2 DEF R
  <2>5. d \in Covered <=> TranslationIsCovered(a, a.translations[i])
    BY <1>3, <2>2, DocumentsAreOfOneVerse DEF Covered
  <2>6. ~OpenSearchPasses(q, d)
    BY <1>1, <2>3 DEF OpenSearchPasses, Allows
  <2>7. VerseIsCovered(a) <=> /\ Allows(t.surahs, d.surah)
                              /\ t.min \cup t.max # {} => d.ayah # 0
                              /\ \A n \in t.min : n <= d.ayah
                              /\ \A n \in t.max : d.ayah <= n
    <3>1. VerseIsCovered(a) <=>
            /\ Allows(filters.surahs, d.surah)
            /\ filters.min \cup filters.max # {} => d.ayah # 0
            /\ \A n \in filters.min : n <= d.ayah
            /\ \A n \in filters.max : d.ayah <= n
      BY <2>3, VerseRestrictions
    <3> QED
      BY <1>2, <3>1
  <2>8. Allows(t.languages, d.language) <=>
          CoveredLanguages = {} \/ \E v \in CoveredLanguages : Fold[v] = Fold[l]
    BY <1>2, <2>3, <2>4, LanguageRestriction
  <2>9. Allows(t.types, d.type)
    BY <1>2, <2>3 DEF Allows
  <2>10. Allows(t.sources, d.source) <=>
           request.sources.values = {} \/ a.translations[i].source \in request.sources.values
    BY <1>2, <2>3 DEF Allows
  <2>11. OpenSearchPasses(t, d) <=>
           /\ VerseIsCovered(a)
           /\ CoveredLanguages = {} \/ \E v \in CoveredLanguages : Fold[v] = Fold[l]
           /\ request.sources.values = {} \/ a.translations[i].source \in request.sources.values
    BY <2>7, <2>8, <2>9, <2>10 DEF OpenSearchPasses
  <2>12. request.include # "false" /\ OpenSearchPasses(t, d)
           <=> TranslationIsCovered(a, a.translations[i])
    BY <2>11 DEF TranslationIsCovered
  <2> QED
    BY <1>4, <2>5, <2>6, <2>12
<1>7. CASE d.type = "surah_name" /\ d.source = "quran-surah-names"
  <2>1. ~OpenSearchPasses(q, d) /\ ~OpenSearchPasses(t, d)
    BY <1>1, <1>2, <1>7 DEF OpenSearchPasses, Allows
  <2>2. d \notin Covered
    BY <1>7 DEF Covered, ArabicDocument, TranslationDocument
  <2> QED
    BY <1>4, <2>1, <2>2
<1> QED
  BY <1>5, <1>6, <1>7, KindsOfDocuments

(* Both backends filter by the same meaning, and what they are searched for is
   what the effective fields of the request cover. *)
THEOREM OneMeaning == Spec => []FiltersMeanTheSame
<1>1. IndicesComeFromSnapshot => FiltersMeanTheSame
  <2> SUFFICES ASSUME IndicesComeFromSnapshot
               PROVE  FiltersMeanTheSame
    OBVIOUS
  <2>1. lexical \subseteq Documents(snapshot) /\ semantic \subseteq Documents(snapshot)
    BY DEF IndicesComeFromSnapshot
  <2> QED
    BY <2>1, ScopesCoverTheRequest, DialectsAgree DEF FiltersMeanTheSame
<1> QED
  BY <1>1, Provenance, PTL

-----------------------------------------------------------------------------
(* Completeness of what is embedded *)

(* The translation documents of one source. *)
Renderings(s, src) == {d \in Documents(s) : d.type = "translation" /\ d.source = src}

(* Without repetitions, a source renders each verse at most once: so its number
   of documents is at most that of the verses, and if they are equal it renders
   every verse. *)
LEMMA AtMostOnePerVerse ==
    ASSUME NEW s, IsSnapshot(s), CorpusIsValid(Documents(s)), NEW src \in SemanticSources
    PROVE  /\ IsFiniteSet(Renderings(s, src))
           /\ Cardinality(Renderings(s, src)) <= Cardinality(s.ayahs)
           /\ Cardinality(Renderings(s, src)) = Cardinality(s.ayahs) =>
                \A a \in s.ayahs : \E d \in Renderings(s, src) : d.ayah = a.global
           /\ \A d, e \in Renderings(s, src) : d.ayah = e.ayah => d = e
<1> DEFINE X == Renderings(s, src)
           f == [d \in X |-> CHOOSE a \in s.ayahs : a.global = d.ayah]
<1>1. \A d \in X : \E a \in s.ayahs : \E i \in DOMAIN a.translations : d = TranslationDocument(a, i)
  BY KindsOfDocuments DEF Renderings, ArabicDocument
<1>2. \A d \in X : \E a \in s.ayahs : d.ayah = a.global /\ d.surah = a.surah
  BY <1>1 DEF TranslationDocument
<1>3. \A d, e \in X : d.ayah = e.ayah => d = e
  <2> SUFFICES ASSUME NEW d \in X, NEW e \in X, d.ayah = e.ayah
               PROVE  d = e
    OBVIOUS
  <2>1. d.surah = e.surah
    BY <1>2 DEF IsSnapshot
  <2>2. d.type = "translation" /\ e.type = "translation" /\ d.source = src /\ e.source = src
    BY DEF Renderings
  <2>3. DocumentId(d) = DocumentId(e)
    BY <2>1, <2>2 DEF DocumentId
  <2>4. d \in Selected(Documents(s)) /\ e \in Selected(Documents(s))
    BY DEF Renderings, Selected
  <2> QED
    BY <2>3, <2>4 DEF CorpusIsValid
<1>4. \A d \in X : f[d] \in s.ayahs /\ f[d].global = d.ayah
  BY <1>2
<1> HIDE DEF X, f
<1>5. f \in [X -> s.ayahs]
  BY <1>4 DEF f
<1>6. \A d, e \in X : f[d] = f[e] => d = e
  BY <1>3, <1>4
<1>7. f \in Injection(X, s.ayahs)
  BY <1>5, <1>6 DEF Injection, IsInjective
<1>8. IsFiniteSet(s.ayahs)
  BY DEF IsSnapshot
<1>9. /\ IsFiniteSet(X)
      /\ Cardinality(X) <= Cardinality(s.ayahs)
      /\ Cardinality(X) = Cardinality(s.ayahs) <=> f \in Surjection(X, s.ayahs)
  BY <1>7, <1>8, FS_Injection
<1>10. f \in Surjection(X, s.ayahs) => \A a \in s.ayahs : \E d \in X : d.ayah = a.global
  BY <1>4 DEF Surjection
<1> QED
  BY <1>3, <1>9, <1>10 DEF X

(* Every verse has one Arabic document. *)
LEMMA OneArabicPerVerse ==
    ASSUME NEW s, IsSnapshot(s)
    PROVE  LET texts == {ArabicDocument(a) : a \in s.ayahs}
           IN  IsFiniteSet(texts) /\ Cardinality(texts) = Cardinality(s.ayahs)
<1> DEFINE texts == {ArabicDocument(a) : a \in s.ayahs}
           g == [a \in s.ayahs |-> ArabicDocument(a)]
<1>1. g \in [s.ayahs -> texts] /\ \A t \in texts : \E a \in s.ayahs : g[a] = t
  OBVIOUS
<1>2. \A a, b \in s.ayahs : g[a] = g[b] => a = b
  BY DocumentsAreOfOneVerse
<1>3. IsFiniteSet(s.ayahs)
  BY DEF IsSnapshot
<1> HIDE DEF g, texts
<1>4. g \in Surjection(s.ayahs, texts) /\ g \in Injection(s.ayahs, texts)
  BY <1>1, <1>2 DEF Surjection, Injection, IsInjective
<1> QED
  BY <1>3, <1>4, FS_Surjection DEF texts

(* The documents of a source are the verses or their renderings in it. *)
LEMMA SourcesOfDocuments ==
    ASSUME NEW s
    PROVE  /\ {d \in Documents(s) : d.source = ArabicSource} =
                {ArabicDocument(a) : a \in s.ayahs} \cup Renderings(s, ArabicSource)
           /\ {ArabicDocument(a) : a \in s.ayahs} \cap Renderings(s, ArabicSource) = {}
           /\ \A src \in CanonicalTranslations :
                {d \in Documents(s) : d.source = src} = Renderings(s, src)
<1>1. \A a \in s.ayahs : /\ ArabicDocument(a) \in Documents(s)
                         /\ ArabicDocument(a).type = "quran_ayah"
                         /\ ArabicDocument(a).source = ArabicSource
  BY DEF Documents, ArabicDocument
<1>2. \A d \in Documents(s) : \/ \E a \in s.ayahs : d = ArabicDocument(a)
                              \/ d.type = "translation"
                              \/ d.source = "quran-surah-names"
  BY KindsOfDocuments DEF TranslationDocument
<1>3. /\ ArabicSource \notin CanonicalTranslations /\ ArabicSource # "quran-surah-names"
      /\ "quran-surah-names" \notin CanonicalTranslations
  BY VocabularyAssumption DEF ArabicSource
<1> QED
  BY <1>1, <1>2, <1>3 DEF Renderings

(* A corpus that is selected has no stray Arabic document, and each of its
   translations has as many documents as there are verses. *)
LEMMA CountsAreThoseOfVerses ==
    ASSUME NEW s, IsSnapshot(s), SelectionSucceeds(Documents(s))
    PROVE  /\ Renderings(s, ArabicSource) = {}
           /\ \A src \in CanonicalTranslations :
                Cardinality(Renderings(s, src)) = Cardinality(s.ayahs)
<1> DEFINE D == Documents(s)
           stray == Renderings(s, ArabicSource)
           texts == {ArabicDocument(a) : a \in s.ayahs}
<1>1. CorpusIsValid(D) /\ CorpusIsComplete(D)
  BY DEF SelectionSucceeds
<1>2. IsFiniteSet(stray)
  BY <1>1, AtMostOnePerVerse DEF SemanticSources
<1>3. IsFiniteSet(texts) /\ Cardinality(texts) = Cardinality(s.ayahs)
  BY OneArabicPerVerse
<1>4. CountOf(D, ArabicSource) = Cardinality(texts \cup stray) /\ texts \cap stray = {}
  BY SourcesOfDocuments DEF CountOf
<1>5. /\ Cardinality(stray) \in Nat /\ Cardinality(s.ayahs) \in Nat
      /\ Cardinality(stray) = 0 <=> stray = {}
  BY <1>2, FS_CardinalityType, FS_EmptySet DEF IsSnapshot
<1>6. CountOf(D, ArabicSource) = Cardinality(s.ayahs) + Cardinality(stray)
  <2>1. Cardinality(texts \cap stray) = 0
    BY <1>4, FS_EmptySet
  <2>2. Cardinality(texts \cup stray)
          = Cardinality(texts) + Cardinality(stray) - Cardinality(texts \cap stray)
    BY <1>2, <1>3, FS_Union
  <2> QED
    BY <1>3, <1>4, <1>5, <2>1, <2>2
<1>7. \A src \in CanonicalTranslations :
        /\ Cardinality(Renderings(s, src)) = CountOf(D, ArabicSource)
        /\ Cardinality(Renderings(s, src)) <= Cardinality(s.ayahs)
  BY <1>1, SourcesOfDocuments, AtMostOnePerVerse DEF CountOf, CorpusIsComplete, SemanticSources
<1>8. PICK src \in CanonicalTranslations : TRUE
  BY VocabularyAssumption
<1>9. Cardinality(stray) = 0
  BY <1>5, <1>6, <1>7, <1>8
<1> QED
  BY <1>5, <1>6, <1>7, <1>9

(* Of every verse, exactly one document of every embedded source. *)
LEMMA EveryVerseFromEverySource ==
    ASSUME NEW s, IsSnapshot(s), SelectionSucceeds(Documents(s)),
           NEW a \in s.ayahs, NEW src \in SemanticSources
    PROVE  \E d : {e \in Selected(Documents(s)) : e.ayah = a.global /\ e.source = src} = {d}
<1>1. \A e \in Selected(Documents(s)) : e \in Documents(s)
  BY DEF Selected
<1>2. CorpusIsValid(Documents(s))
  BY DEF SelectionSucceeds
<1>3. CASE src = ArabicSource
  <2>1. \A e \in Documents(s) : e.source = src => \E b \in s.ayahs : e = ArabicDocument(b)
    BY <1>3, SourcesOfDocuments, CountsAreThoseOfVerses
  <2>2. \A b \in s.ayahs : ArabicDocument(b).ayah = a.global => b = a
    BY DEF ArabicDocument, IsSnapshot
  <2>3. /\ ArabicDocument(a) \in Selected(Documents(s))
        /\ ArabicDocument(a).ayah = a.global /\ ArabicDocument(a).source = src
    BY <1>3 DEF Selected, Documents, ArabicDocument, SemanticSources
  <2> QED
    BY <1>1, <2>1, <2>2, <2>3
<1>4. CASE src \in CanonicalTranslations
  <2>1. \A e \in Documents(s) : e.source = src <=> e \in Renderings(s, src)
    BY <1>4, SourcesOfDocuments DEF Renderings
  <2>2. \A e \in Documents(s) : e.source = src => e \in Selected(Documents(s))
    BY <1>4 DEF Selected, SemanticSources
  <2>3. Cardinality(Renderings(s, src)) = Cardinality(s.ayahs)
    BY <1>4, CountsAreThoseOfVerses
  <2>4. PICK d \in Renderings(s, src) : d.ayah = a.global
    BY <1>2, <2>3, AtMostOnePerVerse
  <2>5. \A e \in Renderings(s, src) : e.ayah = a.global => e = d
    BY <1>2, <2>4, AtMostOnePerVerse
  <2>6. d \in Documents(s)
    BY DEF Renderings
  <2> QED
    BY <1>1, <2>1, <2>2, <2>4, <2>5, <2>6
<1> QED
  BY <1>3, <1>4 DEF SemanticSources

(* What passes the counts of select_semantic_documents covers every verse. *)
THEOREM SelectionIsComplete == Spec => []CountsStandForCoverage
<1>1. IndicesComeFromSnapshot => CountsStandForCoverage
  <2> SUFFICES ASSUME IndicesComeFromSnapshot, semantic # {},
                      NEW a \in snapshot.ayahs, NEW s \in SemanticSources
               PROVE  Cardinality({d \in semantic : d.ayah = a.global /\ d.source = s}) = 1
    BY DEF CountsStandForCoverage
  <2>1. IsSnapshot(snapshot) /\ SelectionSucceeds(Documents(snapshot))
        /\ semantic = Selected(Documents(snapshot))
    BY AnswerAssumption DEF IndicesComeFromSnapshot
  <2>2. \E d : {e \in semantic : e.ayah = a.global /\ e.source = s} = {d}
    BY <2>1, EveryVerseFromEverySource
  <2> QED
    BY <2>2, FS_Singleton
<1> QED
  BY <1>1, Provenance, PTL

-----------------------------------------------------------------------------
(* Numbers in ascending order, and languages in theirs *)

(* InOrder lists every number once. *)
LEMMA InOrderListsAll ==
    ASSUME NEW X, X \subseteq Int, IsFiniteSet(X)
    PROVE  /\ Cardinality(X) \in Nat
           /\ InOrder(X) \in [1..Cardinality(X) -> X]
           /\ \A i, j \in 1..Cardinality(X) : i < j => InOrder(X)[i] < InOrder(X)[j]
           /\ \A i, j \in 1..Cardinality(X) : InOrder(X)[i] = InOrder(X)[j] => i = j
           /\ \A x \in X : \E i \in 1..Cardinality(X) : InOrder(X)[i] = x
<1> DEFINE n == Cardinality(X)
           s == InOrder(X)
<1>1. n \in Nat /\ IsFiniteSet(1..n) /\ Cardinality(1..n) = n
  BY FS_CardinalityType, FS_Interval
<1>2. \E t \in [1..n -> X] : \A i, j \in DOMAIN t : i < j => t[i] < t[j]
  BY AscendingListing
<1>3. s \in [1..n -> X] /\ \A i, j \in DOMAIN s : i < j => s[i] < s[j]
  BY <1>2 DEF InOrder
<1> HIDE DEF s
<1>4. \A i, j \in 1..n : i < j => s[i] < s[j]
  BY <1>3
<1>5. \A i, j \in 1..n : s[i] = s[j] => i = j
  <2> SUFFICES ASSUME NEW i \in 1..n, NEW j \in 1..n, s[i] = s[j], i # j
               PROVE  FALSE
    OBVIOUS
  <2>1. i < j \/ j < i
    BY <1>1
  <2>2. s[i] \in Int
    BY <1>3
  <2> QED
    BY <1>4, <2>1, <2>2
<1> HIDE DEF n
<1>6. s \in Injection(1..n, X)
  BY <1>3, <1>5 DEF Injection, IsInjective
<1>7. Cardinality(1..n) = Cardinality(X)
  BY <1>1 DEF n
<1>8. s \in Surjection(1..n, X)
  BY <1>6, <1>7, FS_Injection
<1>9. \A x \in X : \E i \in 1..n : s[i] = x
  BY <1>8 DEF Surjection
<1> QED
  BY <1>1, <1>3, <1>4, <1>5, <1>9 DEF n, s

(* What is picked from a sequence is at the positions asked for, in order. *)
LEMMA PickedInOrder ==
    ASSUME NEW S, NEW c \in Seq(S), NEW X \in SUBSET DOMAIN c
    PROVE  /\ IsFiniteSet(X) /\ X \subseteq Nat /\ Cardinality(X) \in Nat
           /\ Picked(c, X) \in Seq(S)
           /\ Len(Picked(c, X)) = Cardinality(X)
           /\ DOMAIN Picked(c, X) = 1..Cardinality(X)
           /\ \A i \in 1..Cardinality(X) : /\ InOrder(X)[i] \in X
                                           /\ Picked(c, X)[i] = c[InOrder(X)[i]]
<1>1. Len(c) \in Nat /\ DOMAIN c = 1..Len(c) /\ \A i \in DOMAIN c : c[i] \in S
  OBVIOUS
<1>2. IsFiniteSet(X) /\ X \subseteq Nat
  <2>1. IsFiniteSet(1..Len(c)) /\ X \in SUBSET (1..Len(c))
    BY <1>1, FS_Interval
  <2>2. IsFiniteSet(X)
    BY <2>1, FS_Subset
  <2>3. \A x \in X : x \in Nat
    BY <1>1, <2>1
  <2> QED
    BY <2>2, <2>3
<1>3. /\ Cardinality(X) \in Nat
      /\ InOrder(X) \in [1..Cardinality(X) -> X]
  BY <1>2, InOrderListsAll
<1>4. \A i \in 1..Cardinality(X) : InOrder(X)[i] \in X /\ c[InOrder(X)[i]] \in S
  BY <1>1, <1>3
<1>5. Picked(c, X) = [i \in 1..Cardinality(X) |-> c[InOrder(X)[i]]]
  BY DEF Picked
<1>6. Picked(c, X) \in [1..Cardinality(X) -> S]
  BY <1>4, <1>5
<1>7. Picked(c, X) \in Seq(S) /\ Len(Picked(c, X)) = Cardinality(X)
  BY <1>3, <1>6
<1> QED
  BY <1>2, <1>3, <1>4, <1>5, <1>7

(* Every language has one block. *)
LEMMA LanguagesHaveOnePlace ==
    ASSUME NEW codes, codes \subseteq Nat, IsFiniteSet(codes)
    PROVE  LET order == OrderedLanguages(codes)
           IN  /\ order \in Seq(codes)
               /\ \A i, j \in DOMAIN order : order[i] = order[j] => i = j
               /\ \A l \in codes : \E i \in DOMAIN order : order[i] = l
<1> DEFINE places == {i \in DOMAIN LanguageOrder : LanguageOrder[i] \in codes}
           rest == codes \ ToSet(LanguageOrder)
           p == Picked(LanguageOrder, places)
           r == InOrder(rest)
           n == Cardinality(places)
           k == Cardinality(rest)
           order == OrderedLanguages(codes)
<1>1. /\ LanguageOrder \in Seq(Nat)
      /\ \A i, j \in DOMAIN LanguageOrder : LanguageOrder[i] = LanguageOrder[j] => i = j
  BY AnswerAssumption DEF IsInjective
<1>2. places \in SUBSET DOMAIN LanguageOrder /\ rest \in SUBSET codes
  OBVIOUS
<1>3. IsFiniteSet(rest) /\ rest \subseteq Int
  <2>1. IsFiniteSet(rest)
    BY <1>2, FS_Subset
  <2>2. \A x \in rest : x \in Int
    OBVIOUS
  <2> QED
    BY <2>1, <2>2
<1>4. order = p \o r
  BY DEF OrderedLanguages
<1>5. \A l \in codes : l \in rest \/ \E i \in places : LanguageOrder[i] = l
  BY DEF ToSet
<1>6. \A l \in rest : \A i \in places : LanguageOrder[i] # l
  BY DEF ToSet
<1>7. \A i \in places : LanguageOrder[i] \in codes
  OBVIOUS
<1> HIDE DEF places, rest
<1>8. /\ IsFiniteSet(places) /\ places \subseteq Nat /\ n \in Nat
      /\ Len(p) = n /\ p \in Seq(Nat)
      /\ \A i \in 1..n : InOrder(places)[i] \in places /\ p[i] = LanguageOrder[InOrder(places)[i]]
  BY <1>1, <1>2, PickedInOrder
<1>9. /\ k \in Nat /\ r \in [1..k -> rest]
      /\ \A i, j \in 1..k : r[i] = r[j] => i = j
      /\ \A l \in rest : \E i \in 1..k : r[i] = l
  BY <1>3, InOrderListsAll
<1>10. /\ \A i, j \in 1..n : InOrder(places)[i] = InOrder(places)[j] => i = j
       /\ \A x \in places : \E i \in 1..n : InOrder(places)[i] = x
  <2>1. IsFiniteSet(places) /\ places \subseteq Int
    BY <1>8
  <2> QED
    BY <2>1, InOrderListsAll
<1> HIDE DEF p, r, n, k, order
<1>11. \A i \in 1..n : p[i] \in codes
  BY <1>7, <1>8
<1> DEFINE q(i) == InOrder(places)[i]
<1>0. /\ \A i \in 1..n : q(i) \in places /\ p[i] = LanguageOrder[q(i)]
      /\ \A x \in places : \E i \in 1..n : q(i) = x
      /\ \A i, j \in 1..n : q(i) = q(j) => i = j
  BY <1>8, <1>10
<1> HIDE DEF q
<1>12. \A i, j \in 1..n : p[i] = p[j] => i = j
  <2> SUFFICES ASSUME NEW i \in 1..n, NEW j \in 1..n, p[i] = p[j]
               PROVE  i = j
    OBVIOUS
  <2>1. q(i) \in DOMAIN LanguageOrder /\ q(j) \in DOMAIN LanguageOrder
    <3> HIDE DEF places
    <3> QED
      BY <1>0, <1>2
  <2>2. q(i) = q(j)
    BY <1>0, <1>1, <2>1
  <2> QED
    BY <1>0, <2>2
<1>13. /\ DOMAIN r = 1..k
       /\ \A j \in 1..k : r[j] \in rest /\ r[j] \in codes
  <2>1. DOMAIN r = 1..k /\ \A j \in 1..k : r[j] \in rest
    BY <1>9
  <2> QED
    BY <1>2, <2>1
<1>14. \A i \in 1..n : \A j \in 1..k : p[i] # r[j]
  BY <1>0, <1>6, <1>13
<1>15. \A l \in codes : (\E i \in 1..n : p[i] = l) \/ (\E j \in 1..k : r[j] = l)
  <2> SUFFICES ASSUME NEW l \in codes
               PROVE  (\E i \in 1..n : p[i] = l) \/ (\E j \in 1..k : r[j] = l)
    OBVIOUS
  <2>1. CASE l \in rest
    BY <1>9, <2>1
  <2>2. CASE \E x \in places : LanguageOrder[x] = l
    BY <1>0, <2>2
  <2> QED
    BY <1>5, <2>1, <2>2
<1>16. r \in Seq(codes) /\ Len(r) = k /\ p \in Seq(codes) /\ Len(p) = n
  <2>1. r \in [1..k -> codes]
    <3>1. r = [j \in 1..k |-> r[j]]
      BY <1>9
    <3> QED
      BY <1>13, <3>1
  <2>2. r \in Seq(codes) /\ Len(r) = k
    BY <1>9, <2>1
  <2>3. p \in Seq(codes)
    BY <1>8, <1>11
  <2> QED
    BY <1>8, <2>2, <2>3
<1>17. /\ order \in Seq(codes) /\ Len(order) = n + k
       /\ \A i \in 1..n : order[i] = p[i]
       /\ \A j \in 1..k : order[n + j] = r[j]
  <2>1. \A i \in 1..(n + k) : order[i] = IF i <= n THEN p[i] ELSE r[i - n]
    BY <1>4, <1>16, ConcatProperties
  <2>2. order \in Seq(codes) /\ Len(order) = n + k
    BY <1>4, <1>16, ConcatProperties
  <2>3. \A i \in 1..n : i \in 1..(n + k) /\ i <= n
    BY <1>8, <1>9
  <2>4. \A j \in 1..k : n + j \in 1..(n + k) /\ ~(n + j <= n) /\ (n + j) - n = j
    BY <1>8, <1>9
  <2> QED
    BY <2>1, <2>2, <2>3, <2>4
<1>18. \A i \in 1..(n + k) : i \in 1..n \/ (i - n \in 1..k /\ n + (i - n) = i)
  BY <1>8, <1>9
<1>19. DOMAIN order = 1..(n + k)
  BY <1>17
<1>20. \A i, j \in DOMAIN order : order[i] = order[j] => i = j
  <2> SUFFICES ASSUME NEW i \in 1..(n + k), NEW j \in 1..(n + k), order[i] = order[j]
               PROVE  i = j
    BY <1>19
  <2>1. CASE i \in 1..n /\ j \in 1..n
    BY <1>12, <1>17, <2>1
  <2>2. CASE i \in 1..n /\ j \notin 1..n
    BY <1>14, <1>17, <1>18, <2>2
  <2>3. CASE i \notin 1..n /\ j \in 1..n
    BY <1>14, <1>17, <1>18, <2>3
  <2>4. CASE i \notin 1..n /\ j \notin 1..n
    <3>1. /\ i - n \in 1..k /\ j - n \in 1..k
          /\ order[i] = r[i - n] /\ order[j] = r[j - n]
      BY <1>17, <1>18, <2>4
    <3>2. i - n = j - n
      BY <1>9, <3>1
    <3> QED
      BY <1>8, <1>9, <3>2
  <2> QED
    BY <2>1, <2>2, <2>3, <2>4
<1>21. \A l \in codes : \E i \in DOMAIN order : order[i] = l
  <2>1. \A i \in 1..n : i \in DOMAIN order
    BY <1>8, <1>9, <1>19
  <2>2. \A j \in 1..k : n + j \in DOMAIN order
    BY <1>8, <1>9, <1>19
  <2> QED
    BY <1>15, <1>17, <2>1, <2>2
<1> QED
  BY <1>17, <1>20, <1>21 DEF order

(* One request asks for at most what fits, and for something. *)
LEMMA TopKIsInRange ==
    ASSUME IsRequest(request)
    PROVE  TopK \in 1..MaxTopK
<1>1. DefaultTopK \in 1..MaxTopK /\ MaxTopK \in Nat
  BY AnswerAssumption
<1>2. CASE request.topK = {}
  BY <1>1, <1>2 DEF TopK
<1>3. CASE request.topK # {}
  <2>1. PICK k \in Int : request.topK = {k}
    BY <1>3 DEF IsRequest
  <2> DEFINE low == Min({MaxTopK} \cup {k})
  <2>2. low = IF k < MaxTopK THEN k ELSE MaxTopK
    <3>1. \E x \in {MaxTopK, k} : \A y \in {MaxTopK, k} : x <= y
      BY <1>1, <2>1
    <3>2. low \in {MaxTopK, k} /\ \A y \in {MaxTopK, k} : low <= y
      BY <3>1 DEF Min
    <3> HIDE DEF low
    <3> QED
      BY <1>1, <2>1, <3>2
  <2>3. TopK = Max({1, low})
    BY <1>3, <2>1 DEF TopK
  <2> HIDE DEF low
  <2>4. low \in Int /\ low <= MaxTopK
    BY <1>1, <2>1, <2>2
  <2>5. TopK \in {1, low} /\ \A y \in {1, low} : TopK >= y
    <3>1. \E x \in {1, low} : \A y \in {1, low} : x >= y
      BY <2>4
    <3> QED
      BY <2>3, <3>1 DEF Max
  <2>6. 1 <= MaxTopK
    BY <1>1
  <2> QED
    BY <1>1, <2>4, <2>5, <2>6
<1> QED
  BY <1>2, <1>3

-----------------------------------------------------------------------------
(* What is found is finite, and nothing is found twice *)

(* A list has only what was found, each once, and tells by whom; it has nothing
   only when nothing was found ... *)
WereFound(c, hits, nearby, most) ==
    /\ c \in Seq([doc : hits \cup nearby, score : Scores, by : SUBSET Retrievers])
    /\ Len(c) <= most
    /\ \A i \in DOMAIN c : /\ c[i].doc \in hits \cup nearby
                           /\ "opensearch_lexical" \in c[i].by <=> c[i].doc \in hits
    /\ \A i, j \in DOMAIN c : c[i].doc = c[j].doc => i = j
    /\ c = << >> => hits = {}

(* ... which is so of every list that Candidates admits. *)
LEMMA CandidatesWereFound ==
    ASSUME NEW hits, NEW nearby, IsFiniteSet(hits), IsFiniteSet(nearby),
           NEW most \in Nat \ {0}, NEW c, c \in Candidates(hits, nearby, most)
    PROVE  WereFound(c, hits, nearby, most)
<1> DEFINE found == hits \cup nearby
           size == IF Cardinality(found) < most THEN Cardinality(found) ELSE most
<1>1. IsFiniteSet(found)
  BY FS_Union
<1>2. Cardinality(found) \in Nat /\ (Cardinality(found) = 0 <=> found = {})
  BY <1>1, FS_CardinalityType, FS_EmptySet
<1>3. size \in Nat /\ size <= most /\ (size = 0 => hits = {})
  BY <1>2
<1> DEFINE rankings == {r \in [1..size -> found] : \A i, j \in 1..size : r[i] = r[j] => i = j}
           scores == {s \in [1..size -> Scores] : \A i, j \in 1..size : i < j => s[j] <= s[i]}
           listed(r, s) == [i \in 1..size |-> Candidate(r[i], s[i], hits, nearby)]
<1>a. \E r \in rankings, s \in scores : c = listed(r, s)
  <2>0. Candidates(hits, nearby, most) = {listed(r, s) : r \in rankings, s \in scores}
    BY DEF Candidates
  <2> HIDE DEF listed, rankings, scores
  <2> QED
    BY <2>0
<1>b. PICK r \in rankings, s \in scores :
        c = [i \in 1..size |-> Candidate(r[i], s[i], hits, nearby)]
  BY <1>a
<1>4. /\ r \in [1..size -> found] /\ s \in [1..size -> Scores]
      /\ \A i, j \in 1..size : r[i] = r[j] => i = j
      /\ c = [i \in 1..size |-> Candidate(r[i], s[i], hits, nearby)]
  BY <1>b
<1> HIDE DEF size, found, rankings, scores
<1>5. DOMAIN c = 1..size /\ \A i \in 1..size : r[i] \in found /\ s[i] \in Scores
  BY <1>4
<1>6. \A i \in 1..size :
        /\ c[i].doc = r[i]
        /\ c[i] \in [doc : found, score : Scores, by : SUBSET Retrievers]
        /\ "opensearch_lexical" \in c[i].by <=> r[i] \in hits
  <2> SUFFICES ASSUME NEW i \in 1..size
               PROVE  /\ c[i].doc = r[i]
                      /\ c[i] \in [doc : found, score : Scores, by : SUBSET Retrievers]
                      /\ "opensearch_lexical" \in c[i].by <=> r[i] \in hits
    OBVIOUS
  <2> DEFINE by == {x \in Retrievers : \/ x = "opensearch_lexical" /\ r[i] \in hits
                                       \/ x = "qdrant_dense" /\ r[i] \in nearby}
  <2>1. by \in SUBSET Retrievers /\ ("opensearch_lexical" \in by <=> r[i] \in hits)
    BY DEF Retrievers
  <2>2. c[i] = [doc |-> r[i], score |-> s[i], by |-> by]
    BY <1>4 DEF Candidate
  <2> HIDE DEF by
  <2> QED
    BY <1>5, <2>1, <2>2
<1>7. c \in [1..size -> [doc : found, score : Scores, by : SUBSET Retrievers]]
  <2> DEFINE R == [doc : found, score : Scores, by : SUBSET Retrievers]
  <2>1. c = [i \in 1..size |-> c[i]]
    BY <1>4
  <2>2. \A i \in 1..size : c[i] \in R
    BY <1>6
  <2> HIDE DEF R
  <2>3. c \in [1..size -> R]
    BY <2>1, <2>2
  <2> QED
    BY <2>3 DEF R
<1>8. /\ c \in Seq([doc : found, score : Scores, by : SUBSET Retrievers])
      /\ Len(c) = size
  <2> DEFINE R == [doc : found, score : Scores, by : SUBSET Retrievers]
  <2>1. c \in [1..size -> R]
    BY <1>7
  <2> HIDE DEF R
  <2>2. c \in Seq(R) /\ Len(c) = size
    BY <1>3, <2>1
  <2> QED
    BY <2>2 DEF R
<1>9. c = << >> => hits = {}
  <2>1. Len(<< >>) = 0
    OBVIOUS
  <2>2. c = << >> => size = 0
    BY <1>8, <2>1
  <2> QED
    BY <1>3, <2>2
<1>10. DOMAIN c = 1..size /\ \A i \in DOMAIN c : r[i] \in found
  BY <1>5
<1>11. /\ \A i \in DOMAIN c : /\ c[i].doc \in found
                              /\ "opensearch_lexical" \in c[i].by <=> c[i].doc \in hits
       /\ \A i, j \in DOMAIN c : c[i].doc = c[j].doc => i = j
  BY <1>4, <1>6, <1>10
<1>12. Len(c) <= most
  BY <1>3, <1>8
<1> QED
  BY <1>8, <1>9, <1>11, <1>12 DEF found, WereFound

(* All but the names of surahs: finitely many documents. *)
LEMMA DocumentsOfVersesAreFinite ==
    ASSUME NEW s, IsSnapshot(s)
    PROVE  IsFiniteSet({d \in Documents(s) : d.type # "surah_name"})
<1> DEFINE renderings(a) == {TranslationDocument(a, i) : i \in DOMAIN a.translations}
           texts(a) == {ArabicDocument(a)} \cup renderings(a)
           T == [a \in s.ayahs |-> texts(a)]
           all == {T[a] : a \in s.ayahs}
<1>1. \A a \in s.ayahs : IsFiniteSet(texts(a))
  <2> SUFFICES ASSUME NEW a \in s.ayahs
               PROVE  IsFiniteSet(texts(a))
    OBVIOUS
  <2> DEFINE f == [i \in DOMAIN a.translations |-> TranslationDocument(a, i)]
  <2>1. Len(a.translations) \in Nat /\ DOMAIN a.translations = 1..Len(a.translations)
    <3> DEFINE R == [source : STRING, language : {l \in DOMAIN Fold : Fold[l] # 0}]
    <3>1. a.translations \in Seq(R)
      BY DEF IsSnapshot
    <3> HIDE DEF R
    <3> QED
      BY <3>1
  <2>2. IsFiniteSet(DOMAIN a.translations)
    BY <2>1, FS_Interval
  <2>3. IsFiniteSet({f[i] : i \in DOMAIN a.translations})
    <3> HIDE DEF f
    <3> QED
      BY <2>2, ImageIsFinite
  <2>4. {f[i] : i \in DOMAIN a.translations} = renderings(a)
    OBVIOUS
  <2>5. IsFiniteSet({ArabicDocument(a)})
    BY FS_Singleton
  <2> QED
    BY <2>3, <2>4, <2>5, FS_Union
<1>2. IsFiniteSet(all)
  <2>1. IsFiniteSet(s.ayahs)
    BY DEF IsSnapshot
  <2> HIDE DEF T
  <2> QED
    BY <2>1, ImageIsFinite
<1>3. \A X \in all : IsFiniteSet(X)
  BY <1>1
<1>4. IsFiniteSet(UNION all)
  <2> HIDE DEF all
  <2> QED
    BY <1>2, <1>3, FS_UNION
<1>5. \A d \in Documents(s) : d.type # "surah_name" => d \in UNION all
  <2> SUFFICES ASSUME NEW d \in Documents(s), d.type # "surah_name"
               PROVE  \E a \in s.ayahs : d \in texts(a)
    OBVIOUS
  <2> QED
    BY KindsOfDocuments
<1>6. {d \in Documents(s) : d.type # "surah_name"} \in SUBSET UNION all
  <2> HIDE DEF all
  <2> QED
    BY <1>5
<1> QED
  BY <1>4, <1>6, FS_Subset

(* What a scope lets through, in either backend. *)
LEMMA ScopesAreFinite ==
    ASSUME IndicesComeFromSnapshot
    PROVE  /\ \A f \in {QuranAyahScope(filters), TranslationScope(filters)} :
                /\ IsFiniteSet({d \in lexical : OpenSearchPasses(f, d)})
                /\ IsFiniteSet(Nearby(f))
           /\ \A d : /\ OpenSearchPasses(QuranAyahScope(filters), d) => d.type = "quran_ayah"
                     /\ QdrantPasses(QuranAyahScope(filters), d) => d.type = "quran_ayah"
                     /\ OpenSearchPasses(TranslationScope(filters), d) => d.type = "translation"
                     /\ QdrantPasses(TranslationScope(filters), d) => d.type = "translation"
<1>1. /\ QuranAyahScope(filters).types = {"quran_ayah"}
      /\ TranslationScope(filters).types = {"translation"}
  BY DEF QuranAyahScope, TranslationScope, IndicesComeFromSnapshot, FromRequestFilters
<1>2. \A d : /\ OpenSearchPasses(QuranAyahScope(filters), d) => d.type = "quran_ayah"
             /\ QdrantPasses(QuranAyahScope(filters), d) => d.type = "quran_ayah"
             /\ OpenSearchPasses(TranslationScope(filters), d) => d.type = "translation"
             /\ QdrantPasses(TranslationScope(filters), d) => d.type = "translation"
  BY <1>1 DEF OpenSearchPasses, QdrantPasses, Allows
<1> DEFINE D == {d \in Documents(snapshot) : d.type # "surah_name"}
<1>3. IsFiniteSet(D)
  BY AnswerAssumption, DocumentsOfVersesAreFinite DEF IndicesComeFromSnapshot
<1>4. \A f \in {QuranAyahScope(filters), TranslationScope(filters)} :
        /\ {d \in lexical : OpenSearchPasses(f, d)} \in SUBSET D
        /\ Nearby(f) \in SUBSET D
  BY <1>2 DEF IndicesComeFromSnapshot, Nearby
<1> HIDE DEF D
<1>5. \A f \in {QuranAyahScope(filters), TranslationScope(filters)} :
        /\ IsFiniteSet({d \in lexical : OpenSearchPasses(f, d)})
        /\ IsFiniteSet(Nearby(f))
  <2> SUFFICES ASSUME NEW f \in {QuranAyahScope(filters), TranslationScope(filters)}
               PROVE  /\ IsFiniteSet({d \in lexical : OpenSearchPasses(f, d)})
                      /\ IsFiniteSet(Nearby(f))
    OBVIOUS
  <2> DEFINE H == {d \in lexical : OpenSearchPasses(f, d)}
  <2>1. H \in SUBSET D /\ Nearby(f) \in SUBSET D
    BY <1>4
  <2> HIDE DEF H
  <2>2. IsFiniteSet(H) /\ IsFiniteSet(Nearby(f))
    BY <1>3, <2>1, FS_Subset
  <2> QED
    BY <2>2 DEF H
<1> QED
  BY <1>2, <1>5

-----------------------------------------------------------------------------
(* The steps of an answer *)

(* What the indices hold of a scope, and how much is asked for, stays while
   they and the request do. *)
LEMMA ScopesStay ==
    ASSUME lexical' = lexical, semantic' = semantic, filters' = filters, request' = request
    PROVE  /\ TopK' = TopK
           /\ HitSets(QuranAyahScope(filters))' = HitSets(QuranAyahScope(filters))
           /\ HitSets(TranslationScope(filters))' = HitSets(TranslationScope(filters))
           /\ Nearby(QuranAyahScope(filters))' = Nearby(QuranAyahScope(filters))
           /\ Nearby(TranslationScope(filters))' = Nearby(TranslationScope(filters))
<1>1. TopK' = TopK
  BY DEF TopK
<1>2. /\ QuranAyahScope(filters)' = QuranAyahScope(filters)
      /\ TranslationScope(filters)' = TranslationScope(filters)
  OBVIOUS
<1>3. /\ HitSets(QuranAyahScope(filters))' = HitSets(QuranAyahScope(filters))
      /\ HitSets(TranslationScope(filters))' = HitSets(TranslationScope(filters))
  BY DEF HitSets
<1>4. /\ Nearby(QuranAyahScope(filters))' = Nearby(QuranAyahScope(filters))
      /\ Nearby(TranslationScope(filters))' = Nearby(TranslationScope(filters))
  BY DEF Nearby
<1> QED
  BY <1>1, <1>3, <1>4

(* The chart is a function of what matched. *)
LEMMA ChartStays ==
    ASSUME matched' = matched
    PROVE  [s \in Charted |-> MatchesIn(s)]' = [s \in Charted |-> MatchesIn(s)]
<1>1. \A s : MatchesIn(s)' = MatchesIn(s)
  BY DEF MatchesIn
<1>2. Charted' = Charted
  BY <1>1 DEF Charted
<1> QED
  BY <1>1, <1>2

(* The answer is a function of the lists, the chart and the policy. *)
LEMMA AnswerStays ==
    ASSUME verses' = verses, translations' = translations, chart' = chart, policy' = policy
    PROVE  Overall' = Overall /\ Blocks' = Blocks
<1>1. Hybrid' <=> Hybrid
  BY DEF Hybrid
<1>2. \A c : Confidence(c)' = Confidence(c)
  BY <1>1 DEF Confidence
<1>3. Overall' = Overall
  BY <1>2 DEF Overall
<1>4. \A c, l, w : ResultBlock(c, l, w)' = ResultBlock(c, l, w)
  BY <1>2 DEF ResultBlock
<1>5. \A c : LanguageBlocks(c)' = LanguageBlocks(c)
  BY <1>4 DEF LanguageBlocks
<1>6. Blocks' = Blocks
  BY <1>4, <1>5 DEF Blocks
<1> QED
  BY <1>3, <1>6

(* Every list of an answer is one its scope may give, the chart counts what
   matched, and the response is built from them. *)
THEOREM AnswersAreMadeOfLists == Spec => []AnswerInv
<1>1. Init => AnswerInv
  BY DEF Init, AnswerInv
<1>2. AnswerInv /\ [Next]_vars => AnswerInv'
  <2> SUFFICES ASSUME AnswerInv, [Next]_vars
               PROVE  AnswerInv'
    OBVIOUS
  <2>1. CASE Index
    BY <2>1 DEF Index, AnswerInv
  <2>2. CASE RetrieveVerses
    <3>1. UNCHANGED <<lexical, semantic, filters, request, translations>>
      BY <2>2 DEF RetrieveVerses, inputs
    <3>2. translations = << >>
      BY <2>2 DEF RetrieveVerses, AnswerInv
    <3>3. /\ matched' \in HitSets(QuranAyahScope(filters))
          /\ verses' \in Candidates(matched', Nearby(QuranAyahScope(filters)), TopK)
      BY <2>2 DEF RetrieveVerses
    <3>4. pc' \in {"translations", "chart"}
      BY <2>2 DEF RetrieveVerses
    <3>5. /\ matched' \in HitSets(QuranAyahScope(filters))'
          /\ verses' \in Candidates(matched', Nearby(QuranAyahScope(filters))', TopK')
      BY <3>1, <3>3, ScopesStay
    <3> QED
      BY <3>1, <3>2, <3>4, <3>5 DEF AnswerInv
  <2>3. CASE RetrieveTranslations
    <3>1. UNCHANGED <<lexical, semantic, filters, request, matched, verses>>
      BY <2>3 DEF RetrieveTranslations, inputs
    <3>2. pc' = "chart"
      BY <2>3 DEF RetrieveTranslations
    <3>3. \E hits \in HitSets(TranslationScope(filters)) :
            translations' \in Candidates(hits, Nearby(TranslationScope(filters)), TopK)
      BY <2>3 DEF RetrieveTranslations
    <3>4. /\ matched' \in HitSets(QuranAyahScope(filters))
          /\ verses' \in Candidates(matched', Nearby(QuranAyahScope(filters)), TopK)
      BY <2>3, <3>1 DEF RetrieveTranslations, AnswerInv
    <3>5. \E hits \in HitSets(TranslationScope(filters))' :
            translations' \in Candidates(hits, Nearby(TranslationScope(filters))', TopK')
      BY <3>1, <3>3, ScopesStay
    <3>6. /\ matched' \in HitSets(QuranAyahScope(filters))'
          /\ verses' \in Candidates(matched', Nearby(QuranAyahScope(filters))', TopK')
      BY <3>1, <3>4, ScopesStay
    <3> QED
      BY <3>2, <3>5, <3>6 DEF AnswerInv
  <2>4. ASSUME UNCHANGED <<lexical, semantic, filters, request, matched, verses, translations>>,
               pc \in {"chart", "render", "done"}, pc' \in {"chart", "render", "done"}
        PROVE  /\ matched' \in HitSets(QuranAyahScope(filters))'
               /\ verses' \in Candidates(matched', Nearby(QuranAyahScope(filters))', TopK')
               /\ translations' = << >> \/
                    \E hits \in HitSets(TranslationScope(filters))' :
                      translations' \in Candidates(hits, Nearby(TranslationScope(filters))', TopK')
    <3>1. /\ matched \in HitSets(QuranAyahScope(filters))
          /\ verses \in Candidates(matched, Nearby(QuranAyahScope(filters)), TopK)
          /\ translations = << >> \/
               \E hits \in HitSets(TranslationScope(filters)) :
                 translations \in Candidates(hits, Nearby(TranslationScope(filters)), TopK)
      BY <2>4 DEF AnswerInv
    <3> QED
      BY <2>4, <3>1, ScopesStay
  <2>5. CASE Chart
    <3>1. /\ UNCHANGED <<lexical, semantic, filters, request, matched, verses, translations>>
          /\ pc = "chart" /\ pc' = "render"
          /\ chart' = [s \in Charted |-> MatchesIn(s)]
      BY <2>5 DEF Chart, inputs
    <3>2. chart' = [s \in Charted |-> MatchesIn(s)]'
      BY <3>1, ChartStays
    <3> QED
      BY <2>4, <3>1, <3>2 DEF AnswerInv
  <2>6. CASE Render
    <3>1. /\ UNCHANGED <<lexical, semantic, filters, request, matched, verses, translations,
                         policy, chart>>
          /\ pc = "render" /\ pc' = "done"
          /\ response' = [confidence |-> Overall, blocks |-> Blocks]
      BY <2>6 DEF Render, inputs
    <3>2. response' = [confidence |-> Overall, blocks |-> Blocks]'
      BY <3>1, AnswerStays
    <3>3. chart' = [s \in Charted |-> MatchesIn(s)]'
      BY <3>1, ChartStays DEF AnswerInv
    <3> QED
      BY <2>4, <3>1, <3>2, <3>3 DEF AnswerInv
  <2>7. CASE UNCHANGED vars
    <3>1. UNCHANGED <<lexical, semantic, filters, request, matched, verses, translations,
                      policy, chart, response, pc>>
      BY <2>7 DEF vars, inputs
    <3>2. pc \in {"render", "done"} => chart' = [s \in Charted |-> MatchesIn(s)]'
      BY <3>1, ChartStays DEF AnswerInv
    <3>3. pc = "done" => response' = [confidence |-> Overall, blocks |-> Blocks]'
      BY <3>1, AnswerStays DEF AnswerInv
    <3>4. CASE pc \in {"chart", "render", "done"}
      BY <2>4, <3>1, <3>2, <3>3, <3>4 DEF AnswerInv
    <3>5. CASE pc \notin {"chart", "render", "done"}
      <4>1. translations' = << >>
        BY <3>1, <3>5 DEF AnswerInv
      <4>2. pc = "translations" =>
              /\ matched' \in HitSets(QuranAyahScope(filters))'
              /\ verses' \in Candidates(matched', Nearby(QuranAyahScope(filters))', TopK')
        BY <3>1, ScopesStay DEF AnswerInv
      <4> QED
        BY <3>1, <3>5, <4>1, <4>2 DEF AnswerInv
    <3> QED
      BY <3>4, <3>5
  <2> QED
    BY <2>1, <2>2, <2>3, <2>5, <2>6, <2>7 DEF Next
<1> QED
  BY <1>1, <1>2, PTL DEF Spec

-----------------------------------------------------------------------------
(* The lists of an answer *)

(* What is shown of a list: documents of the corpus, of one type, each once,
   and no more than fit. *)
IsShownList(c, type) ==
    /\ c \in Seq([doc : Documents(snapshot), score : Scores, by : SUBSET Retrievers])
    /\ Len(c) <= MaxTopK
    /\ \A i \in DOMAIN c : c[i].doc.type = type
    /\ \A i, j \in DOMAIN c : c[i].doc = c[j].doc => i = j

(* Whatever a pipeline returns for a scope is a list that can be shown. *)
LEMMA CandidatesAreAList ==
    ASSUME IndicesComeFromSnapshot, NEW f, NEW type,
           IsFiniteSet({d \in lexical : OpenSearchPasses(f, d)}), IsFiniteSet(Nearby(f)),
           \A d : OpenSearchPasses(f, d) => d.type = type,
           \A d : QdrantPasses(f, d) => d.type = type,
           NEW hits \in HitSets(f), NEW c, c \in Candidates(hits, Nearby(f), TopK)
    PROVE  /\ IsFiniteSet(hits)
           /\ IsShownList(c, type)
           /\ \A i \in DOMAIN c : "opensearch_lexical" \in c[i].by <=> c[i].doc \in hits
           /\ c = << >> => hits = {}
<1> DEFINE L == {d \in lexical : OpenSearchPasses(f, d)}
           F == hits \cup Nearby(f)
<1>1. IsFiniteSet(hits)
  <2>1. hits \in SUBSET L
    BY DEF HitSets
  <2> QED
    BY <2>1, FS_Subset
<1>2. TopK \in 1..MaxTopK /\ MaxTopK \in Nat
  BY AnswerAssumption, TopKIsInRange DEF IndicesComeFromSnapshot
<1>3. \A d \in F : d \in Documents(snapshot) /\ d.type = type
  BY DEF HitSets, Nearby, IndicesComeFromSnapshot
<1>0. WereFound(c, hits, Nearby(f), TopK)
  <2>1. TopK \in Nat \ {0}
    BY <1>2
  <2> QED
    BY <1>1, <2>1, CandidatesWereFound
<1>4. /\ c \in Seq([doc : F, score : Scores, by : SUBSET Retrievers])
      /\ Len(c) <= TopK
      /\ \A i \in DOMAIN c : /\ c[i].doc \in F
                             /\ "opensearch_lexical" \in c[i].by <=> c[i].doc \in hits
      /\ \A i, j \in DOMAIN c : c[i].doc = c[j].doc => i = j
      /\ c = << >> => hits = {}
  BY <1>0 DEF WereFound
<1> HIDE DEF F
<1>5. Len(c) <= MaxTopK
  BY <1>2, <1>4
<1>6. c \in Seq([doc : Documents(snapshot), score : Scores, by : SUBSET Retrievers])
  <2> DEFINE R == [doc : F, score : Scores, by : SUBSET Retrievers]
             S == [doc : Documents(snapshot), score : Scores, by : SUBSET Retrievers]
  <2>1. \A x \in R : x \in S
    BY <1>3
  <2>2. c \in Seq(R)
    BY <1>4
  <2> HIDE DEF R, S
  <2>3. c \in Seq(S)
    BY <2>1, <2>2
  <2> QED
    BY <2>3 DEF S
<1> QED
  BY <1>1, <1>3, <1>4, <1>5, <1>6 DEF IsShownList

(* The lists behind a finished answer. *)
LEMMA ListsOfAnAnswer ==
    ASSUME IndicesComeFromSnapshot, AnswerInv, pc = "done"
    PROVE  /\ IsFiniteSet(matched)
           /\ IsShownList(verses, "quran_ayah")
           /\ IsShownList(translations, "translation")
           /\ \A i \in DOMAIN verses :
                "opensearch_lexical" \in verses[i].by <=> verses[i].doc \in matched
           /\ verses = << >> => matched = {}
<1> DEFINE q == QuranAyahScope(filters)
           t == TranslationScope(filters)
<1>1. /\ matched \in HitSets(q) /\ verses \in Candidates(matched, Nearby(q), TopK)
      /\ translations = << >> \/
           \E hits \in HitSets(t) : translations \in Candidates(hits, Nearby(t), TopK)
  BY DEF AnswerInv
<1>2. /\ IsFiniteSet({d \in lexical : OpenSearchPasses(q, d)}) /\ IsFiniteSet(Nearby(q))
      /\ IsFiniteSet({d \in lexical : OpenSearchPasses(t, d)}) /\ IsFiniteSet(Nearby(t))
  BY ScopesAreFinite
<1>3. /\ \A d : OpenSearchPasses(q, d) => d.type = "quran_ayah"
      /\ \A d : QdrantPasses(q, d) => d.type = "quran_ayah"
      /\ \A d : OpenSearchPasses(t, d) => d.type = "translation"
      /\ \A d : QdrantPasses(t, d) => d.type = "translation"
  BY ScopesAreFinite
<1> HIDE DEF q, t
<1>4. /\ IsFiniteSet(matched)
      /\ IsShownList(verses, "quran_ayah")
      /\ \A i \in DOMAIN verses :
           "opensearch_lexical" \in verses[i].by <=> verses[i].doc \in matched
      /\ verses = << >> => matched = {}
  BY <1>1, <1>2, <1>3, CandidatesAreAList
<1>5. IsShownList(translations, "translation")
  <2>1. CASE translations = << >>
    <3>1. Len(<< >>) = 0 /\ DOMAIN << >> = {} /\ MaxTopK \in Nat
      BY AnswerAssumption
    <3>2. << >> \in Seq([doc : Documents(snapshot), score : Scores, by : SUBSET Retrievers])
      OBVIOUS
    <3> QED
      BY <2>1, <3>1, <3>2 DEF IsShownList
  <2>2. CASE translations # << >>
    <3>1. PICK hits \in HitSets(t) : translations \in Candidates(hits, Nearby(t), TopK)
      BY <1>1, <2>2
    <3> QED
      BY <1>2, <1>3, <3>1, CandidatesAreAList
  <2> QED
    BY <2>1, <2>2
<1> QED
  BY <1>4, <1>5

(* Languages of translations are those of the corpus, none of them blank. *)
LEMMA TranslationsHaveLanguages ==
    ASSUME IndicesComeFromSnapshot, NEW d \in Documents(snapshot), d.type = "translation"
    PROVE  d.language \in Nat \ {0}
<1>1. PICK a \in snapshot.ayahs : \E i \in DOMAIN a.translations : d = TranslationDocument(a, i)
  BY KindsOfDocuments DEF ArabicDocument
<1>2. PICK i \in DOMAIN a.translations : d = TranslationDocument(a, i)
  BY <1>1
<1> DEFINE R == [source : STRING, language : {l \in DOMAIN Fold : Fold[l] # 0}]
<1>3. a.translations \in Seq(R)
  BY AnswerAssumption DEF IndicesComeFromSnapshot, IsSnapshot
<1>4. a.translations[i] \in R
  <2> HIDE DEF R
  <2> QED
    BY <1>2, <1>3
<1>5. d.language = Fold[a.translations[i].language]
  BY <1>2 DEF TranslationDocument
<1> QED
  BY <1>4, <1>5, VocabularyAssumption

(* Where a member of two joined sequences is. *)
LEMMA Joined ==
    ASSUME NEW S, NEW T, NEW s, NEW t, s \in Seq(S), t \in Seq(T)
    PROVE  /\ s \o t \in Seq(S \cup T)
           /\ Len(s) \in Nat /\ Len(t) \in Nat
           /\ Len(s \o t) = Len(s) + Len(t)
           /\ DOMAIN (s \o t) = 1..(Len(s) + Len(t))
           /\ \A i \in 1..Len(s) : (s \o t)[i] = s[i]
           /\ \A j \in 1..Len(t) : (s \o t)[Len(s) + j] = t[j]
<1>1. s \in Seq(S \cup T) /\ t \in Seq(S \cup T) /\ Len(s) \in Nat /\ Len(t) \in Nat
  OBVIOUS
<1>2. /\ s \o t \in Seq(S \cup T)
      /\ Len(s \o t) = Len(s) + Len(t)
      /\ \A i \in 1..(Len(s) + Len(t)) : (s \o t)[i] = IF i <= Len(s) THEN s[i] ELSE t[i - Len(s)]
  BY <1>1, ConcatProperties
<1>3. \A i \in 1..Len(s) : i \in 1..(Len(s) + Len(t)) /\ i <= Len(s)
  BY <1>1
<1>4. \A j \in 1..Len(t) : /\ Len(s) + j \in 1..(Len(s) + Len(t)) /\ ~(Len(s) + j <= Len(s))
                           /\ (Len(s) + j) - Len(s) = j
  BY <1>1
<1>5. DOMAIN (s \o t) = 1..(Len(s) + Len(t))
  BY <1>2
<1> QED
  BY <1>1, <1>2, <1>3, <1>4, <1>5

-----------------------------------------------------------------------------
(* The blocks of an answer *)

(* The languages of the translations shown, in the order of their blocks, and
   how many blocks are before that of the verses. *)
ShownCodes == {translations[i].doc.language : i \in DOMAIN translations} \ {0}
ShownLanguages == OrderedLanguages(ShownCodes)
Before == IF DOMAIN chart # {} THEN 1 ELSE 0

(* Every translation that is shown has a language, and each language one place. *)
LEMMA LanguagesOfAnAnswer ==
    ASSUME IndicesComeFromSnapshot, IsShownList(translations, "translation")
    PROVE  /\ ShownLanguages \in Seq(ShownCodes)
           /\ \A n \in DOMAIN ShownLanguages : ShownLanguages[n] \in Nat \ {0}
           /\ \A m, n \in DOMAIN ShownLanguages : ShownLanguages[m] = ShownLanguages[n] => m = n
           /\ \A i \in DOMAIN translations :
                \E n \in DOMAIN ShownLanguages : ShownLanguages[n] = translations[i].doc.language
<1> DEFINE R == [doc : Documents(snapshot), score : Scores, by : SUBSET Retrievers]
           language == [i \in DOMAIN translations |-> translations[i].doc.language]
           all == {language[i] : i \in DOMAIN translations}
<1>1. /\ translations \in Seq(R)
      /\ \A i \in DOMAIN translations : translations[i].doc.type = "translation"
  BY DEF IsShownList
<1>2. /\ Len(translations) \in Nat /\ DOMAIN translations = 1..Len(translations)
      /\ \A i \in DOMAIN translations : translations[i] \in R
  <2> HIDE DEF R
  <2> QED
    BY <1>1
<1>3. \A i \in DOMAIN translations : translations[i].doc.language \in Nat \ {0}
  BY <1>1, <1>2, TranslationsHaveLanguages
<1>4. IsFiniteSet(all)
  <2>1. IsFiniteSet(DOMAIN translations)
    BY <1>2, FS_Interval
  <2> HIDE DEF language
  <2> QED
    BY <2>1, ImageIsFinite
<1>5. ShownCodes \in SUBSET all /\ ShownCodes \subseteq Nat \ {0}
  BY <1>3 DEF ShownCodes
<1>6. IsFiniteSet(ShownCodes) /\ ShownCodes \subseteq Nat
  <2> HIDE DEF all
  <2>1. IsFiniteSet(ShownCodes)
    BY <1>4, <1>5, FS_Subset
  <2> QED
    BY <1>5, <2>1
<1>7. /\ ShownLanguages \in Seq(ShownCodes)
      /\ \A m, n \in DOMAIN ShownLanguages : ShownLanguages[m] = ShownLanguages[n] => m = n
      /\ \A l \in ShownCodes : \E n \in DOMAIN ShownLanguages : ShownLanguages[n] = l
  BY <1>6, LanguagesHaveOnePlace DEF ShownLanguages
<1>8. \A i \in DOMAIN translations : translations[i].doc.language \in ShownCodes
  BY <1>3 DEF ShownCodes
<1>9. \A n \in DOMAIN ShownLanguages : ShownLanguages[n] \in ShownCodes
  BY <1>7
<1> QED
  BY <1>5, <1>7, <1>8, <1>9

(* The blocks are the chart, if there is one, the verses, and one for each
   language. *)
LEMMA BlocksInOrder ==
    ASSUME ShownLanguages \in Seq(ShownCodes)
    PROVE  /\ Before \in {0, 1} /\ Len(ShownLanguages) \in Nat
           /\ DOMAIN ShownLanguages = 1..Len(ShownLanguages)
           /\ DOMAIN Blocks = 1..(Before + 1 + Len(ShownLanguages))
           /\ Before = 1 => Blocks[1] = ChartBlock
           /\ Blocks[Before + 1] = ResultBlock(verses, Arabic, TRUE)
           /\ \A n \in DOMAIN ShownLanguages :
                Blocks[Before + 1 + n] =
                  ResultBlock(Picked(translations, OfLanguage(translations, ShownLanguages[n])),
                              ShownLanguages[n], FALSE)
<1> DEFINE block(n) ==
             ResultBlock(Picked(translations, OfLanguage(translations, ShownLanguages[n])),
                         ShownLanguages[n], FALSE)
           k == Len(ShownLanguages)
           T == {block(n) : n \in 1..k}
           C == {ChartBlock}
           V == {ResultBlock(verses, Arabic, TRUE)}
           chartPart == IF DOMAIN chart # {} THEN <<ChartBlock>> ELSE << >>
           versesPart == <<ResultBlock(verses, Arabic, TRUE)>>
           rest == LanguageBlocks(translations)
<1>1. k \in Nat /\ DOMAIN ShownLanguages = 1..k
  OBVIOUS
<1>2. rest = [n \in DOMAIN ShownLanguages |-> block(n)]
  BY DEF LanguageBlocks, ShownLanguages, ShownCodes
<1>3. /\ rest \in Seq(T) /\ Len(rest) = k
      /\ \A n \in 1..k : rest[n] = block(n)
  <2>1. \A n \in 1..k : block(n) \in T
    OBVIOUS
  <2>2. rest = [n \in 1..k |-> block(n)]
    BY <1>1, <1>2
  <2> HIDE DEF T, block, k, rest
  <2>3. rest \in [1..k -> T] /\ \A n \in 1..k : rest[n] = block(n)
    BY <2>1, <2>2
  <2> QED
    BY <1>1, <2>3
<1>4. chartPart \in Seq(C) /\ Len(chartPart) = Before /\ (Before = 1 => chartPart[1] = ChartBlock)
  <2>1. CASE DOMAIN chart # {}
    <3>1. chartPart = <<ChartBlock>> /\ Before = 1
      BY <2>1 DEF Before
    <3> HIDE DEF chartPart
    <3> QED
      BY <3>1
  <2>2. CASE DOMAIN chart = {}
    <3>1. chartPart = << >> /\ Before = 0
      BY <2>2 DEF Before
    <3> HIDE DEF chartPart, C
    <3> QED
      BY <3>1
  <2> QED
    BY <2>1, <2>2
<1>5. versesPart \in Seq(V) /\ Len(versesPart) = 1 /\ versesPart[1] = ResultBlock(verses, Arabic, TRUE)
  OBVIOUS
<1>6. Before \in {0, 1}
  BY DEF Before
<1>7. Blocks = (chartPart \o versesPart) \o rest
  BY DEF Blocks
<1> HIDE DEF chartPart, versesPart, rest, T, C, V, k, block
<1> DEFINE front == chartPart \o versesPart
<1>8. /\ front \in Seq(C \cup V) /\ Len(front) = Before + 1
      /\ Before = 1 => front[1] = ChartBlock
      /\ front[Before + 1] = ResultBlock(verses, Arabic, TRUE)
  <2>1. /\ chartPart \o versesPart \in Seq(C \cup V)
        /\ Len(chartPart \o versesPart) = Before + 1
        /\ \A i \in 1..Before : (chartPart \o versesPart)[i] = chartPart[i]
        /\ \A j \in 1..1 : (chartPart \o versesPart)[Before + j] = versesPart[j]
    <3>1. /\ chartPart \o versesPart \in Seq(C \cup V)
          /\ Len(chartPart \o versesPart) = Len(chartPart) + Len(versesPart)
          /\ \A i \in 1..Len(chartPart) : (chartPart \o versesPart)[i] = chartPart[i]
          /\ \A j \in 1..Len(versesPart) :
               (chartPart \o versesPart)[Len(chartPart) + j] = versesPart[j]
      <4>1. chartPart \in Seq(C) /\ versesPart \in Seq(V)
        BY <1>4, <1>5
      <4>2. chartPart \o versesPart \in Seq(C \cup V)
        BY <4>1, Joined
      <4>3. Len(chartPart \o versesPart) = Len(chartPart) + Len(versesPart)
        BY <4>1, Joined
      <4>4. \A i \in 1..Len(chartPart) : (chartPart \o versesPart)[i] = chartPart[i]
        BY <4>1, Joined
      <4>5. \A j \in 1..Len(versesPart) :
              (chartPart \o versesPart)[Len(chartPart) + j] = versesPart[j]
        BY <4>1, Joined
      <4> QED
        BY <4>2, <4>3, <4>4, <4>5
    <3> QED
      BY <1>4, <1>5, <3>1
  <2>2. 1 \in 1..1 /\ (Before = 1 => 1 \in 1..Before)
    BY <1>6
  <2> QED
    BY <1>4, <1>5, <2>1, <2>2
<1> HIDE DEF front
<1>9. /\ DOMAIN (front \o rest) = 1..(Before + 1 + k)
      /\ \A i \in 1..(Before + 1) : (front \o rest)[i] = front[i]
      /\ \A j \in 1..k : (front \o rest)[Before + 1 + j] = rest[j]
  <2>1. /\ DOMAIN (front \o rest) = 1..(Len(front) + Len(rest))
        /\ \A i \in 1..Len(front) : (front \o rest)[i] = front[i]
        /\ \A j \in 1..Len(rest) : (front \o rest)[Len(front) + j] = rest[j]
    <3>1. front \in Seq(C \cup V) /\ rest \in Seq(T)
      BY <1>3, <1>8
    <3>2. DOMAIN (front \o rest) = 1..(Len(front) + Len(rest))
      BY <3>1, Joined
    <3>3. \A i \in 1..Len(front) : (front \o rest)[i] = front[i]
      BY <3>1, Joined
    <3>4. \A j \in 1..Len(rest) : (front \o rest)[Len(front) + j] = rest[j]
      BY <3>1, Joined
    <3> QED
      BY <3>2, <3>3, <3>4
  <2> QED
    BY <1>3, <1>8, <2>1
<1>10. Blocks = front \o rest
  BY <1>7 DEF front
<1>11. Before + 1 \in 1..(Before + 1) /\ 1 \in 1..(Before + 1)
  BY <1>6
<1>12. /\ DOMAIN Blocks = 1..(Before + 1 + k)
       /\ Before = 1 => Blocks[1] = ChartBlock
       /\ Blocks[Before + 1] = ResultBlock(verses, Arabic, TRUE)
       /\ \A n \in 1..k : Blocks[Before + 1 + n] = block(n)
  BY <1>3, <1>8, <1>9, <1>10, <1>11
<1> QED
  BY <1>1, <1>6, <1>12 DEF k, block

(* A block is the chart, the verses or the translations of one language. *)
LEMMA KindsOfBlocks ==
    ASSUME ShownLanguages \in Seq(ShownCodes), NEW b \in DOMAIN Blocks
    PROVE  \/ Before = 1 /\ b = 1
           \/ b = Before + 1
           \/ \E n \in DOMAIN ShownLanguages : b = Before + 1 + n
<1>1. /\ Before \in {0, 1} /\ Len(ShownLanguages) \in Nat
      /\ DOMAIN ShownLanguages = 1..Len(ShownLanguages)
      /\ b \in 1..(Before + 1 + Len(ShownLanguages))
  BY BlocksInOrder
<1>2. CASE b > Before + 1
  <2>1. b - (Before + 1) \in 1..Len(ShownLanguages) /\ b = Before + 1 + (b - (Before + 1))
    BY <1>1, <1>2
  <2> QED
    BY <1>1, <2>1
<1>3. CASE ~(b > Before + 1)
  BY <1>1, <1>3
<1> QED
  BY <1>2, <1>3

-----------------------------------------------------------------------------
(* The chart *)

Surahs == {d.surah : d \in matched}
Fuller(s) == {t \in Surahs : \/ MatchesIn(t) > MatchesIn(s)
                             \/ MatchesIn(t) = MatchesIn(s) /\ t < s}

(* The buckets of the chart are finite. *)
LEMMA SurahsAreCounted ==
    ASSUME IsFiniteSet(matched)
    PROVE  /\ IsFiniteSet(Surahs)
           /\ \A s : /\ IsFiniteSet(Fuller(s)) /\ Cardinality(Fuller(s)) \in Nat
                     /\ IsFiniteSet({d \in matched : d.surah = s})
                     /\ MatchesIn(s) \in Nat /\ MatchesIn(s) <= Cardinality(matched)
<1> DEFINE surah == [d \in matched |-> d.surah]
<1>1. IsFiniteSet({surah[d] : d \in matched})
  <2> HIDE DEF surah
  <2> QED
    BY ImageIsFinite
<1>2. IsFiniteSet(Surahs)
  <2>1. {surah[d] : d \in matched} = Surahs
    BY DEF Surahs
  <2> QED
    BY <1>1, <2>1
<1>3. ASSUME NEW s
      PROVE  /\ IsFiniteSet(Fuller(s)) /\ Cardinality(Fuller(s)) \in Nat
             /\ IsFiniteSet({d \in matched : d.surah = s})
             /\ MatchesIn(s) \in Nat /\ MatchesIn(s) <= Cardinality(matched)
  <2> DEFINE M == {d \in matched : d.surah = s}
  <2>1. Fuller(s) \in SUBSET Surahs
    BY DEF Fuller
  <2>2. IsFiniteSet(Fuller(s))
    BY <1>2, <2>1, FS_Subset
  <2>3. Cardinality(Fuller(s)) \in Nat
    BY <2>2, FS_CardinalityType
  <2>4. M \in SUBSET matched
    OBVIOUS
  <2>5. MatchesIn(s) = Cardinality(M)
    BY DEF MatchesIn
  <2> HIDE DEF M
  <2>6. IsFiniteSet(M) /\ Cardinality(M) <= Cardinality(matched)
    BY <2>4, FS_Subset
  <2>7. Cardinality(M) \in Nat
    BY <2>6, FS_CardinalityType
  <2> QED
    BY <2>2, <2>3, <2>5, <2>6, <2>7 DEF M
<1> QED
  BY <1>2, <1>3

(* Some surah has a place in the chart as soon as one verse matches. *)
LEMMA FullestIsCharted ==
    ASSUME IsFiniteSet(matched), Surahs \subseteq Nat
    PROVE  matched = {} <=> Charted = {}
<1>1. Charted = {s \in Surahs : Cardinality(Fuller(s)) < ChartSize}
  BY DEF Charted, Surahs, Fuller
<1>2. matched = {} => Charted = {}
  BY <1>1 DEF Surahs
<1>3. ASSUME matched # {}
      PROVE  Charted # {}
  <2> DEFINE counts == {MatchesIn(s) : s \in Surahs}
  <2>1. Cardinality(matched) \in Nat
    BY FS_CardinalityType
  <2>2. counts \subseteq Nat /\ \A x \in counts : x <= Cardinality(matched)
    BY SurahsAreCounted
  <2>3. counts # {}
    BY <1>3 DEF Surahs
  <2>4. PICK m \in counts : \A x \in counts : x <= m
    <3> HIDE DEF counts
    <3> QED
      BY <2>1, <2>2, <2>3, LargestNumber
  <2> DEFINE best == {s \in Surahs : MatchesIn(s) = m}
  <2>5. best \subseteq Nat /\ best # {}
    BY <2>4
  <2>6. PICK s \in best : \A t \in best : s <= t
    <3> HIDE DEF best
    <3> QED
      BY <2>5, SmallestNumber
  <2>7. Fuller(s) = {}
    <3> SUFFICES ASSUME NEW t \in Surahs,
                        \/ MatchesIn(t) > MatchesIn(s)
                        \/ MatchesIn(t) = MatchesIn(s) /\ t < s
                 PROVE  FALSE
      BY DEF Fuller
    <3>1. MatchesIn(t) <= m /\ MatchesIn(s) = m /\ MatchesIn(t) \in Nat /\ m \in Nat
      BY <2>2, <2>4, <2>6
    <3>2. MatchesIn(t) = MatchesIn(s) /\ t < s
      BY <3>1
    <3>3. t \in best /\ s \in best
      BY <2>6, <3>1, <3>2
    <3>4. s <= t /\ s \in Nat /\ t \in Nat
      BY <2>5, <2>6, <3>3
    <3> QED
      BY <3>2, <3>4
  <2>8. Cardinality(Fuller(s)) < ChartSize
    BY <2>7, FS_EmptySet, AnswerAssumption
  <2> QED
    BY <1>1, <2>6, <2>8
<1> QED
  BY <1>2, <1>3

(* A surah without a place matches no more often than one with a place. *)
LEMMA UnchartedAreNoFuller ==
    ASSUME IsFiniteSet(matched), NEW s \in Surahs, s \notin Charted, NEW t \in Charted
    PROVE  MatchesIn(s) <= MatchesIn(t)
<1>1. Charted = {u \in Surahs : Cardinality(Fuller(u)) < ChartSize}
  BY DEF Charted, Surahs, Fuller
<1>2. \A u : IsFiniteSet(Fuller(u)) /\ Cardinality(Fuller(u)) \in Nat /\ MatchesIn(u) \in Nat
  BY SurahsAreCounted
<1> SUFFICES ASSUME MatchesIn(t) < MatchesIn(s)
             PROVE  FALSE
  BY <1>2
<1>3. \A u : (MatchesIn(u) > MatchesIn(s) \/ MatchesIn(u) = MatchesIn(s))
               => MatchesIn(u) > MatchesIn(t)
  <2> SUFFICES ASSUME NEW u, MatchesIn(u) > MatchesIn(s) \/ MatchesIn(u) = MatchesIn(s)
               PROVE  MatchesIn(u) > MatchesIn(t)
    OBVIOUS
  <2>1. MatchesIn(u) \in Nat /\ MatchesIn(s) \in Nat /\ MatchesIn(t) \in Nat
    BY <1>2
  <2> QED
    BY <2>1
<1>4. Fuller(s) \in SUBSET Fuller(t)
  BY <1>3 DEF Fuller
<1>5. Cardinality(Fuller(s)) <= Cardinality(Fuller(t))
  BY <1>2, <1>4, FS_Subset
<1>6. Cardinality(Fuller(t)) < ChartSize /\ ~(Cardinality(Fuller(s)) < ChartSize)
  BY <1>1
<1>7. ChartSize \in Nat /\ Cardinality(Fuller(s)) \in Nat /\ Cardinality(Fuller(t)) \in Nat
  BY <1>2, AnswerAssumption
<1> QED
  BY <1>5, <1>6, <1>7

(* Verses found lexically that are shown are some of those that match. *)
LEMMA ShownAreMatches ==
    ASSUME IsFiniteSet(matched), IsShownList(verses, "quran_ayah"),
           \A i \in DOMAIN verses : "opensearch_lexical" \in verses[i].by <=> verses[i].doc \in matched,
           NEW s
    PROVE  LET shown == {i \in DOMAIN verses : /\ verses[i].doc.surah = s
                                               /\ "opensearch_lexical" \in verses[i].by}
           IN  Cardinality(shown) \in Nat /\ Cardinality(shown) <= MatchesIn(s)
<1> DEFINE shown == {i \in DOMAIN verses : /\ verses[i].doc.surah = s
                                           /\ "opensearch_lexical" \in verses[i].by}
           M == {d \in matched : d.surah = s}
           f == [i \in shown |-> verses[i].doc]
<1>1. \A i \in shown : f[i] \in M
  OBVIOUS
<1>2. \A i, j \in shown : f[i] = f[j] => i = j
  BY DEF IsShownList
<1>3. IsFiniteSet(M)
  BY SurahsAreCounted
<1>4. f \in [shown -> M]
  BY <1>1
<1> HIDE DEF shown, M, f
<1>5. f \in Injection(shown, M)
  BY <1>2, <1>4 DEF Injection, IsInjective
<1>6. IsFiniteSet(shown) /\ Cardinality(shown) <= Cardinality(M)
  BY <1>3, <1>5, FS_Injection
<1>7. MatchesIn(s) = Cardinality(M)
  BY DEF MatchesIn, M
<1> QED
  BY <1>6, <1>7, FS_CardinalityType DEF shown

(* What a block of results says. *)
LEMMA FieldsOfBlocks ==
    ASSUME NEW c, NEW l, NEW w \in BOOLEAN
    PROVE  /\ ResultBlock(c, l, w).type = "ayah_results"
           /\ ResultBlock(c, l, w).language = l
           /\ ResultBlock(c, l, w).items = Items(c)
           /\ ResultBlock(c, l, w).confidence = Confidence(c)
           /\ ResultBlock(c, l, w).warning <=> w /\ c = << >>
<1>1. /\ ResultBlock(c, l, w).type = "ayah_results"
      /\ ResultBlock(c, l, w).language = l
      /\ ResultBlock(c, l, w).items = Items(c)
      /\ ResultBlock(c, l, w).confidence = Confidence(c)
  BY DEF ResultBlock
<1> DEFINE warned == w /\ c = << >>
<1>2. ResultBlock(c, l, w).warning = warned
  BY DEF ResultBlock
<1>3. ResultBlock(c, l, w).warning <=> warned
  <2> HIDE DEF warned
  <2> QED
    BY <1>2
<1> QED
  BY <1>1, <1>3

(* The chart and the verses below it, each its own request to the index, agree
   in every answer. *)
THEOREM ChartIsOfTheVerses == Spec => []ChartAgreesWithVerses
<1>1. IndicesComeFromSnapshot /\ AnswerInv => ChartAgreesWithVerses
  <2> SUFFICES ASSUME IndicesComeFromSnapshot, AnswerInv, pc = "done"
               PROVE  ChartAgreesWithVerses
    BY DEF ChartAgreesWithVerses
  <2>1. /\ IsFiniteSet(matched)
        /\ IsShownList(verses, "quran_ayah")
        /\ IsShownList(translations, "translation")
        /\ \A i \in DOMAIN verses :
             "opensearch_lexical" \in verses[i].by <=> verses[i].doc \in matched
        /\ verses = << >> => matched = {}
    BY ListsOfAnAnswer
  <2>2. /\ chart = [s \in Charted |-> MatchesIn(s)]
        /\ response.blocks = Blocks
    BY DEF AnswerInv
  <2>3. DOMAIN chart = Charted /\ \A s \in Charted : chart[s] = MatchesIn(s)
    BY <2>2
  <2>4. Surahs \subseteq Nat
    <3> SUFFICES ASSUME NEW d \in matched
                 PROVE  d.surah \in Nat
      BY DEF Surahs
    <3>1. OpenSearchPasses(QuranAyahScope(filters), d) /\ d \in Documents(snapshot)
      BY DEF AnswerInv, HitSets, IndicesComeFromSnapshot
    <3>2. d.type = "quran_ayah"
      BY <3>1, ScopesAreFinite
    <3>3. PICK a \in snapshot.ayahs : d = ArabicDocument(a)
      BY <3>1, <3>2, KindsOfDocuments DEF TranslationDocument
    <3>4. d.surah = a.surah /\ a.surah \in 1..MaxSurah /\ MaxSurah \in Nat
      BY <3>3, AnswerAssumption, VocabularyAssumption
         DEF ArabicDocument, IndicesComeFromSnapshot, IsSnapshot
    <3> QED
      BY <3>4
  <2>5. ShownLanguages \in Seq(ShownCodes)
    BY <2>1, LanguagesOfAnAnswer
  <2>6. ASSUME NEW s \in Surahs
        PROVE  LET shown == {i \in DOMAIN verses : /\ verses[i].doc.surah = s
                                                   /\ "opensearch_lexical" \in verses[i].by}
               IN  IF s \in DOMAIN chart THEN Cardinality(shown) <= chart[s]
                   ELSE \A t \in DOMAIN chart : Cardinality(shown) <= chart[t]
    <3> DEFINE shown == {i \in DOMAIN verses : /\ verses[i].doc.surah = s
                                               /\ "opensearch_lexical" \in verses[i].by}
    <3>1. Cardinality(shown) \in Nat /\ Cardinality(shown) <= MatchesIn(s)
      BY <2>1, ShownAreMatches
    <3> HIDE DEF shown
    <3>2. \A t : MatchesIn(t) \in Nat
      BY <2>1, SurahsAreCounted
    <3>3. s \in DOMAIN chart => Cardinality(shown) <= chart[s]
      BY <2>3, <3>1
    <3>4. ASSUME s \notin DOMAIN chart, NEW t \in DOMAIN chart
          PROVE  Cardinality(shown) <= chart[t]
      <4>1. MatchesIn(s) <= MatchesIn(t) /\ chart[t] = MatchesIn(t)
        BY <2>1, <2>3, <3>4, UnchartedAreNoFuller
      <4> QED
        BY <3>1, <3>2, <4>1
    <3> QED
      BY <3>3, <3>4 DEF shown
  <2>7. ASSUME NEW b \in DOMAIN Blocks
        PROVE  /\ Blocks[b].warning => matched = {}
               /\ Blocks[b].type = "surah_distribution" <=> Before = 1 /\ b = 1
    <3>1. CASE Before = 1 /\ b = 1
      <4>1. Blocks[b] = ChartBlock
        BY <2>5, <3>1, BlocksInOrder
      <4> QED
        BY <3>1, <4>1 DEF ChartBlock
    <3>2. CASE b = Before + 1
      <4>1. Blocks[b] = ResultBlock(verses, Arabic, TRUE)
        BY <2>5, <3>2, BlocksInOrder
      <4>2. ~(Before = 1 /\ b = 1)
        BY <2>5, <3>2, BlocksInOrder
      <4>3. Blocks[b].type = "ayah_results" /\ (Blocks[b].warning => verses = << >>)
        <5>1. ResultBlock(verses, Arabic, TRUE).type = "ayah_results"
          BY FieldsOfBlocks
        <5>2. ResultBlock(verses, Arabic, TRUE).warning => verses = << >>
          BY FieldsOfBlocks
        <5> QED
          BY <4>1, <5>1, <5>2, Zenon
      <4> QED
        BY <2>1, <4>2, <4>3
    <3>3. CASE \E n \in DOMAIN ShownLanguages : b = Before + 1 + n
      <4>1. PICK n \in DOMAIN ShownLanguages : b = Before + 1 + n
        BY <3>3
      <4>2. n \in Nat \ {0} /\ ~(Before = 1 /\ b = 1)
        BY <2>5, <4>1, BlocksInOrder
      <4>3. Blocks[b] =
              ResultBlock(Picked(translations, OfLanguage(translations, ShownLanguages[n])),
                          ShownLanguages[n], FALSE)
        BY <2>5, <4>1, BlocksInOrder
      <4>4. Blocks[b].type = "ayah_results" /\ ~Blocks[b].warning
        <5> DEFINE c == Picked(translations, OfLanguage(translations, ShownLanguages[n]))
                   l == ShownLanguages[n]
        <5>1. ResultBlock(c, l, FALSE).type = "ayah_results"
          BY FieldsOfBlocks
        <5>2. ~ResultBlock(c, l, FALSE).warning
          BY FieldsOfBlocks
        <5> QED
          BY <4>3, <5>1, <5>2, Zenon
      <4> QED
        BY <4>2, <4>4
    <3> QED
      BY <2>5, <3>1, <3>2, <3>3, KindsOfBlocks
  <2>8. matched = {} <=> \A b \in DOMAIN Blocks : Blocks[b].type # "surah_distribution"
    <3>1. matched = {} <=> Before = 0
      BY <2>1, <2>3, <2>4, FullestIsCharted DEF Before
    <3>2. Before \in {0, 1} /\ (Before = 1 => 1 \in DOMAIN Blocks)
      BY <2>5, BlocksInOrder
    <3> QED
      BY <2>7, <3>1, <3>2
  <2> QED
    BY <2>2, <2>6, <2>7, <2>8 DEF ChartAgreesWithVerses, Surahs
<1> QED
  BY <1>1, Provenance, AnswersAreMadeOfLists, PTL

-----------------------------------------------------------------------------
(* Groups of translations *)

(* The candidates in the block of the n-th language. *)
Group(n) == OfLanguage(translations, ShownLanguages[n])

(* The translations of one language, in the order of their list. *)
LEMMA GroupsInOrder ==
    ASSUME IsShownList(translations, "translation"), NEW n
    PROVE  LET X == Group(n)
               picked == Picked(translations, X)
           IN  /\ IsFiniteSet(X) /\ X \subseteq Nat
               /\ Cardinality(X) \in Nat /\ Cardinality(X) <= MaxTopK
               /\ picked \in Seq([doc : Documents(snapshot), score : Scores, by : SUBSET Retrievers])
               /\ Len(picked) = Cardinality(X)
               /\ DOMAIN picked = 1..Cardinality(X)
               /\ \A k \in 1..Cardinality(X) : /\ InOrder(X)[k] \in X
                                               /\ picked[k] = translations[InOrder(X)[k]]
               /\ \A k, m \in 1..Cardinality(X) : k < m => InOrder(X)[k] < InOrder(X)[m]
               /\ \A k, m \in 1..Cardinality(X) : InOrder(X)[k] = InOrder(X)[m] => k = m
               /\ \A i \in X : \E k \in 1..Cardinality(X) : InOrder(X)[k] = i
<1> DEFINE R == [doc : Documents(snapshot), score : Scores, by : SUBSET Retrievers]
           X == Group(n)
           picked == Picked(translations, X)
<1>1. translations \in Seq(R) /\ Len(translations) <= MaxTopK
  BY DEF IsShownList
<1>2. X \in SUBSET DOMAIN translations
  BY DEF Group, OfLanguage
<1> HIDE DEF R, X
<1>3. /\ IsFiniteSet(X) /\ X \subseteq Nat /\ Cardinality(X) \in Nat
      /\ picked \in Seq(R) /\ Len(picked) = Cardinality(X)
      /\ DOMAIN picked = 1..Cardinality(X)
      /\ \A k \in 1..Cardinality(X) : /\ InOrder(X)[k] \in X
                                      /\ picked[k] = translations[InOrder(X)[k]]
  BY <1>1, <1>2, PickedInOrder
<1>4. X \subseteq Int
  BY <1>3
<1>5. /\ \A k, m \in 1..Cardinality(X) : k < m => InOrder(X)[k] < InOrder(X)[m]
      /\ \A k, m \in 1..Cardinality(X) : InOrder(X)[k] = InOrder(X)[m] => k = m
      /\ \A i \in X : \E k \in 1..Cardinality(X) : InOrder(X)[k] = i
  BY <1>3, <1>4, InOrderListsAll
<1>6. Cardinality(X) <= MaxTopK
  <2>1. Len(translations) \in Nat /\ DOMAIN translations = 1..Len(translations)
    BY <1>1
  <2>2. IsFiniteSet(1..Len(translations)) /\ Cardinality(1..Len(translations)) = Len(translations)
    <3> DEFINE m == Len(translations)
    <3>1. m \in Nat
      BY <2>1
    <3> HIDE DEF m
    <3>2. IsFiniteSet(1..m) /\ Cardinality(1..m) = m
      BY <3>1, FS_Interval
    <3> QED
      BY <3>2 DEF m
  <2>3. Cardinality(X) <= Len(translations)
    BY <1>2, <2>1, <2>2, FS_Subset
  <2> QED
    BY <1>1, <1>3, <2>1, <2>3, AnswerAssumption
<1> QED
  BY <1>3, <1>5, <1>6 DEF R, X

(* What stands at a place of the blocks. *)
Stands(b, k, d) ==
    b \in DOMAIN Blocks /\ k \in DOMAIN Blocks[b].items /\ Blocks[b].items[k] = d

(* Where a document stands in the blocks. *)
LEMMA PlacesOfDocuments ==
    ASSUME ShownLanguages \in Seq(ShownCodes), IsShownList(translations, "translation"),
           NEW b, NEW k, NEW d
    PROVE  Stands(b, k, d) <=>
             \/ b = Before + 1 /\ k \in DOMAIN verses /\ verses[k].doc = d
             \/ \E n \in DOMAIN ShownLanguages :
                  /\ b = Before + 1 + n
                  /\ k \in 1..Cardinality(Group(n))
                  /\ translations[InOrder(Group(n))[k]].doc = d
<1>1. /\ Before \in {0, 1} /\ Len(ShownLanguages) \in Nat
      /\ DOMAIN ShownLanguages = 1..Len(ShownLanguages)
      /\ DOMAIN Blocks = 1..(Before + 1 + Len(ShownLanguages))
  BY BlocksInOrder
<1>2. CASE Before = 1 /\ b = 1
  <2>1. Blocks[b] = ChartBlock
    BY <1>2, BlocksInOrder
  <2>2. DOMAIN Blocks[b].items = {}
    BY <2>1 DEF ChartBlock
  <2>3. b # Before + 1 /\ \A n \in DOMAIN ShownLanguages : b # Before + 1 + n
    BY <1>1, <1>2
  <2> QED
    BY <2>2, <2>3 DEF Stands
<1>3. CASE b = Before + 1
  <2>1. Blocks[b] = ResultBlock(verses, Arabic, TRUE)
    BY <1>3, BlocksInOrder
  <2>2. ResultBlock(verses, Arabic, TRUE).items = Items(verses)
    BY FieldsOfBlocks
  <2>3. DOMAIN Blocks[b].items = DOMAIN verses /\ \A i \in DOMAIN verses : Blocks[b].items[i] = verses[i].doc
    BY <2>1, <2>2 DEF Items
  <2>4. b \in DOMAIN Blocks /\ \A n \in DOMAIN ShownLanguages : b # Before + 1 + n
    BY <1>1, <1>3
  <2> QED
    BY <1>3, <2>3, <2>4 DEF Stands
<1>4. CASE \E n \in DOMAIN ShownLanguages : b = Before + 1 + n
  <2>1. PICK n \in DOMAIN ShownLanguages : b = Before + 1 + n
    BY <1>4
  <2> DEFINE picked == Picked(translations, Group(n))
  <2>2. Blocks[b] = ResultBlock(picked, ShownLanguages[n], FALSE)
    BY <2>1, BlocksInOrder DEF Group
  <2>3. ResultBlock(picked, ShownLanguages[n], FALSE).items = Items(picked)
    BY FieldsOfBlocks
  <2>4. /\ DOMAIN picked = 1..Cardinality(Group(n))
        /\ \A i \in 1..Cardinality(Group(n)) : picked[i] = translations[InOrder(Group(n))[i]]
    BY GroupsInOrder
  <2> HIDE DEF picked
  <2>5. /\ DOMAIN Blocks[b].items = 1..Cardinality(Group(n))
        /\ \A i \in 1..Cardinality(Group(n)) :
             Blocks[b].items[i] = translations[InOrder(Group(n))[i]].doc
    BY <2>2, <2>3, <2>4 DEF Items
  <2>6. b \in DOMAIN Blocks /\ b # Before + 1 /\ \A m \in DOMAIN ShownLanguages : b = Before + 1 + m => m = n
    BY <1>1, <2>1
  <2> QED
    BY <2>1, <2>5, <2>6 DEF Stands
<1>5. CASE b \notin DOMAIN Blocks
  <2>1. b # Before + 1 /\ \A n \in DOMAIN ShownLanguages : b # Before + 1 + n
    BY <1>1, <1>5
  <2> QED
    BY <1>5, <2>1 DEF Stands
<1> QED
  BY <1>2, <1>3, <1>4, <1>5, KindsOfBlocks

(* Positions reads the places off the response. *)
LEMMA PositionsAreStandings ==
    ASSUME response.blocks = Blocks, NEW d
    PROVE  Positions(d) = {p \in (DOMAIN Blocks) \X (1..MaxTopK) : Stands(p[1], p[2], d)}
BY DEF Positions, Stands

(* A verse stands in the block of verses, at its place in their list. *)
LEMMA VerseHasOnePlace ==
    ASSUME response.blocks = Blocks, ShownLanguages \in Seq(ShownCodes),
           IsShownList(verses, "quran_ayah"), IsShownList(translations, "translation"),
           NEW i \in DOMAIN verses
    PROVE  Positions(verses[i].doc) = {<<Before + 1, i>>}
<1> DEFINE d == verses[i].doc
<1>1. /\ Before \in {0, 1} /\ Len(ShownLanguages) \in Nat
      /\ DOMAIN Blocks = 1..(Before + 1 + Len(ShownLanguages))
  BY BlocksInOrder
<1>2. /\ \A k, m \in DOMAIN verses : verses[k].doc = verses[m].doc => k = m
      /\ d.type = "quran_ayah"
      /\ \A k \in DOMAIN translations : translations[k].doc.type = "translation"
  BY DEF IsShownList
<1>3. i \in 1..MaxTopK
  <2> DEFINE R == [doc : Documents(snapshot), score : Scores, by : SUBSET Retrievers]
  <2>1. verses \in Seq(R) /\ Len(verses) <= MaxTopK
    BY DEF IsShownList
  <2> HIDE DEF R
  <2> QED
    BY <2>1, AnswerAssumption
<1>4. Before + 1 \in DOMAIN Blocks
  BY <1>1
<1>5. ASSUME NEW b, NEW k, Stands(b, k, d)
      PROVE  b = Before + 1 /\ k = i
  <2>1. CASE b = Before + 1 /\ k \in DOMAIN verses /\ verses[k].doc = d
    BY <1>2, <2>1
  <2>2. CASE \E n \in DOMAIN ShownLanguages :
               /\ b = Before + 1 + n
               /\ k \in 1..Cardinality(Group(n))
               /\ translations[InOrder(Group(n))[k]].doc = d
    <3>1. PICK n \in DOMAIN ShownLanguages :
            /\ k \in 1..Cardinality(Group(n))
            /\ translations[InOrder(Group(n))[k]].doc = d
      BY <2>2
    <3>2. InOrder(Group(n))[k] \in Group(n)
      BY <3>1, GroupsInOrder
    <3>3. InOrder(Group(n))[k] \in DOMAIN translations
      BY <3>2 DEF Group, OfLanguage
    <3> QED
      BY <1>2, <3>1, <3>3
  <2> QED
    BY <1>5, <2>1, <2>2, PlacesOfDocuments
<1>6. Stands(Before + 1, i, d)
  BY PlacesOfDocuments
<1> HIDE DEF d
<1> DEFINE P == {p \in (DOMAIN Blocks) \X (1..MaxTopK) : Stands(p[1], p[2], d)}
<1>7. \A p \in P : p = <<Before + 1, i>>
  BY <1>5
<1>8. <<Before + 1, i>> \in P
  BY <1>3, <1>4, <1>6
<1>9. P = {<<Before + 1, i>>}
  <2> HIDE DEF P
  <2> QED
    BY <1>7, <1>8
<1>10. Positions(d) = P
  BY PositionsAreStandings
<1> QED
  BY <1>9, <1>10 DEF d

(* A translation stands in the block of its language, and only there. *)
LEMMA TranslationHasOnePlace ==
    ASSUME response.blocks = Blocks, IndicesComeFromSnapshot,
           IsShownList(verses, "quran_ayah"), IsShownList(translations, "translation"),
           NEW i \in DOMAIN translations
    PROVE  \E n \in DOMAIN ShownLanguages : \E k \in 1..Cardinality(Group(n)) :
             /\ Positions(translations[i].doc) = {<<Before + 1 + n, k>>}
             /\ ShownLanguages[n] = translations[i].doc.language
             /\ InOrder(Group(n))[k] = i
<1> DEFINE d == translations[i].doc
<1>1. ShownLanguages \in Seq(ShownCodes)
  BY LanguagesOfAnAnswer
<1>2. /\ Before \in {0, 1} /\ Len(ShownLanguages) \in Nat
      /\ DOMAIN ShownLanguages = 1..Len(ShownLanguages)
      /\ DOMAIN Blocks = 1..(Before + 1 + Len(ShownLanguages))
  BY <1>1, BlocksInOrder
<1>3. /\ \A k, m \in DOMAIN translations : translations[k].doc = translations[m].doc => k = m
      /\ d.type = "translation"
      /\ \A k \in DOMAIN verses : verses[k].doc.type = "quran_ayah"
  BY DEF IsShownList
<1>4. PICK n \in DOMAIN ShownLanguages : ShownLanguages[n] = d.language
  BY LanguagesOfAnAnswer
<1>5. i \in Group(n)
  BY <1>4 DEF Group, OfLanguage
<1>6. PICK k \in 1..Cardinality(Group(n)) : InOrder(Group(n))[k] = i
  BY <1>5, GroupsInOrder
<1>7. ASSUME NEW b, NEW j, Stands(b, j, d)
      PROVE  b = Before + 1 + n /\ j = k
  <2>1. ~(j \in DOMAIN verses /\ verses[j].doc = d)
    BY <1>3
  <2>2. PICK m \in DOMAIN ShownLanguages :
          /\ b = Before + 1 + m
          /\ j \in 1..Cardinality(Group(m))
          /\ translations[InOrder(Group(m))[j]].doc = d
    BY <1>1, <1>7, <2>1, PlacesOfDocuments
  <2>3. InOrder(Group(m))[j] \in Group(m)
    BY <2>2, GroupsInOrder
  <2>4. InOrder(Group(m))[j] = i
    BY <1>3, <2>2, <2>3 DEF Group, OfLanguage
  <2>5. ShownLanguages[m] = d.language
    BY <2>3, <2>4 DEF Group, OfLanguage
  <2>6. m = n
    BY <1>4, <2>5, LanguagesOfAnAnswer
  <2>7. j = k
    BY <1>6, <2>2, <2>4, <2>6, GroupsInOrder
  <2> QED
    BY <2>2, <2>6, <2>7
<1>8. Stands(Before + 1 + n, k, d)
  BY <1>1, <1>6, PlacesOfDocuments
<1>9. Before + 1 + n \in DOMAIN Blocks
  BY <1>2
<1>10. k \in 1..MaxTopK
  <2>1. Cardinality(Group(n)) \in Nat /\ Cardinality(Group(n)) <= MaxTopK
    BY GroupsInOrder
  <2> QED
    BY <1>6, <2>1, AnswerAssumption
<1> HIDE DEF d
<1> DEFINE P == {p \in (DOMAIN Blocks) \X (1..MaxTopK) : Stands(p[1], p[2], d)}
<1>11. \A p \in P : p = <<Before + 1 + n, k>>
  BY <1>7
<1>12. <<Before + 1 + n, k>> \in P
  BY <1>8, <1>9, <1>10
<1>13. P = {<<Before + 1 + n, k>>}
  <2> HIDE DEF P
  <2> QED
    BY <1>11, <1>12
<1>14. Positions(d) = {<<Before + 1 + n, k>>}
  BY <1>13, PositionsAreStandings
<1> QED
  BY <1>4, <1>6, <1>14 DEF d

(* Grouping the answer by language loses nothing, repeats nothing and keeps
   the order of the candidates. *)
THEOREM GroupingKeepsCandidates == Spec => []CandidatesAreShownOnce
<1>1. IndicesComeFromSnapshot /\ AnswerInv => CandidatesAreShownOnce
  <2> SUFFICES ASSUME IndicesComeFromSnapshot, AnswerInv, pc = "done",
                      NEW c \in {verses, translations}, NEW i \in DOMAIN c, NEW j \in DOMAIN c
               PROVE  \E p \in Positions(c[i].doc), q \in Positions(c[j].doc) :
                        /\ Positions(c[i].doc) = {p}
                        /\ response.blocks[p[1]].language = c[i].doc.language
                        /\ p[1] = q[1] /\ i < j => p[2] < q[2]
    BY DEF CandidatesAreShownOnce
  <2>1. IsShownList(verses, "quran_ayah") /\ IsShownList(translations, "translation")
    BY ListsOfAnAnswer
  <2>2. response.blocks = Blocks
    BY DEF AnswerInv
  <2>3. ShownLanguages \in Seq(ShownCodes)
    BY <2>1, LanguagesOfAnAnswer
  <2>4. CASE c = verses
    <3>1. /\ Positions(c[i].doc) = {<<Before + 1, i>>}
          /\ Positions(c[j].doc) = {<<Before + 1, j>>}
      BY <2>1, <2>2, <2>3, <2>4, VerseHasOnePlace
    <3>2. Blocks[Before + 1].language = Arabic
      <4>1. ResultBlock(verses, Arabic, TRUE).language = Arabic
        BY FieldsOfBlocks
      <4> QED
        BY <2>3, <4>1, BlocksInOrder
    <3>3. c[i].doc.language = Arabic
      <4> DEFINE R == [doc : Documents(snapshot), score : Scores, by : SUBSET Retrievers]
      <4>1. verses \in Seq(R) /\ verses[i].doc.type = "quran_ayah"
        BY <2>1, <2>4 DEF IsShownList
      <4>2. verses[i] \in R
        <5> HIDE DEF R
        <5> QED
          BY <2>4, <4>1
      <4>3. \E a \in snapshot.ayahs : verses[i].doc = ArabicDocument(a)
        BY <4>1, <4>2, KindsOfDocuments DEF TranslationDocument
      <4> QED
        BY <2>4, <4>3 DEF ArabicDocument
    <3> QED
      BY <2>2, <3>1, <3>2, <3>3
  <2>5. CASE c = translations
    <3>1. PICK n \in DOMAIN ShownLanguages : \E k \in 1..Cardinality(Group(n)) :
            /\ Positions(c[i].doc) = {<<Before + 1 + n, k>>}
            /\ ShownLanguages[n] = c[i].doc.language
            /\ InOrder(Group(n))[k] = i
      BY <2>1, <2>2, <2>5, TranslationHasOnePlace
    <3>2. PICK k \in 1..Cardinality(Group(n)) :
            /\ Positions(c[i].doc) = {<<Before + 1 + n, k>>}
            /\ ShownLanguages[n] = c[i].doc.language
            /\ InOrder(Group(n))[k] = i
      BY <3>1
    <3>3. PICK m \in DOMAIN ShownLanguages : \E h \in 1..Cardinality(Group(m)) :
            /\ Positions(c[j].doc) = {<<Before + 1 + m, h>>}
            /\ ShownLanguages[m] = c[j].doc.language
            /\ InOrder(Group(m))[h] = j
      BY <2>1, <2>2, <2>5, TranslationHasOnePlace
    <3>4. PICK h \in 1..Cardinality(Group(m)) :
            /\ Positions(c[j].doc) = {<<Before + 1 + m, h>>}
            /\ InOrder(Group(m))[h] = j
      BY <3>3
    <3>5. Blocks[Before + 1 + n].language = c[i].doc.language
      <4> DEFINE g == Picked(translations, OfLanguage(translations, ShownLanguages[n]))
      <4>2. Blocks[Before + 1 + n] = ResultBlock(g, ShownLanguages[n], FALSE)
        BY <2>3, BlocksInOrder
      <4> HIDE DEF g
      <4>1. ResultBlock(g, ShownLanguages[n], FALSE).language = ShownLanguages[n]
        BY DEF ResultBlock
      <4> QED
        BY <3>2, <4>1, <4>2
    <3>6. ASSUME Before + 1 + n = Before + 1 + m, i < j
          PROVE  k < h
      <4>1. m = n
        BY <2>3, <3>6, BlocksInOrder
      <4>2. /\ \A x, y \in 1..Cardinality(Group(n)) : x < y => InOrder(Group(n))[x] < InOrder(Group(n))[y]
            /\ Group(n) \subseteq Nat /\ i \in Group(n) /\ j \in Group(n)
            /\ Cardinality(Group(n)) \in Nat
        BY <2>1, <3>2, <3>4, <4>1, GroupsInOrder
      <4>3. ~(h < k) /\ h # k
        BY <3>2, <3>4, <3>6, <4>1, <4>2
      <4> QED
        BY <3>2, <3>4, <4>1, <4>2, <4>3
    <3> DEFINE p == <<Before + 1 + n, k>>
               q == <<Before + 1 + m, h>>
    <3>7. p[1] = Before + 1 + n /\ p[2] = k /\ q[1] = Before + 1 + m /\ q[2] = h
      OBVIOUS
    <3>8. Positions(c[i].doc) = {p} /\ Positions(c[j].doc) = {q}
      BY <3>2, <3>4
    <3> HIDE DEF p, q
    <3> QED
      BY <2>2, <3>5, <3>6, <3>7, <3>8
  <2> QED
    BY <2>4, <2>5
<1> QED
  BY <1>1, Provenance, AnswersAreMadeOfLists, PTL

-----------------------------------------------------------------------------
(* Overall confidence *)

(* Candidates both retrievers found, among those at some positions. *)
AgreedAt(c, X) == {i \in X : c[i].by = Retrievers}

(* The agreement of the translations of one language is that at their places. *)
LEMMA AgreedInGroup ==
    ASSUME IsShownList(translations, "translation"), NEW n
    PROVE  /\ IsFiniteSet(AgreedAt(translations, Group(n)))
           /\ Cardinality(AgreedAt(translations, Group(n))) \in Nat
           /\ Agreed(Picked(translations, Group(n))) = Cardinality(AgreedAt(translations, Group(n)))
<1> DEFINE X == Group(n)
           picked == Picked(translations, X)
           S == {k \in 1..Cardinality(X) : picked[k].by = Retrievers}
           T == AgreedAt(translations, X)
           f == [k \in S |-> InOrder(X)[k]]
<1>1. /\ Cardinality(X) \in Nat /\ IsFiniteSet(X)
      /\ DOMAIN picked = 1..Cardinality(X)
      /\ \A k \in 1..Cardinality(X) : /\ InOrder(X)[k] \in X
                                      /\ picked[k] = translations[InOrder(X)[k]]
      /\ \A k, m \in 1..Cardinality(X) : InOrder(X)[k] = InOrder(X)[m] => k = m
      /\ \A i \in X : \E k \in 1..Cardinality(X) : InOrder(X)[k] = i
  BY GroupsInOrder
<1>2. IsFiniteSet(S)
  <2>1. IsFiniteSet(1..Cardinality(X))
    BY <1>1, FS_Interval
  <2>2. S \in SUBSET (1..Cardinality(X))
    OBVIOUS
  <2> QED
    BY <2>1, <2>2, FS_Subset
<1>3. Agreed(picked) = Cardinality(S)
  BY <1>1 DEF Agreed
<1> HIDE DEF X, picked
<1>4. \A k \in S : f[k] \in T
  BY <1>1 DEF AgreedAt
<1>5. \A k, m \in S : f[k] = f[m] => k = m
  BY <1>1
<1>6. \A i \in T : \E k \in S : f[k] = i
  <2> SUFFICES ASSUME NEW i \in X, translations[i].by = Retrievers
               PROVE  \E k \in S : f[k] = i
    BY DEF AgreedAt
  <2>1. PICK k \in 1..Cardinality(X) : InOrder(X)[k] = i
    BY <1>1
  <2>2. picked[k] = translations[i]
    BY <1>1, <2>1
  <2>3. k \in S /\ f[k] = i
    BY <2>1, <2>2
  <2> QED
    BY <2>3
<1>7. f \in [S -> T]
  BY <1>4
<1> HIDE DEF S, T, f
<1>8. IsFiniteSet(T) /\ Cardinality(T) = Cardinality(S)
  BY <1>2, <1>5, <1>6, <1>7, Relabelled
<1>9. Cardinality(T) \in Nat
  BY <1>8, FS_CardinalityType
<1> QED
  BY <1>3, <1>8, <1>9 DEF T, X, picked

(* Agreement of two lists, one after the other, adds up. *)
LEMMA AgreedJoined ==
    ASSUME NEW R, NEW v, NEW t, v \in Seq(R), t \in Seq(R)
    PROVE  /\ Agreed(v) \in Nat /\ Agreed(v) <= Len(v)
           /\ Agreed(t) \in Nat /\ Agreed(t) <= Len(t)
           /\ Agreed(v \o t) = Agreed(v) + Agreed(t)
<1> DEFINE S(c) == {i \in DOMAIN c : c[i].by = Retrievers}
           n == Len(v)
           m == Len(t)
           c == v \o t
           T == {i \in (n + 1)..(n + m) : c[i].by = Retrievers}
           f == [i \in S(t) |-> n + i]
<1>1. n \in Nat /\ m \in Nat /\ DOMAIN v = 1..n /\ DOMAIN t = 1..m
  OBVIOUS
<1>2. DOMAIN c = 1..(n + m)
  BY Joined
<1>3. \A i \in 1..n : c[i] = v[i]
  BY Joined
<1>4. \A j \in 1..m : c[n + j] = t[j]
  BY Joined
<1> HIDE DEF n, m, c
<1>5. ASSUME NEW s, NEW k \in Nat, DOMAIN s = 1..k
      PROVE  IsFiniteSet(S(s)) /\ Cardinality(S(s)) \in Nat /\ Cardinality(S(s)) <= k
  <2>1. S(s) \in SUBSET (1..k)
    BY <1>5
  <2>2. IsFiniteSet(1..k) /\ Cardinality(1..k) = k
    BY FS_Interval
  <2> HIDE DEF S
  <2>3. IsFiniteSet(S(s)) /\ Cardinality(S(s)) <= k
    BY <2>1, <2>2, FS_Subset
  <2> QED
    BY <2>3, FS_CardinalityType
<1>6. /\ IsFiniteSet(S(v)) /\ Cardinality(S(v)) \in Nat /\ Cardinality(S(v)) <= n
      /\ IsFiniteSet(S(t)) /\ Cardinality(S(t)) \in Nat /\ Cardinality(S(t)) <= m
  <2> HIDE DEF S
  <2> QED
    BY <1>1, <1>5
<1>7. \A i \in S(t) : n + i \in T
  <2> SUFFICES ASSUME NEW i \in S(t)
               PROVE  n + i \in T
    OBVIOUS
  <2>1. i \in 1..m /\ t[i].by = Retrievers
    BY <1>1
  <2>2. n + i \in (n + 1)..(n + m) /\ c[n + i] = t[i]
    BY <1>1, <1>4, <2>1
  <2> QED
    BY <2>1, <2>2
<1>8. \A j \in T : \E i \in S(t) : n + i = j
  <2> SUFFICES ASSUME NEW j \in (n + 1)..(n + m), c[j].by = Retrievers
               PROVE  \E i \in S(t) : n + i = j
    OBVIOUS
  <2>1. j - n \in 1..m /\ n + (j - n) = j
    BY <1>1
  <2>2. c[j] = t[j - n]
    BY <1>4, <2>1
  <2>3. j - n \in S(t)
    BY <1>1, <2>1, <2>2
  <2> QED
    BY <2>1, <2>3
<1>9. \A i \in S(t) : i \in Nat
  BY <1>1
<1>10. f \in [S(t) -> T] /\ \A i, j \in S(t) : f[i] = f[j] => i = j
  BY <1>1, <1>7, <1>9
<1>11. \A j \in T : \E i \in S(t) : f[i] = j
  BY <1>8
<1>12. S(c) = S(v) \cup T /\ S(v) \cap T = {}
  <2>1. \A i \in 1..(n + m) : i \in 1..n \/ i \in (n + 1)..(n + m)
    BY <1>1
  <2>2. \A i \in 1..n : i \in 1..(n + m) /\ i \notin (n + 1)..(n + m)
    BY <1>1
  <2>3. \A i \in (n + 1)..(n + m) : i \in 1..(n + m)
    BY <1>1
  <2> QED
    BY <1>1, <1>2, <1>3, <2>1, <2>2, <2>3
<1>13. Agreed(v) = Cardinality(S(v)) /\ Agreed(t) = Cardinality(S(t)) /\ Agreed(c) = Cardinality(S(c))
  BY DEF Agreed
<1> HIDE DEF S, T, f
<1>14. IsFiniteSet(T) /\ Cardinality(T) = Cardinality(S(t))
  BY <1>6, <1>10, <1>11, Relabelled
<1>15. Cardinality(S(v) \cup T) = Cardinality(S(v)) + Cardinality(T) - Cardinality(S(v) \cap T)
  BY <1>6, <1>14, FS_Union
<1>16. Cardinality(S(v) \cap T) = 0
  BY <1>12, FS_EmptySet
<1>17. Cardinality(S(c)) = Cardinality(S(v)) + Cardinality(S(t))
  BY <1>6, <1>12, <1>14, <1>15, <1>16
<1> QED
  BY <1>6, <1>13, <1>17 DEF n, m, c

(* Translations of the first n languages shown. *)
UpTo(n) == {i \in DOMAIN translations : \E m \in 1..n : i \in Group(m)}

(* The languages divide the translations among them. *)
LEMMA GroupsAreDisjoint ==
    ASSUME IndicesComeFromSnapshot, IsShownList(translations, "translation")
    PROVE  /\ UpTo(0) = {} /\ UpTo(Len(ShownLanguages)) = DOMAIN translations
           /\ Len(ShownLanguages) \in Nat
           /\ \A n \in 0..Len(ShownLanguages) : n < Len(ShownLanguages) =>
                /\ UpTo(n + 1) = UpTo(n) \cup Group(n + 1)
                /\ UpTo(n) \cap Group(n + 1) = {}
<1> DEFINE K == Len(ShownLanguages)
<1>1. /\ K \in Nat /\ DOMAIN ShownLanguages = 1..K
      /\ \A m, n \in 1..K : ShownLanguages[m] = ShownLanguages[n] => m = n
      /\ \A i \in DOMAIN translations :
           \E n \in 1..K : ShownLanguages[n] = translations[i].doc.language
  BY LanguagesOfAnAnswer
<1> HIDE DEF K
<1>2. \A n, i : i \in Group(n) <=> i \in DOMAIN translations /\ translations[i].doc.language = ShownLanguages[n]
  BY DEF Group, OfLanguage
<1>3. UpTo(0) = {}
  <2>1. 1..0 = {}
    OBVIOUS
  <2> QED
    BY <2>1 DEF UpTo
<1>4. UpTo(K) = DOMAIN translations
  <2>1. \A i \in DOMAIN translations : \E n \in 1..K : i \in Group(n)
    BY <1>1, <1>2
  <2> QED
    BY <2>1 DEF UpTo
<1>5. ASSUME NEW n \in 0..K, n < K
      PROVE  UpTo(n + 1) = UpTo(n) \cup Group(n + 1) /\ UpTo(n) \cap Group(n + 1) = {}
  <2>1. \A m : m \in 1..(n + 1) <=> m \in 1..n \/ m = n + 1
    BY <1>1, <1>5
  <2>2. UpTo(n + 1) = UpTo(n) \cup Group(n + 1)
    BY <1>2, <2>1 DEF UpTo
  <2>3. \A m \in 1..n : m \in 1..K /\ n + 1 \in 1..K /\ m # n + 1
    BY <1>1, <1>5
  <2>4. \A m \in 1..n : ShownLanguages[m] # ShownLanguages[n + 1]
    BY <1>1, <2>3
  <2>5. UpTo(n) \cap Group(n + 1) = {}
    BY <1>2, <2>4 DEF UpTo
  <2> QED
    BY <2>2, <2>5
<1> QED
  BY <1>1, <1>3, <1>4, <1>5 DEF K

(* Their sizes add up to that of the list, and so do their agreements. *)
LEMMA GroupsAddUp ==
    ASSUME IndicesComeFromSnapshot, IsShownList(translations, "translation")
    PROVE  LET K == Len(ShownLanguages)
               size == [n \in 0..K |-> Cardinality(UpTo(n))]
               agreed == [n \in 0..K |-> Cardinality(AgreedAt(translations, UpTo(n)))]
           IN  /\ size \in [0..K -> Nat] /\ agreed \in [0..K -> Nat]
               /\ size[0] = 0 /\ agreed[0] = 0
               /\ size[K] = Len(translations) /\ agreed[K] = Agreed(translations)
               /\ \A n \in 0..K : n < K =>
                    /\ size[n + 1] = size[n] + Len(Picked(translations, Group(n + 1)))
                    /\ agreed[n + 1] = agreed[n] + Agreed(Picked(translations, Group(n + 1)))
<1> DEFINE K == Len(ShownLanguages)
           A(X) == AgreedAt(translations, X)
<1>1. /\ UpTo(0) = {} /\ UpTo(K) = DOMAIN translations
      /\ K \in Nat
      /\ \A n \in 0..K : n < K =>
           UpTo(n + 1) = UpTo(n) \cup Group(n + 1) /\ UpTo(n) \cap Group(n + 1) = {}
  BY GroupsAreDisjoint
<1>2. /\ DOMAIN translations = 1..Len(translations) /\ Len(translations) \in Nat
      /\ IsFiniteSet(DOMAIN translations) /\ Cardinality(DOMAIN translations) = Len(translations)
  <2>1. DOMAIN translations = 1..Len(translations) /\ Len(translations) \in Nat
    BY DEF IsShownList
  <2> DEFINE n == Len(translations)
  <2>2. IsFiniteSet(1..n) /\ Cardinality(1..n) = n
    <3> HIDE DEF n
    <3>1. n \in Nat
      BY <2>1 DEF n
    <3> QED
      BY <3>1, FS_Interval
  <2> QED
    BY <2>1, <2>2
<1>3. \A X, Y : A(X \cup Y) = A(X) \cup A(Y)
  BY DEF AgreedAt
<1>4. \A X, Y : X \cap Y = {} => A(X) \cap A(Y) = {}
  BY DEF AgreedAt
<1>5. \A X : A(X) \in SUBSET X
  BY DEF AgreedAt
<1>6. Agreed(translations) = Cardinality(A(UpTo(K)))
  BY <1>1 DEF Agreed, AgreedAt
<1> HIDE DEF A, K
<1>7. \A n : IsFiniteSet(UpTo(n)) /\ Cardinality(UpTo(n)) \in Nat
  <2> SUFFICES ASSUME NEW n
               PROVE  IsFiniteSet(UpTo(n)) /\ Cardinality(UpTo(n)) \in Nat
    OBVIOUS
  <2>1. UpTo(n) \in SUBSET DOMAIN translations
    BY DEF UpTo
  <2>2. IsFiniteSet(UpTo(n))
    BY <1>2, <2>1, FS_Subset
  <2> QED
    BY <2>2, FS_CardinalityType
<1>8. \A n : IsFiniteSet(A(UpTo(n))) /\ Cardinality(A(UpTo(n))) \in Nat
  <2> SUFFICES ASSUME NEW n
               PROVE  IsFiniteSet(A(UpTo(n))) /\ Cardinality(A(UpTo(n))) \in Nat
    OBVIOUS
  <2>2. IsFiniteSet(A(UpTo(n)))
    BY <1>5, <1>7, FS_Subset
  <2> QED
    BY <2>2, FS_CardinalityType
<1>9. Cardinality(UpTo(0)) = 0 /\ Cardinality(A(UpTo(0))) = 0
  <2>1. A({}) = {}
    BY <1>5
  <2> QED
    BY <1>1, <2>1, FS_EmptySet
<1>10. ASSUME NEW n \in 0..K, n < K
       PROVE  /\ Cardinality(UpTo(n + 1)) = Cardinality(UpTo(n)) + Len(Picked(translations, Group(n + 1)))
              /\ Cardinality(A(UpTo(n + 1)))
                   = Cardinality(A(UpTo(n))) + Agreed(Picked(translations, Group(n + 1)))
  <2> DEFINE G == Group(n + 1)
             P == Picked(translations, Group(n + 1))
  <2>1. IsFiniteSet(G) /\ Cardinality(G) \in Nat /\ Len(P) = Cardinality(G)
    BY GroupsInOrder
  <2>2. IsFiniteSet(A(G)) /\ Cardinality(A(G)) \in Nat /\ Agreed(P) = Cardinality(A(G))
    BY AgreedInGroup DEF A
  <2>3. UpTo(n + 1) = UpTo(n) \cup G /\ UpTo(n) \cap G = {}
    BY <1>1, <1>10
  <2> HIDE DEF G, P
  <2>4. A(UpTo(n + 1)) = A(UpTo(n)) \cup A(G) /\ A(UpTo(n)) \cap A(G) = {}
    BY <1>3, <1>4, <2>3
  <2>5. Cardinality({}) = 0
    BY FS_EmptySet
  <2>6. Cardinality(UpTo(n) \cup G) = Cardinality(UpTo(n)) + Cardinality(G) - Cardinality(UpTo(n) \cap G)
    BY <1>7, <2>1, FS_Union
  <2>7. Cardinality(A(UpTo(n)) \cup A(G))
          = Cardinality(A(UpTo(n))) + Cardinality(A(G)) - Cardinality(A(UpTo(n)) \cap A(G))
    BY <1>8, <2>2, FS_Union
  <2>8. Cardinality(UpTo(n + 1)) = Cardinality(UpTo(n)) + Len(P)
    <3> DEFINE a == Cardinality(UpTo(n))
               b == Cardinality(G)
    <3>1. a \in Nat /\ b \in Nat /\ Cardinality(UpTo(n + 1)) = a + b - 0
      BY <1>7, <2>1, <2>3, <2>5, <2>6
    <3>2. a + b - 0 = a + b
      <4> HIDE DEF a, b
      <4> QED
        BY <3>1
    <3> QED
      BY <2>1, <3>1, <3>2
  <2>9. Cardinality(A(UpTo(n + 1))) = Cardinality(A(UpTo(n))) + Agreed(P)
    <3> DEFINE a == Cardinality(A(UpTo(n)))
               b == Cardinality(A(G))
    <3>1. a \in Nat /\ b \in Nat /\ Cardinality(A(UpTo(n + 1))) = a + b - 0
      BY <1>8, <2>2, <2>4, <2>5, <2>7
    <3>2. a + b - 0 = a + b
      <4> HIDE DEF a, b
      <4> QED
        BY <3>1
    <3> QED
      BY <2>2, <3>1, <3>2
  <2> QED
    BY <2>8, <2>9 DEF P
<1> DEFINE size == [n \in 0..K |-> Cardinality(UpTo(n))]
           agreed == [n \in 0..K |-> Cardinality(A(UpTo(n)))]
<1>11. 0 \in 0..K /\ K \in 0..K /\ \A n \in 0..K : n < K => n + 1 \in 0..K
  BY <1>1
<1>12. size \in [0..K -> Nat] /\ agreed \in [0..K -> Nat]
  BY <1>7, <1>8
<1>13. /\ size[0] = 0 /\ agreed[0] = 0
       /\ size[K] = Len(translations) /\ agreed[K] = Agreed(translations)
  BY <1>1, <1>2, <1>6, <1>9, <1>11
<1>14. \A n \in 0..K : n < K =>
         /\ size[n + 1] = size[n] + Len(Picked(translations, Group(n + 1)))
         /\ agreed[n + 1] = agreed[n] + Agreed(Picked(translations, Group(n + 1)))
  BY <1>10, <1>11
<1>15. agreed = [n \in 0..K |-> Cardinality(AgreedAt(translations, UpTo(n)))]
  BY DEF A
<1> HIDE DEF size, agreed
<1> QED
  BY <1>12, <1>13, <1>14, <1>15 DEF K, size

(* The list behind the n-th block of results: the verses, then a list per language. *)
Part(n) == IF n = 0 THEN verses ELSE Picked(translations, Group(n))

(* The blocks with results are the parts that are not empty. *)
LEMMA PartsAreBlocks ==
    ASSUME IndicesComeFromSnapshot,
           IsShownList(verses, "quran_ayah"), IsShownList(translations, "translation")
    PROVE  /\ Len(ShownLanguages) \in Nat
           /\ \A n \in 0..Len(ShownLanguages) :
                /\ Part(n) \in Seq([doc : Documents(snapshot), score : Scores, by : SUBSET Retrievers])
                /\ Before + 1 + n \in DOMAIN Blocks
                /\ Blocks[Before + 1 + n].confidence = Confidence(Part(n))
                /\ Blocks[Before + 1 + n].items # << >> <=> Part(n) # << >>
           /\ \A b \in DOMAIN Blocks : Blocks[b].items # << >> =>
                \E n \in 0..Len(ShownLanguages) : b = Before + 1 + n
<1> DEFINE K == Len(ShownLanguages)
           R == [doc : Documents(snapshot), score : Scores, by : SUBSET Retrievers]
<1>0. ShownLanguages \in Seq(ShownCodes)
  BY LanguagesOfAnAnswer
<1>1. /\ Before \in {0, 1} /\ K \in Nat /\ DOMAIN ShownLanguages = 1..K
      /\ DOMAIN Blocks = 1..(Before + 1 + K)
      /\ Before = 1 => Blocks[1] = ChartBlock
      /\ Blocks[Before + 1] = ResultBlock(verses, Arabic, TRUE)
      /\ \A n \in 1..K :
           Blocks[Before + 1 + n] = ResultBlock(Picked(translations, Group(n)), ShownLanguages[n], FALSE)
  BY <1>0, BlocksInOrder DEF Group
<1>2. verses \in Seq(R)
  BY DEF IsShownList
<1>3. \A n : Picked(translations, Group(n)) \in Seq(R)
  BY GroupsInOrder
<1> HIDE DEF K
<1>4. \A n \in 0..K : Part(n) \in Seq(R)
  BY <1>2, <1>3 DEF Part
<1>5. \A n \in 0..K : Before + 1 + n \in DOMAIN Blocks
  BY <1>1
<1>6. \A n \in 0..K : n = 0 \/ n \in 1..K
  BY <1>1
<1>7. \A c, l : \A w \in BOOLEAN : /\ ResultBlock(c, l, w).items = Items(c)
                                   /\ ResultBlock(c, l, w).confidence = Confidence(c)
  BY FieldsOfBlocks
<1>8. ASSUME NEW n \in 0..K
      PROVE  /\ Blocks[Before + 1 + n].confidence = Confidence(Part(n))
             /\ Blocks[Before + 1 + n].items = Items(Part(n))
  <2>1. CASE n = 0
    <3>1. Before + 1 + 0 = Before + 1
      BY <1>1
    <3>2. Part(n) = verses /\ Blocks[Before + 1 + n] = ResultBlock(verses, Arabic, TRUE)
      BY <1>1, <2>1, <3>1 DEF Part
    <3> QED
      BY <1>7, <3>2, Zenon
  <2>2. CASE n \in 1..K
    <3>1. n # 0
      BY <2>2
    <3>2. /\ Part(n) = Picked(translations, Group(n))
          /\ Blocks[Before + 1 + n] = ResultBlock(Picked(translations, Group(n)), ShownLanguages[n], FALSE)
      BY <1>1, <2>2, <3>1 DEF Part
    <3> QED
      BY <1>7, <3>2, Zenon
  <2> QED
    BY <1>6, <2>1, <2>2
<1>9. ASSUME NEW c \in Seq(R)
      PROVE  Items(c) # << >> <=> c # << >>
  <2>1. /\ DOMAIN Items(c) = DOMAIN c
        /\ DOMAIN c = 1..Len(c) /\ Len(c) \in Nat /\ (c = << >> <=> Len(c) = 0)
    BY DEF Items
  <2>2. Items(c) \in Seq(Documents(snapshot)) /\ Len(Items(c)) = Len(c)
    <3>1. Items(c) = [i \in 1..Len(c) |-> c[i].doc]
      BY <2>1 DEF Items
    <3>2. \A i \in 1..Len(c) : c[i].doc \in Documents(snapshot)
      <4>1. \A i \in 1..Len(c) : c[i] \in R
        <5> HIDE DEF R
        <5> QED
          BY <2>1
      <4>2. \A x \in R : x.doc \in Documents(snapshot)
        OBVIOUS
      <4> HIDE DEF R
      <4> QED
        BY <4>1, <4>2
    <3> QED
      BY <2>1, <3>1, <3>2
  <2>3. ASSUME Len(c) = 0 PROVE Items(c) = << >>
    BY <2>2, <2>3
  <2>4. ASSUME Items(c) = << >> PROVE Len(c) = 0
    <3>1. Len(Items(c)) = 0
      BY <2>4
    <3> QED
      BY <2>2, <3>1
  <2> QED
    BY <2>1, <2>3, <2>4
<1>10. ASSUME NEW b \in DOMAIN Blocks, Blocks[b].items # << >>
       PROVE  \E n \in 0..K : b = Before + 1 + n
  <2>1. ~(Before = 1 /\ b = 1)
    BY <1>1, <1>10 DEF ChartBlock
  <2>2. CASE b = Before + 1
    <3>1. 0 \in 0..K /\ b = Before + 1 + 0
      BY <1>1, <2>2
    <3> QED
      BY <3>1
  <2>3. CASE \E n \in DOMAIN ShownLanguages : b = Before + 1 + n
    <3>1. PICK n \in DOMAIN ShownLanguages : b = Before + 1 + n
      BY <2>3
    <3>2. n \in 0..K
      BY <1>1, <3>1
    <3> QED
      BY <3>1, <3>2
  <2> QED
    BY <1>0, <2>1, <2>2, <2>3, KindsOfBlocks
<1> HIDE DEF R
<1>11. \A n \in 0..K : Blocks[Before + 1 + n].items # << >> <=> Part(n) # << >>
  BY <1>4, <1>8, <1>9
<1> QED
  BY <1>1, <1>4, <1>5, <1>8, <1>10, <1>11 DEF K, R

(* The best score of a list is one of its scores, and no other is higher. *)
LEMMA BestScoreIsReached ==
    ASSUME NEW D, NEW B, NEW c \in Seq([doc : D, score : Scores, by : B]), c # << >>
    PROVE  /\ BestScore(c) \in Nat
           /\ \E i \in DOMAIN c : c[i].score = BestScore(c)
           /\ \A i \in DOMAIN c : c[i].score <= BestScore(c)
<1> DEFINE f == [i \in DOMAIN c |-> c[i].score]
           S == {c[i].score : i \in DOMAIN c}
<1>1. DOMAIN c = 1..Len(c) /\ Len(c) \in Nat /\ DOMAIN c # {}
  <2>1. DOMAIN c = 1..Len(c) /\ Len(c) \in Nat /\ Len(c) # 0
    OBVIOUS
  <2>2. 1 \in 1..Len(c)
    BY <2>1
  <2> QED
    BY <2>1, <2>2
<1>2. \A i \in DOMAIN c : c[i].score \in Nat
  <2>1. Scores \subseteq Nat
    BY AnswerAssumption
  <2> DEFINE T == [doc : D, score : Scores, by : B]
  <2>2. \A i \in DOMAIN c : c[i] \in T
    <3> HIDE DEF T
    <3>1. c \in Seq(T)
      BY DEF T
    <3> QED
      BY <3>1
  <2>3. \A x \in T : x.score \in Scores
    OBVIOUS
  <2> HIDE DEF T
  <2> QED
    BY <2>1, <2>2, <2>3
<1>3. IsFiniteSet(DOMAIN c)
  BY <1>1, FS_Interval
<1>4. S = {f[i] : i \in DOMAIN c}
  OBVIOUS
<1>5. BestScore(c) = Max(S)
  BY DEF BestScore
<1>6. S \subseteq Int /\ S # {} /\ S \subseteq Nat /\ \A i \in DOMAIN c : c[i].score \in S
  BY <1>1, <1>2
<1>6a. \A m \in S : \E i \in DOMAIN c : c[i].score = m
  OBVIOUS
<1> HIDE DEF f
<1>7. IsFiniteSet(S)
  BY <1>3, <1>4, ImageIsFinite
<1> HIDE DEF S
<1>8. \E m \in S : \A x \in S : x <= m
  BY <1>6, <1>7, LargestOfFinite
<1>9. \E m \in S : \A x \in S : m >= x
  BY <1>6, <1>8
<1>10. Max(S) \in S /\ \A x \in S : Max(S) >= x
  BY <1>9 DEF Max
<1>11. \A x \in S : x <= Max(S)
  BY <1>6, <1>10
<1> QED
  BY <1>5, <1>6, <1>6a, <1>10, <1>11

(* The agreement of a list against that of all candidates, without dividing. *)
LEMMA ConfidenceFollowsAgreement ==
    ASSUME NEW a \in Nat, NEW l \in Nat, NEW A \in Nat, NEW L \in Nat
    PROVE  /\ A * l <= a * L => (35 * L + 40 * A) * (100 * l) <= (35 * l + 40 * a) * (100 * L)
           /\ a * L <= A * l => (35 * l + 40 * a) * (100 * L) <= (35 * L + 40 * A) * (100 * l)
<1>1. /\ (35 * L + 40 * A) * (100 * l) = 3500 * (L * l) + 4000 * (A * l)
      /\ (35 * l + 40 * a) * (100 * L) = 3500 * (L * l) + 4000 * (a * L)
  OBVIOUS
<1>2. L * l \in Nat /\ A * l \in Nat /\ a * L \in Nat
  OBVIOUS
<1> QED
  BY <1>1, <1>2

(* Of lists whose sizes and agreements add up, one agrees at least, and one at
   most, as well as all of them together. *)
LEMMA OneIsNotBelowTheMean ==
    ASSUME NEW k \in Nat, NEW l \in [0..k -> Nat], NEW a \in [0..k -> Nat],
           NEW x \in [0..k -> Nat], NEW y \in [0..k -> Nat],
           x[0] = l[0], y[0] = a[0],
           \A n \in 0..k : n < k => x[n + 1] = x[n] + l[n + 1] /\ y[n + 1] = y[n] + a[n + 1],
           \A n \in 0..k : a[n] <= l[n],
           \E n \in 0..k : l[n] # 0
    PROVE  /\ \E n \in 0..k : l[n] # 0 /\ y[k] * l[n] <= a[n] * x[k]
           /\ \E n \in 0..k : l[n] # 0 /\ a[n] * x[k] <= y[k] * l[n]
<1> DEFINE L == x[k]
           A == y[k]
           W(n) == a[n] * L - A * l[n]
           S(n) == y[n] * L - A * x[n]
           w == [n \in 0..k |-> W(n)]
           s == [n \in 0..k |-> S(n)]
           active == {n \in 0..k : l[n] # 0}
<1>0. 0 \in 0..k /\ k \in 0..k /\ \A n \in 0..k : n < k => n + 1 \in 0..k
  OBVIOUS
<1>1. L \in Nat /\ A \in Nat /\ 0 \in 0..k /\ k \in 0..k
  BY <1>0
<1>2. \A n \in 0..k : a[n] \in Nat /\ l[n] \in Nat /\ x[n] \in Nat /\ y[n] \in Nat
  OBVIOUS
<1>3. \A n \in 0..k : /\ a[n] * L \in Int /\ A * l[n] \in Int
                      /\ y[n] * L \in Int /\ A * x[n] \in Int
  <2> HIDE DEF L, A
  <2>1. \A p \in Nat : p * L \in Int /\ A * p \in Int
    BY <1>1
  <2> SUFFICES ASSUME NEW n \in 0..k
               PROVE  /\ a[n] * L \in Int /\ A * l[n] \in Int
                      /\ y[n] * L \in Int /\ A * x[n] \in Int
    OBVIOUS
  <2>2. a[n] \in Nat /\ l[n] \in Nat /\ x[n] \in Nat /\ y[n] \in Nat
    BY <1>2
  <2>3. a[n] * L \in Int
    BY <2>1, <2>2
  <2>4. A * l[n] \in Int
    BY <2>1, <2>2
  <2>5. y[n] * L \in Int
    BY <2>1, <2>2
  <2>6. A * x[n] \in Int
    BY <2>1, <2>2
  <2> QED
    BY <2>3, <2>4, <2>5, <2>6
<1>4. w \in [0..k -> Int] /\ s \in [0..k -> Int]
  <2>1. \A n \in 0..k : W(n) \in Int /\ S(n) \in Int
    <3>1. \A p, q \in Int : p - q \in Int
      OBVIOUS
    <3> QED
      BY <1>3, <3>1
  <2> HIDE DEF W, S
  <2> QED
    BY <2>1
<1>5. /\ \A n \in 0..k : w[n] = a[n] * L - A * l[n]
      /\ \A n \in 0..k : s[n] = y[n] * L - A * x[n]
  OBVIOUS
<1> HIDE DEF w, s
<1>6. s[0] = w[0]
  BY <1>1, <1>5
<1>7. s[k] = 0
  <2>1. s[k] = A * L - A * L
    BY <1>1, <1>5
  <2>2. A * L \in Int
    <3> HIDE DEF A, L
    <3> QED
      BY <1>1
  <2> QED
    BY <2>1, <2>2
<1> HIDE DEF L, A
<1>8. \A p, q, u, v \in Nat : (p + q) * L - A * (u + v) = (p * L - A * u) + (q * L - A * v)
  BY <1>1
<1>9. ASSUME NEW n \in 0..k, n < k
      PROVE  s[n + 1] = s[n] + w[n + 1]
  <2>1. n + 1 \in 0..k
    BY <1>0, <1>9
  <2>2. y[n] \in Nat /\ x[n] \in Nat /\ a[n + 1] \in Nat /\ l[n + 1] \in Nat
    BY <1>2, <2>1
  <2>3. s[n + 1] = (y[n] + a[n + 1]) * L - A * (x[n] + l[n + 1])
    BY <1>5, <1>9, <2>1
  <2>4. s[n] = y[n] * L - A * x[n] /\ w[n + 1] = a[n + 1] * L - A * l[n + 1]
    BY <1>5, <2>1
  <2>5. (y[n] + a[n + 1]) * L - A * (x[n] + l[n + 1])
          = (y[n] * L - A * x[n]) + (a[n + 1] * L - A * l[n + 1])
    <3> DEFINE p == y[n]
               q == a[n + 1]
               u == x[n]
               v == l[n + 1]
    <3>1. p \in Nat /\ q \in Nat /\ u \in Nat /\ v \in Nat
      BY <2>2
    <3>2. (p + q) * L - A * (u + v) = (p * L - A * u) + (q * L - A * v)
      <4> HIDE DEF p, q, u, v
      <4> QED
        BY <1>8, <3>1
    <3> QED
      BY <3>2
  <2> QED
    BY <2>3, <2>4, <2>5
<1>10. \A n \in (0..k) \ active : w[n] = 0
  <2> SUFFICES ASSUME NEW n \in 0..k, l[n] = 0
               PROVE  w[n] = 0
    OBVIOUS
  <2>1. a[n] = 0
    <3>1. a[n] \in Nat /\ a[n] <= 0
      BY <1>2
    <3> QED
      BY <3>1
  <2>2. 0 * L - A * 0 = 0
    BY <1>1
  <2> QED
    BY <1>5, <2>1, <2>2
<1>11. active \subseteq 0..k /\ active # {} /\ \A n \in active : l[n] # 0
  <2>1. PICK n \in 0..k : l[n] # 0
    OBVIOUS
  <2>2. n \in active
    BY <2>1
  <2>3. active \subseteq 0..k /\ \A i \in active : l[i] # 0
    OBVIOUS
  <2> QED
    BY <2>2, <2>3
<1> HIDE DEF active
<1>12. \E n \in active : w[n] >= 0
  BY <1>4, <1>6, <1>7, <1>9, <1>10, <1>11, NotAllNegative
<1>13. \E n \in active : w[n] <= 0
  BY <1>4, <1>6, <1>7, <1>9, <1>10, <1>11, NotAllPositive
<1>14. \A p, q \in Int : (p - q >= 0 => q <= p) /\ (p - q <= 0 => p <= q)
  OBVIOUS
<1>15. \A n \in 0..k : /\ w[n] >= 0 => A * l[n] <= a[n] * L
                       /\ w[n] <= 0 => a[n] * L <= A * l[n]
  BY <1>3, <1>5, <1>14
<1> QED
  BY <1>11, <1>12, <1>13, <1>15 DEF L, A

(* hybrid_v1: overall confidence is a mean of those of the blocks, by their sizes. *)
LEMMA HybridIsBetween ==
    ASSUME Hybrid, IndicesComeFromSnapshot,
           IsShownList(verses, "quran_ayah"), IsShownList(translations, "translation"),
           \E n \in 0..Len(ShownLanguages) : Part(n) # << >>
    PROVE  /\ \E n \in 0..Len(ShownLanguages) :
                Part(n) # << >> /\ LessOrEqual(Overall, Confidence(Part(n)))
           /\ \E n \in 0..Len(ShownLanguages) :
                Part(n) # << >> /\ LessOrEqual(Confidence(Part(n)), Overall)
<1> DEFINE K == Len(ShownLanguages)
           R == [doc : Documents(snapshot), score : Scores, by : SUBSET Retrievers]
           all == verses \o translations
           size == [n \in 0..K |-> Cardinality(UpTo(n))]
           agreed == [n \in 0..K |-> Cardinality(AgreedAt(translations, UpTo(n)))]
           l == [n \in 0..K |-> Len(Part(n))]
           a == [n \in 0..K |-> Agreed(Part(n))]
           x == [n \in 0..K |-> Len(verses) + size[n]]
           y == [n \in 0..K |-> Agreed(verses) + agreed[n]]
<1>1. K \in Nat /\ \A n \in 0..K : Part(n) \in Seq(R)
  BY PartsAreBlocks
<1>2. /\ size \in [0..K -> Nat] /\ agreed \in [0..K -> Nat]
      /\ size[0] = 0 /\ agreed[0] = 0
      /\ size[K] = Len(translations) /\ agreed[K] = Agreed(translations)
      /\ \A n \in 0..K : n < K =>
           /\ size[n + 1] = size[n] + Len(Picked(translations, Group(n + 1)))
           /\ agreed[n + 1] = agreed[n] + Agreed(Picked(translations, Group(n + 1)))
  BY GroupsAddUp
<1>3. verses \in Seq(R) /\ translations \in Seq(R)
  BY DEF IsShownList
<1> HIDE DEF R, K, size, agreed
<1>4. \A c \in Seq(R) : Agreed(c) \in Nat /\ Agreed(c) <= Len(c)
  BY AgreedJoined
<1>5. /\ Agreed(verses) \in Nat /\ Agreed(translations) \in Nat
      /\ Agreed(all) = Agreed(verses) + Agreed(translations)
  BY <1>3, AgreedJoined
<1>6. all \in Seq(R) /\ Len(all) = Len(verses) + Len(translations) /\ Len(verses) \in Nat
  BY <1>3
<1>7. \A c \in Seq(R) : Len(c) \in Nat /\ (c = << >> <=> Len(c) = 0)
  OBVIOUS
<1> HIDE DEF all
<1>8. 0 \in 0..K /\ K \in 0..K /\ \A n \in 0..K : n < K => n + 1 \in 0..K /\ n + 1 # 0
  BY <1>1
<1>9. l \in [0..K -> Nat] /\ a \in [0..K -> Nat]
  BY <1>1, <1>4, <1>7
<1>10. \A n \in 0..K : l[n] = Len(Part(n)) /\ a[n] = Agreed(Part(n)) /\ a[n] <= l[n]
  BY <1>1, <1>4
<1>11. \A n \in 0..K : x[n] = Len(verses) + size[n] /\ y[n] = Agreed(verses) + agreed[n]
  OBVIOUS
<1>12. x \in [0..K -> Nat] /\ y \in [0..K -> Nat]
  BY <1>2, <1>5, <1>6
<1> HIDE DEF l, a, x, y
<1>13. x[0] = l[0] /\ y[0] = a[0]
  BY <1>2, <1>5, <1>6, <1>8, <1>10, <1>11 DEF Part
<1>14. x[K] = Len(all) /\ y[K] = Agreed(all)
  BY <1>2, <1>5, <1>6, <1>8, <1>11
<1>15. ASSUME NEW n \in 0..K, n < K
       PROVE  x[n + 1] = x[n] + l[n + 1] /\ y[n + 1] = y[n] + a[n + 1]
  <2>1. n + 1 \in 0..K /\ Part(n + 1) = Picked(translations, Group(n + 1))
    BY <1>8, <1>15 DEF Part
  <2>2. size[n + 1] = size[n] + l[n + 1] /\ agreed[n + 1] = agreed[n] + a[n + 1]
    BY <1>2, <1>10, <1>15, <2>1
  <2>3. size[n] \in Nat /\ agreed[n] \in Nat /\ l[n + 1] \in Nat /\ a[n + 1] \in Nat
    BY <1>2, <1>9, <2>1
  <2>4. /\ x[n + 1] = Len(verses) + size[n + 1] /\ x[n] = Len(verses) + size[n]
        /\ y[n + 1] = Agreed(verses) + agreed[n + 1] /\ y[n] = Agreed(verses) + agreed[n]
    BY <1>11, <2>1
  <2>5. \A p, q, r \in Nat : p + (q + r) = (p + q) + r
    OBVIOUS
  <2>6. x[n + 1] = Len(verses) + (size[n] + l[n + 1])
    BY <2>2, <2>4
  <2>7. y[n + 1] = Agreed(verses) + (agreed[n] + a[n + 1])
    BY <2>2, <2>4
  <2>8. x[n + 1] = (Len(verses) + size[n]) + l[n + 1]
    BY <1>6, <2>3, <2>5, <2>6
  <2>9. y[n + 1] = (Agreed(verses) + agreed[n]) + a[n + 1]
    BY <1>5, <2>3, <2>5, <2>7
  <2> QED
    BY <2>4, <2>8, <2>9
<1>16. \A n \in 0..K : l[n] # 0 <=> Part(n) # << >>
  BY <1>1, <1>7, <1>10
<1>17. \E n \in 0..K : l[n] # 0
  BY <1>16 DEF K
<1>18. /\ \E n \in 0..K : l[n] # 0 /\ y[K] * l[n] <= a[n] * x[K]
       /\ \E n \in 0..K : l[n] # 0 /\ a[n] * x[K] <= y[K] * l[n]
  BY <1>1, <1>9, <1>10, <1>12, <1>13, <1>15, <1>17, OneIsNotBelowTheMean
<1>19. x[K] # 0
  <2>1. PICK n \in 0..K : l[n] # 0
    BY <1>17
  <2>2. CASE n = 0
    <3>1. Len(verses) # 0
      BY <1>10, <2>1, <2>2 DEF Part
    <3>2. Len(translations) \in Nat
      BY <1>3, <1>7
    <3> QED
      BY <1>6, <1>14, <3>1, <3>2
  <2>3. CASE n # 0
    <3>1. Part(n) = Picked(translations, Group(n))
      BY <2>3 DEF Part
    <3>2. n - 1 \in 0..K /\ n - 1 < K /\ (n - 1) + 1 = n
      BY <1>1, <2>1, <2>3
    <3>3. Len(Picked(translations, Group(n))) # 0
      BY <1>10, <2>1, <3>1
    <3>4. translations # << >>
      <4> SUFFICES ASSUME translations = << >>
                   PROVE  FALSE
        OBVIOUS
      <4>1. DOMAIN translations = 1..0 /\ 1..0 = {}
        OBVIOUS
      <4>2. Group(n) = {}
        BY <4>1 DEF Group, OfLanguage
      <4>3. Len(Picked(translations, Group(n))) = Cardinality(Group(n))
        BY GroupsInOrder
      <4> QED
        BY <3>3, <4>2, <4>3, FS_EmptySet
    <3>5. Len(translations) \in Nat /\ Len(translations) # 0
      BY <1>3, <1>7, <3>4
    <3> QED
      BY <1>6, <1>14, <3>5
  <2> QED
    BY <2>2, <2>3
<1>20. Overall = <<35 * x[K] + 40 * y[K], 100 * x[K]>>
  <2>1. all # << >>
    BY <1>6, <1>7, <1>14, <1>19
  <2> QED
    BY <1>14, <2>1 DEF Overall, Confidence, all
<1>21. ASSUME NEW n \in 0..K, l[n] # 0
       PROVE  Confidence(Part(n)) = <<35 * l[n] + 40 * a[n], 100 * l[n]>>
  BY <1>10, <1>16, <1>21 DEF Confidence
<1>22. x[K] \in Nat /\ y[K] \in Nat /\ \A n \in 0..K : l[n] \in Nat /\ a[n] \in Nat
  BY <1>8, <1>9, <1>12
<1>23. ASSUME NEW n \in 0..K, l[n] # 0, y[K] * l[n] <= a[n] * x[K]
       PROVE  LessOrEqual(Overall, Confidence(Part(n)))
  <2>1. (35 * x[K] + 40 * y[K]) * (100 * l[n]) <= (35 * l[n] + 40 * a[n]) * (100 * x[K])
    BY <1>22, <1>23, ConfidenceFollowsAgreement
  <2> QED
    BY <1>20, <1>21, <1>23, <2>1 DEF LessOrEqual
<1>24. ASSUME NEW n \in 0..K, l[n] # 0, a[n] * x[K] <= y[K] * l[n]
       PROVE  LessOrEqual(Confidence(Part(n)), Overall)
  <2>1. (35 * l[n] + 40 * a[n]) * (100 * x[K]) <= (35 * x[K] + 40 * y[K]) * (100 * l[n])
    BY <1>22, <1>24, ConfidenceFollowsAgreement
  <2> QED
    BY <1>20, <1>21, <1>24, <2>1 DEF LessOrEqual
<1> QED
  BY <1>16, <1>18, <1>23, <1>24 DEF K

(* lexical_v1: the best score of all is the best of one block. *)
LEMMA LexicalIsBetween ==
    ASSUME ~Hybrid, IndicesComeFromSnapshot,
           IsShownList(verses, "quran_ayah"), IsShownList(translations, "translation"),
           \E n \in 0..Len(ShownLanguages) : Part(n) # << >>
    PROVE  /\ \E n \in 0..Len(ShownLanguages) :
                Part(n) # << >> /\ LessOrEqual(Overall, Confidence(Part(n)))
           /\ \E n \in 0..Len(ShownLanguages) :
                Part(n) # << >> /\ LessOrEqual(Confidence(Part(n)), Overall)
<1> DEFINE K == Len(ShownLanguages)
           D == Documents(snapshot)
           B == SUBSET Retrievers
           R == [doc : D, score : Scores, by : B]
           all == verses \o translations
<1>1. K \in Nat /\ \A n \in 0..K : Part(n) \in Seq(R)
  BY PartsAreBlocks
<1>2. verses \in Seq(R) /\ translations \in Seq(R)
  BY DEF IsShownList
<1>3. /\ all \in Seq(R)
      /\ DOMAIN all = 1..(Len(verses) + Len(translations))
      /\ Len(verses) \in Nat /\ Len(translations) \in Nat
      /\ DOMAIN verses = 1..Len(verses) /\ DOMAIN translations = 1..Len(translations)
  <2> HIDE DEF R
  <2> QED
    BY <1>2
<1>4. \A i \in 1..Len(verses) : all[i] = verses[i]
  BY <1>2, Joined
<1>5. \A j \in 1..Len(translations) : all[Len(verses) + j] = translations[j]
  BY <1>2, Joined
<1>6. ASSUME NEW c \in Seq(R), c # << >>
      PROVE  /\ BestScore(c) \in Nat
             /\ \E i \in DOMAIN c : c[i].score = BestScore(c)
             /\ \A i \in DOMAIN c : c[i].score <= BestScore(c)
  BY <1>6, BestScoreIsReached
<1>7. \A c : Confidence(c) = <<BestScore(c), 1>>
  BY DEF Confidence
<1> HIDE DEF K, R, all
(* Every candidate is in a part, and every item of a part is a candidate. *)
<1>8. ASSUME NEW i \in DOMAIN all
      PROVE  \E n \in 0..K : \E k \in DOMAIN Part(n) : Part(n)[k] = all[i]
  <2>1. CASE i \in 1..Len(verses)
    <3>1. 0 \in 0..K /\ i \in DOMAIN Part(0) /\ Part(0)[i] = all[i]
      BY <1>1, <1>3, <1>4, <2>1 DEF Part
    <3> QED
      BY <3>1
  <2>2. CASE i \notin 1..Len(verses)
    <3>1. i - Len(verses) \in 1..Len(translations) /\ Len(verses) + (i - Len(verses)) = i
      BY <1>3, <1>8, <2>2
    <3>2. PICK j \in 1..Len(translations) : Len(verses) + j = i
      BY <3>1
    <3>3. all[i] = translations[j]
      BY <1>5, <3>2
    <3>4. PICK n \in DOMAIN ShownLanguages : ShownLanguages[n] = translations[j].doc.language
      BY <1>3, LanguagesOfAnAnswer
    <3>5. ShownLanguages \in Seq(ShownCodes)
      BY LanguagesOfAnAnswer
    <3>6. n \in 1..K
      BY <3>4, <3>5 DEF K
    <3>7. j \in Group(n)
      BY <1>3, <3>4 DEF Group, OfLanguage
    <3>8. n \in 0..K /\ Part(n) = Picked(translations, Group(n))
      BY <1>1, <3>6 DEF Part
    <3>9. PICK k \in 1..Cardinality(Group(n)) : InOrder(Group(n))[k] = j
      BY <3>7, GroupsInOrder
    <3>10. k \in DOMAIN Part(n) /\ Part(n)[k] = translations[j]
      BY <3>8, <3>9, GroupsInOrder
    <3> QED
      BY <3>3, <3>8, <3>10
  <2> QED
    BY <2>1, <2>2
<1>9. ASSUME NEW n \in 0..K, NEW k \in DOMAIN Part(n)
      PROVE  \E i \in DOMAIN all : all[i] = Part(n)[k]
  <2>1. CASE n = 0
    <3>1. k \in 1..Len(verses) /\ Part(n)[k] = verses[k]
      BY <1>3, <1>9, <2>1 DEF Part
    <3>2. k \in DOMAIN all /\ all[k] = verses[k]
      BY <1>3, <1>4, <3>1
    <3> QED
      BY <3>1, <3>2
  <2>2. CASE n # 0
    <3>1. Part(n) = Picked(translations, Group(n))
      BY <2>2 DEF Part
    <3>2. k \in 1..Cardinality(Group(n)) /\ Part(n)[k] = translations[InOrder(Group(n))[k]]
      BY <1>9, <3>1, GroupsInOrder
    <3>3. InOrder(Group(n))[k] \in Group(n)
      BY <3>2, GroupsInOrder
    <3>4. PICK j \in 1..Len(translations) : Part(n)[k] = translations[j]
      BY <1>3, <3>2, <3>3 DEF Group, OfLanguage
    <3>5. Len(verses) + j \in DOMAIN all /\ all[Len(verses) + j] = translations[j]
      BY <1>3, <1>5
    <3> QED
      BY <3>4, <3>5
  <2> QED
    BY <2>1, <2>2
<1>10. \A c \in Seq(R) : c # << >> <=> DOMAIN c # {}
  <2> SUFFICES ASSUME NEW c \in Seq(R)
               PROVE  c # << >> <=> DOMAIN c # {}
    OBVIOUS
  <2>1. DOMAIN c = 1..Len(c) /\ Len(c) \in Nat /\ (c = << >> <=> Len(c) = 0)
    OBVIOUS
  <2>2. \A m \in Nat : 1..m = {} <=> m = 0
    <3>1. \A m \in Nat : m # 0 => 1 \in 1..m
      OBVIOUS
    <3> QED
      BY <3>1
  <2> QED
    BY <2>1, <2>2
<1>11. PICK n \in 0..K : Part(n) # << >>
  BY DEF K
<1>12. PICK k \in DOMAIN Part(n) : TRUE
  BY <1>1, <1>10, <1>11
<1>13. all # << >>
  BY <1>3, <1>9, <1>10, <1>12
<1>14. /\ BestScore(all) \in Nat
       /\ \E i \in DOMAIN all : all[i].score = BestScore(all)
       /\ \A i \in DOMAIN all : all[i].score <= BestScore(all)
  BY <1>3, <1>6, <1>13
<1>15. PICK i \in DOMAIN all : all[i].score = BestScore(all)
  BY <1>14
<1>16. PICK m \in 0..K : \E q \in DOMAIN Part(m) : Part(m)[q] = all[i]
  BY <1>8
<1>17. PICK q \in DOMAIN Part(m) : Part(m)[q] = all[i]
  BY <1>16
<1>18. Part(m) # << >>
  BY <1>1, <1>10, <1>17
<1>19. BestScore(Part(m)) \in Nat /\ BestScore(all) <= BestScore(Part(m))
  BY <1>1, <1>6, <1>15, <1>17, <1>18
<1>20. BestScore(Part(n)) \in Nat /\ \E p \in DOMAIN Part(n) : Part(n)[p].score = BestScore(Part(n))
  BY <1>1, <1>6, <1>11
<1>21. PICK p \in DOMAIN Part(n) : Part(n)[p].score = BestScore(Part(n))
  BY <1>20
<1>22. BestScore(Part(n)) <= BestScore(all)
  <2>1. PICK j \in DOMAIN all : all[j] = Part(n)[p]
    BY <1>9
  <2> QED
    BY <1>14, <1>21, <2>1
<1>23. Overall = <<BestScore(all), 1>>
  BY <1>7 DEF Overall, all
<1>24. \A u, v \in Nat : u <= v => LessOrEqual(<<u, 1>>, <<v, 1>>)
  BY DEF LessOrEqual
<1>25. LessOrEqual(Overall, Confidence(Part(m)))
  BY <1>7, <1>14, <1>19, <1>23, <1>24
<1>26. LessOrEqual(Confidence(Part(n)), Overall)
  BY <1>7, <1>14, <1>20, <1>22, <1>23, <1>24
<1> QED
  BY <1>11, <1>18, <1>25, <1>26 DEF K

(* The overall confidence is between that of the most and that of the least
   confident block with results, whatever was found. *)
THEOREM OverallIsBetween == Spec => []OverallIsBetweenBlocks
<1>1. IndicesComeFromSnapshot /\ AnswerInv => OverallIsBetweenBlocks
  <2> DEFINE K == Len(ShownLanguages)
             blocks == response.blocks
             shown == {b \in DOMAIN blocks : blocks[b].items # << >>}
  <2> SUFFICES ASSUME IndicesComeFromSnapshot, AnswerInv, pc = "done", shown # {}
               PROVE  /\ \E b \in shown : LessOrEqual(response.confidence, blocks[b].confidence)
                      /\ \E b \in shown : LessOrEqual(blocks[b].confidence, response.confidence)
    BY DEF OverallIsBetweenBlocks
  <2>1. IsShownList(verses, "quran_ayah") /\ IsShownList(translations, "translation")
    BY ListsOfAnAnswer
  <2>2. blocks = Blocks /\ response.confidence = Overall
    BY DEF AnswerInv
  <2>3. /\ \A n \in 0..K :
             /\ Before + 1 + n \in DOMAIN Blocks
             /\ Blocks[Before + 1 + n].confidence = Confidence(Part(n))
             /\ Blocks[Before + 1 + n].items # << >> <=> Part(n) # << >>
        /\ \A b \in DOMAIN Blocks : Blocks[b].items # << >> => \E n \in 0..K : b = Before + 1 + n
    BY <2>1, PartsAreBlocks
  <2>4. \E n \in 0..K : Part(n) # << >>
    BY <2>2, <2>3
  <2>5. /\ \E n \in 0..K : Part(n) # << >> /\ LessOrEqual(Overall, Confidence(Part(n)))
        /\ \E n \in 0..K : Part(n) # << >> /\ LessOrEqual(Confidence(Part(n)), Overall)
    BY <2>1, <2>4, HybridIsBetween, LexicalIsBetween
  <2>6. \A n \in 0..K : Part(n) # << >> =>
          /\ Before + 1 + n \in shown
          /\ blocks[Before + 1 + n].confidence = Confidence(Part(n))
    BY <2>2, <2>3
  <2> HIDE DEF K, blocks, shown
  <2> QED
    BY <2>2, <2>5, <2>6
<1> QED
  BY <1>1, Provenance, AnswersAreMadeOfLists, PTL
=============================================================================
