--------------------------- MODULE SearchDocuments ---------------------------
(***************************************************************************)
(* What can be found, and what a request asks for: the documents of a      *)
(* corpus snapshot (src/search/indexing/documents.py), the part of them    *)
(* that is embedded (src/search/vector/corpus_policy.py), and the filters  *)
(* of a request with their two dialects (src/search/contracts.py,          *)
(* src/search/vector/mapping.py).                                          *)
(*                                                                         *)
(* A verse is its global number.  A language code is a number, in the      *)
(* order of the codes; 0 is a blank.  Fold takes a spelling of a code to   *)
(* the code, as strip and casefold do.  An optional value is a set of at   *)
(* most one.                                                               *)
(***************************************************************************)
EXTENDS Integers, FiniteSets, Sequences

CONSTANTS
    Fold,                   \* spelling -> language code, 0 when blank
    Arabic,                 \* the code "ar"
    CanonicalTranslations,  \* CANONICAL_TRANSLATION_SOURCE_IDS
    MaxSurah                \* 114 in the code

ASSUME VocabularyAssumption ==
    /\ \A spelling \in DOMAIN Fold : Fold[spelling] \in Nat
    /\ Arabic \in Nat \ {0}
    /\ {"quran-arabic", "quran-surah-names"} \cap CanonicalTranslations = {}
    /\ IsFiniteSet(CanonicalTranslations) /\ CanonicalTranslations # {}
    /\ MaxSurah \in Nat

ArabicSource == "quran-arabic"
SemanticSources == CanonicalTranslations \cup {ArabicSource}

-----------------------------------------------------------------------------
(* What the schema lets through (src/api/schemas/corpus.py): no blank language,
   no verse twice. *)
IsSnapshot(snapshot) ==
    /\ IsFiniteSet(snapshot.ayahs)
    /\ \A a \in snapshot.ayahs :
         /\ a.surah \in 1..MaxSurah /\ a.global \in Nat \ {0}
         /\ a.translations \in Seq([source : STRING, language : {l \in DOMAIN Fold : Fold[l] # 0}])
    /\ \A a, b \in snapshot.ayahs : a.global = b.global => a = b
    /\ snapshot.names \subseteq (1..MaxSurah) \X (Nat \ {0})

(* Documents.  A snapshot is a set of verses, each with the sequence of its
   translations, and for every surah the languages its name is given in. *)

ArabicDocument(a) ==
    [type |-> "quran_ayah", surah |-> a.surah, ayah |-> a.global,
     language |-> Arabic, source |-> ArabicSource, nth |-> 0]

TranslationDocument(a, i) ==
    [type |-> "translation", surah |-> a.surah, ayah |-> a.global,
     language |-> Fold[a.translations[i].language],
     source |-> a.translations[i].source, nth |-> i]

SurahNameDocuments(names) ==
    {[type |-> "surah_name", surah |-> n[1], ayah |-> 0,
      language |-> n[2], source |-> "quran-surah-names", nth |-> 0] : n \in names}

(* build_search_documents; nth tells apart what has one document_id. *)
Documents(snapshot) ==
    SurahNameDocuments(snapshot.names)
        \cup UNION {{ArabicDocument(a)} \cup {TranslationDocument(a, i) : i \in DOMAIN a.translations} :
                     a \in snapshot.ayahs}

DocumentId(d) ==
    [type |-> d.type, surah |-> d.surah, ayah |-> d.ayah,
     source |-> IF d.type = "translation" THEN d.source ELSE "",
     language |-> IF d.type = "surah_name" THEN d.language ELSE 0]

(* Bulk actions are indexed under the document's id: the last one sent stays. *)
Indexed(documents) ==
    {d \in documents : \A e \in documents : DocumentId(e) = DocumentId(d) => e.nth <= d.nth}

-----------------------------------------------------------------------------
(* select_semantic_documents *)

Selected(documents) == {d \in documents : d.source \in SemanticSources}

CountOf(documents, source) == Cardinality({d \in documents : d.source = source})

(* Slip: repetitions are not looked for. *)
CorpusIsAnything(documents) == TRUE

CorpusIsValid(documents) ==
    \A d, e \in Selected(documents) : DocumentId(d) = DocumentId(e) => d = e

CorpusIsComplete(documents) ==
    /\ \A s \in SemanticSources : CountOf(documents, s) > 0
    /\ \A s \in CanonicalTranslations :
         CountOf(documents, s) = CountOf(documents, ArabicSource)

SelectionSucceeds(documents) == CorpusIsValid(documents) /\ CorpusIsComplete(documents)

-----------------------------------------------------------------------------
(* SearchFilters.  A raw list of the request is its kind and its values. *)

Absent == [kind |-> "absent", values |-> {}]
Junk == [kind |-> "junk", values |-> {}]
ListOf(values) == [kind |-> "list", values |-> values]

(* Values of another type than asked for are dropped and are not in the list. *)
IsRequest(r) ==
    /\ r.surahs.values \subseteq Int /\ r.surahIds.values \subseteq Int
    /\ \A o \in {r.min, r.max, r.topK} : o \subseteq Int /\ \A n, m \in o : n = m
    /\ \A l \in {r.languages, r.languageCodes, r.translationLanguages, r.translationLanguage} :
         l.values \subseteq DOMAIN Fold

ContentTypesByDefault == {"quran_ayah", "translation"}
ContentTypes == {"quran_ayah", "translation", "surah_name",
                 "tafsir_chunk", "book_chunk", "article_chunk"}

WithFallback(raw, other) == IF raw.kind = "absent" THEN other ELSE raw

FoldedList(raw) == {Fold[v] : v \in raw.values} \ {0}
SurahList(raw) == {n \in raw.values : 1 <= n /\ n <= MaxSurah}

FromRequestFilters(raw) ==
    LET types == raw.contentTypes.values \cap ContentTypes
    IN  [types |-> IF types = {} THEN ContentTypesByDefault ELSE types,
         languages |-> FoldedList(WithFallback(raw.languages, raw.languageCodes)),
         sources |-> raw.sources.values,
         surahs |-> SurahList(WithFallback(raw.surahs, raw.surahIds)),
         min |-> raw.min, max |-> raw.max,
         include |-> raw.include # "false",
         translationLanguages |->
            FoldedList(WithFallback(raw.translationLanguages, raw.translationLanguage))]

(* Slip: the sources asked for reach the verses. *)
QuranAyahScopeOfSources(f) ==
    [f EXCEPT !.types = {"quran_ayah"}, !.languages = {}, !.translationLanguages = {}]

QuranAyahScope(f) ==
    [f EXCEPT !.types = {"quran_ayah"}, !.languages = {}, !.sources = {},
              !.translationLanguages = {}]

TranslationScope(f) ==
    [f EXCEPT !.types = {"translation"}, !.languages = f.translationLanguages,
              !.translationLanguages = {}]

(* An empty list of alternatives is no clause. *)
Allows(values, v) == values = {} \/ v \in values

(* to_opensearch_filter, as OpenSearch understands it: a range does not match a
   document without the field. *)
OpenSearchPasses(f, d) ==
    /\ Allows(f.types, d.type)
    /\ Allows(f.languages, d.language)
    /\ Allows(f.sources, d.source)
    /\ Allows(f.surahs, d.surah)
    /\ f.min \cup f.max # {} => d.ayah # 0
    /\ \A n \in f.min : n <= d.ayah
    /\ \A n \in f.max : d.ayah <= n

(* compile_qdrant_filter, over the payload of a point. *)
QdrantPasses(f, d) ==
    /\ Allows(f.types, d.type)
    /\ Allows(f.languages, d.language)
    /\ Allows(f.sources, d.source)
    /\ Allows(f.surahs, d.surah)
    /\ f.min \cup f.max # {} => /\ d.ayah # 0
                                /\ \A n \in f.min : n <= d.ayah
                                /\ \A n \in f.max : d.ayah <= n
=============================================================================
