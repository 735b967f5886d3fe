--------------------------- MODULE MCSearchAnswer ---------------------------
(* SearchAnswer for TLC: up to three verses of two surahs, with translations  *)
(* in English, Persian and German (codes 3, 4 and 2; Arabic is 1).            *)
EXTENDS SearchAnswer, TLC

MCFold == "en" :> 3 @@ "EN" :> 3 @@ "fa" :> 4 @@ "de" :> 2 @@ "  " :> 0

En == [source |-> "en.arberry", language |-> "EN"]
Fa == [source |-> "fa.moezzi", language |-> "fa"]
De == [source |-> "de.other", language |-> "de"]
Odd == [source |-> "quran-arabic", language |-> "en"]

Ayah(n, s, t) == [global |-> n, surah |-> s, translations |-> t]

(* Two verses with anything, and three with little. *)
MCSnapshots ==
    {[ayahs |-> {Ayah(1, 1, t), Ayah(2, 2, u)}, names |-> {<<1, 1>>}] :
        t \in {<<En, Fa>>, <<En, En, Fa>>, <<En, Fa, De>>, <<Fa>>, <<En, Fa, Odd>>},
        u \in {<<En, Fa>>, <<Fa, De>>, <<Fa>>}}
    \cup {[ayahs |-> {Ayah(1, 1, <<En>>), Ayah(2, 2, << >>), Ayah(3, 2, << >>)}, names |-> {}]}

MCLanguageOrder == <<3, 4>>

Plain ==
    [contentTypes |-> Absent, languages |-> Absent, languageCodes |-> Absent,
     sources |-> Absent, surahs |-> Absent, surahIds |-> Absent, min |-> {}, max |-> {},
     include |-> "absent", translationLanguages |-> Absent, translationLanguage |-> Absent,
     topK |-> {}]

MCRequests ==
    {Plain,
     [Plain EXCEPT !.topK = {0}],
     [Plain EXCEPT !.topK = {9}, !.languages = ListOf({"fa"})],
     [Plain EXCEPT !.include = "false", !.contentTypes = ListOf({"surah_name", "poem"})],
     [Plain EXCEPT !.sources = ListOf({"de.other", "fa.moezzi"}), !.surahs = Junk,
                   !.surahIds = ListOf({2})],
     [Plain EXCEPT !.surahIds = ListOf({0, 2}), !.translationLanguages = ListOf({"en", "  "})],
     [Plain EXCEPT !.surahs = ListOf({0}), !.translationLanguage = ListOf({"EN", "de"})],
     [Plain EXCEPT !.min = {2}, !.translationLanguages = ListOf({"fa"})],
     [Plain EXCEPT !.min = {0}, !.max = {1}, !.include = "junk"]}
=============================================================================
