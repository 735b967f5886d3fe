# qgraph-ai-service in TLA+

The service answers searches over the Qur'an and its translations.  Offline,
operators build versions of two indices from a corpus snapshot; online, each
request reads whatever version the serving aliases lead to.  Nothing is locked,
no command undoes what it did, and the two stores and the disk are changed in
separate requests.  That is where this code can go wrong without a test
noticing, and what this project is about.

## The parts of the system

| Component | State it keeps | Operations | What makes it correct | Modelled by |
| --- | --- | --- | --- | --- |
| Semantic index lifecycle (`search/vector_indexing/`) | Qdrant collections and alias, profile files on disk | build, activate / roll back, `--delete-old` | what is served passed validation and is whole; profiles describe their collections | `VectorIndex` |
| Lexical index lifecycle (`search/indexing/builder.py`, `cli.py`) | OpenSearch indices (profile inside), alias as a set | build, activate, `--delete-old` | one served index, validated; nothing served is written to or, but for a race, deleted | `LexicalIndex` |
| Embedding of documents (`search/embeddings/`, `search/vector/mapping.py`) | none of its own; fills a collection | batch, embed, check, upsert | each document is stored with its own vector; all or a prefix | `EmbeddingBatches`, `BuildSteps` |
| Search execution and readiness (`services/search_service.py`, `search/retrievers/`) | one request's progress | execute, readiness | no silent fallback, parts that only move forward in time, nothing paid in vain, no readiness while requests are refused | `SearchExecute` |
| Retrieval pipeline and fusion (`search/pipeline.py`, `fusion.py`) | one fusion's accumulators | merge, collapse, sort, cut | the promise of the docstring, determinism | `RankFusion` |
| OpenSearch client (`search/opensearch_client.py`) | none; fills an index | one request each, bulk bodies cut by count and bytes | atomic alias swap; a load is sent once, whole and in order | the lifecycles, `BulkBatches` |
| Qdrant adapter and profile files (`search/vector/qdrant_store.py`, `profile.py`) | none of its own | one request each | atomic alias swap, immutable profiles | the lifecycles, `SearchExecute` |
| Content vocabulary and filters (`search/contracts.py`, `search/vector/mapping.py`) | none | parse a request, narrow to a scope, compile for a backend | the same meaning on both backends; verses whatever translations are asked for | `SearchDocuments`, `SearchAnswer` |
| Response rendering (`search/response_builder.py`) | none | group, order, rate | nothing lost or repeated, chart and confidences agree with what is shown | `SearchAnswer` |
| Golden sets and evaluation (`search/eval/`, `indexing/eval_set.py`, `indexing/builder.py`) | failures so far | judge a build, case by case | a verdict is about the store; confirmed ids are hard, pending ones never | `GoldenGate`, `BuildSteps` |
| Corpus client, documents, corpus policy (`services/corpus_client.py`, `search/indexing/documents.py`, `search/vector/corpus_policy.py`) | none | one HTTP read, documents and ids, the embedded selection | every verse with every canonical translation, once, or no build | `SearchDocuments`; the HTTP read, normalisation and analysers are not modelled |
| Segmentation (`services/segmentation_artifacts.py`, `api/segmentation.py`, `api/schemas/segmentation.py`) | artifact files on disk | serve a manifest or a surah, placeholder generation | what is served keeps its schema, a status follows from the files | `Segmentation` |
| Planning and job stubs | none | | | not modelled |
| Application shell (`main.py`) | the clients built at start-up | start | the clients a policy needs | the initial states of `SearchExecute` |

They interact through the stores only: a build's last step is an alias swap, a
request's first is to resolve it.  `ServedVersions` is that interface.
`VectorIndex` implements it, and `SearchExecute` lets the semantic versions move
by its steps, besides the loss that a race of two `--delete-old` can cause.

The hard behaviours, each listed with its line in `PROJECT.json`: commands that
interleave (names picked and aliases read without a lock), commands that die
between two requests or between the store and the disk, names that are reused
after a deletion, requests that verify one version and query another, a response
whose items come back permuted, a batch boundary, bodies cut by two limits at
once, a bulk request that fails after some of it was stored, a gate that looks at
a few documents, files replaced between the look for them and the read, a rank
constant and a pool size that only fit each other by luck, a completeness check
that only counts, one filter compiled in two dialects.

## The modules

**`ServedVersions`** is the abstract service: versions are published, one
published version is served, and only a version that is not served is retired.

**`VectorIndex`** is `builder.py` of `vector_indexing` with the store and the
sidecar files.  `op[p]` is the command process `p` runs; its `pc` says which
request comes next, and each request or file operation of the code is one
action: `StartBuild` (everything up to the name), `CreateCollection`,
`UpsertBatch`, `CountPoints`, `ValidateConfig`, `EvaluationPasses`,
`ValidationFails`, `WriteSidecar`, then `SwapAlias` when the build activates;
`StartActivate`, `CheckConfig`, `ReadPrevious`, `SwapAlias`, `DropPrevious`,
`ForgetPrevious` for an activation.  `Refused` is every request the store
rejects; `Abort` is an exception, a timeout or a kill: all three leave what was
written and nothing else, because the code has no handler that undoes anything.
`builds`, `passed`, `failed` and the `creator`/`writers` of a collection do not
exist in the code and are read by properties only.

**`LexicalIndex`** is `builder.py` of `indexing` in the same manner.  The build
profile is in the index from its creation, the alias is a set, and it is read
and swapped in two requests; `raced` records that a swap fell in between.
A bulk request to a missing index creates one (OpenSearch's default), so a
deletion during a build is followed to its end.  `overtaken` has the commands that
are deleting what they replaced when another one swaps the alias.  `ReportedOnly`
restricts operators to indices a build reported as ok, which the code leaves to
them.

**`SearchExecute`** runs one request and one readiness probe, a step per backend
request or look at the disk, next to operators who move both indices.  A version
is reduced to what its profile says: the corpus, and whether the running code
and provider can use it.  `clients` is what `lifespan` built: any of them may be
missing for want of a URL, but the provider never is under `hybrid_v1`, because the
app would not start.  `profileFiles` says what this process finds as a
collection's profile: nothing, a valid one, an invalid one, or one it may not read.
The operators' steps are `LexicalMove`, `SemanticMove` (a step of
`ServedVersions`), `SemanticLoss` (a `--delete-old` that hits what is being
served), `ForgetProfile` and `SpoilProfile`.  `moves` counts them, so that "while
nothing moves" can be said, and `past` remembers what the aliases led to since
the request began.  A request ends with an answer, with a `SearchRetrievalError`
because of what it found (`Refuse`) or because a backend failed (`Outage`), or
with an error nobody translates (`Outage`, `ProfileRaises`).  A probe collects
the names of its failed checks; some end it and some do not, as in the code.

**`RankFusion`** follows `reciprocal_rank_fusion` loop by loop with exact
rational scores.  `Collapse` takes the candidates in any order, of which the
order of a Python dict is one.

**`EmbeddingBatches`** details the batches of a build: which slice is sent, what
a provider may answer (any order, indices, count, bad vectors), what is accepted
and under which document it is stored.

**`BulkBatches`** is the other way to fill a store: the generator
`_iter_bulk_bodies` and the loop of `bulk_index` that drives it.  `Take` appends
the next document, `Yield` hands over a body, `Post` and `PostFails` are the
request; the latter keeps any part of the body.  A document is an id, which
another one may share, and a number of bytes.

**`GoldenGate`** is the judgement of a build, `_validate_golden_set` of the
lexical builder and `evaluate_semantic_collection` of the semantic one:
`JudgeCase` is one turn of the loop, in which the backend returns any few
documents of the store.  A case is the ids it expects, whether they are
confirmed, and the documents of the shape it expects; which cases the repository
ships is data.  `EvaluationPasses` and `ValidationFails` of the lifecycles leave
this verdict open.

**`BuildSteps`** composes these three: one builder fills its store and, when that
did not raise, judges what it filled (`JudgeIndex`, `JudgeCollection`).  An index
is refreshed first (`Refresh`, `RefreshFails`), and searches find what the refresh
made searchable.  A case of the semantic set has its query embedded (`embedded`
counts them next to the `requests` of the documents).

**`Segmentation`** is the segmentation endpoints: one request, a step per look at
or read of a file (`FindManifest`, `FindSurah`, `ReadFile`) and per validator
(`ValidateFields`, `UniqueSurahs`, `CheckSegment`, `CheckIds`), next to
somebody who replaces or removes files or changes who may see them (`Write`).  A
path has no file, cannot be looked at (`is_file` raises every `OSError` but a
missing entry, Python 3.12), or has a file that cannot be read or decoded, is not
JSON, does not fit its model, or has the fields that validators compare.
`Generate` is the placeholder workflow of `/generate`, whose response goes through
the same validator of segments.

**`SearchDocuments`** is data: the documents of a snapshot and their ids, what
the semantic index selects of them and when it refuses to, the typed filters a
raw request becomes, the two scopes, and what a filter lets through in OpenSearch
and in Qdrant.  A raw list is its kind (absent, not a list, a list) and its
values; a language is the code its spelling folds to.

**`SearchAnswer`** follows one request through that data: `Index` (both builds of
one snapshot), `RetrieveVerses`, `RetrieveTranslations` (skipped when not asked
for), `Chart`, `Render`.  It is the complement of `SearchExecute`: there requests
fail and versions move and hits are nothing; here nothing fails or moves and hits
are documents.  Which documents match, their order and scores are free, so what
is shown holds for any ranking.  `Render` is `build_execute_response`: a block's
`order` is its position, a confidence is a fraction (hybrid) or the best score
that determines it (lexical).

`MCSearchAnswer` names its corpora and requests, `MCBuildSteps` its loads and
golden sets.  `MCAnswers` puts `SearchAnswer`, `RankFusion` and `Segmentation` side
by side, two of them at rest: they share no state.  `MCVectorIndex`,
`MCLexicalIndex` and `MCSearchExecute` add symmetry or concrete versions for TLC.
Actions named as slips in the modules are plausible bugs of the action below them;
no specification uses them.

## The runs

| Run | Question | Bounds |
| --- | --- | --- |
| `vector_retained` | Two operators, deaths anywhere, nobody deletes: is what is served validated, whole and frozen, and is `ServedVersions` implemented? | 2 names, 3 builds, 2 batches, 2 vector sizes |
| `vector_one_operator` | One operator who is never interrupted: are deletion, name reuse and rollback safe, is the served collection never touched, and do activations take effect? | 3 names, 4 builds, 2 batches |
| `vector_interrupted` | One interrupted `--delete-old`, then a failed build. **Violated** | 2 names, 3 builds |
| `lexical_reported` | Two operators who activate only reported builds: is what is served validated, and left alone, even under races? | 3 names, 3 builds, 2 bulk requests |
| `lexical_unrestricted` | Anything goes: can the alias get two targets without a race, and can a deletion hit what is served unless another activation overtook it? | 2 names, 3 builds |
| `lexical_concurrent` | Can it with one? **Violated** | 2 names, 2 builds |
| `lexical_failed_build` | Can a failed build be served? **Violated** | 1 operator |
| `search_execute` | One request, one probe, operators moving: what is an answer made of, what is paid for, what does a probe foretell? | 2 indices, 2 collections, 2 moves, `SideBySide = FALSE` |
| `search_swapped` | Can vectors of another model be compared without a refusal? **Violated** | 1 move |
| `answers` | What does a search show, for any corpus, filters and matches? How are two rankings merged? What do the segmentation endpoints reply, for any files? | 16 corpora of 2 or 3 verses, 9 requests, `top_k` 1 to 3, scores 0 and 1, a chart of 1 surah; every pair of rankings of up to 3 documents of 2 contents, k = 2, pool 3; 1 artifact, 2 surahs of which 1 may have a file, payloads of up to 3 segments, 1 file replaced |
| `search_languages` | Does `languages` restrict the translations that are shown? **Violated** | the corpora and requests of `answers` |
| `build_steps` | Every way a build can fill its store, fail at it, and be judged | 3 documents embedded, sizes 0 to 4, 1 item too many; loads of 0, 2 and 4 documents of 1, 2 or 4 bytes, any of which share ids, cut at 0 to 3 documents and 0, 3 or 5 bytes; 2 lexical and 3 semantic cases of up to 2 hits |

Why the bounds are enough to be interesting: two operators already give every
race the code has, since each is between one read and one write; two names allow
a deletion and a reuse, three builds allow both and a third writer; two batches
make a partial collection possible.  Two moves let an activation and the
deletion of what it replaced both fall into one request.  With `SideBySide = FALSE`
a probe comes before the request instead of in the middle of it: the two share
no state and their one common property is about states in which nothing moves, so
that nothing is lost but the number of states; operators move in the middle of
either.  The rankings of `answers` are merged with a
pool that is `k + 1`, the largest for which the promise of `fusion.py` holds (the
code has 50 and 60); at `k + 2` two last places tie with one first place.  The
corpora miss, repeat and misattribute translations, languages
are known, unlisted or spelled in capitals, `top_k` falls below, within and above
its limits, and a chart of one surah out of two is already a cut one; three
candidates make agreement shares of 0, 1/3, 1/2, 2/3 and 1.  Files of
segments come in every order and overlap of ranges in three ayahs, and one
replacement is enough to fall between any look and read.  In `build_steps` a
byte limit of 3 lies below the largest document and one of 5 above it, a limit of
0 makes every document a body of its own, and four documents make up to four
bodies with a repeated id in one or in two of them; each golden set has confirmed
and pending ids.  Builds and moves
are counted only to bound the state space; no guard of the code is hidden in them.

Two operators who pass `--delete-old` have a run on the lexical side
(`lexical_unrestricted`) and none on the semantic one.  What survives there is
proved for all values: the types, and that a served name once passed
(`ServedNameOncePassed`, which the stronger `ServedWasValidated` of the runs
implies wherever that holds).  What does not survive is that the alias keeps its
target: of two overlapping commands one can delete what the other has just made the
alias lead to, as `overtaken` shows of the lexical side, and `SearchExecute` has the
requests and probes live with it (`SemanticLoss`).

Deadlock is not checked where the system may really stop: a lifecycle whose
builds are used up, a finished fusion, a finished build, a rendered answer.  A
search request and a probe can always begin again, and that run checks it.

**Fairness.**  `VectorIndex!FairSpec` has weak fairness on `Step(p)` for each
operator: a command is one sequential program, so when its next request is
possible it makes it (or is refused, which is also a step).  Nobody has to start
a command, and validation may go either way for ever.  `ActivationTakesEffect`
is checked with one operator and without aborts: with two, another activation
may swap the alias back at once, and a killed command promises nothing.

## What the violated runs show

1. **`vector_interrupted`** — `--delete-old` deletes the collection
   (`builder.py:192`) and then its profile (`:193`).  Killed in between, it
   leaves a profile without a collection.  The name is free again on the same
   day; a build of that name fails its evaluation; the old profile lets it be
   activated.  At this commit the shipped semantic cases are all pending, so that
   failure has to come from the count or the config, or from a case promoted
   to confirmed.
2. **`lexical_concurrent`** — two activations read the alias before either swaps
   it: it ends with two targets and every search is refused.
3. **`lexical_failed_build`** — nothing in `activate_index` tells a failed or
   half-written index from a good one.
4. **`search_swapped`** — the retriever resolves the alias again, so an
   activation between check and query makes the query run against a collection
   nobody checked.

5. **`search_languages`** — `languages` is documented to restrict every hit
   (`contracts.py:134`).  `quran_ayah_scope` clears the field, which keeps the
   verses whatever is asked, and `translation_scope` overwrites it, so that a
   request for Persian is answered with English translations.

Seen while modelling and not a run of their own:

* `content_types` has no effect either: surah names are indexed and, although
  `contracts.py:52-54` and `:129-130` let a request ask for them, neither scope ever
  keeps them (`search_service.py:84` says that this is intended).
* The lexical profile's version mismatch is noticed only by the retriever, after
  the query embedding was paid for.
* The preflight estimates the requests for the documents; the golden cases' queries
  are embedded in the same build and come on top (`RequestsAreAsEstimated` has
  both).
* A batch size that is not positive raises only after the collection was created.
* `read_semantic_profile` looks for the file and then reads it, and builds write it
  with mode 0600: a file that is removed in between, or belongs to another account,
  raises an error that neither the request nor the probe translates.
* The probe's `semantic_alias_single_target` is only ever reported as passed: a
  missing alias, like a missing collection or profile and an invalid profile, ends
  up as `qdrant_reachable`.  That report, unlike the others, does not tell a state
  in which requests are refused from an outage that has passed.
* The probe wants hits of its smoke query and points in the collection, and requests
  do not: a service that is not ready for one of these two reasons still answers.
* The translation languages share one list of `top_k`, so that one may fill it
  (`search_service.py:86` says each block is independently populated).
* A hybrid answer can show verses and no chart, because the chart counts lexical
  matches only.
* Two translations of one source in a verse are one document of the lexical index
  and two in its `document_count`.
* An artifact file that may not be looked at or read, is not UTF-8, nests too deeply,
  or is removed between `is_file` and the read raises an error that is neither of
  the two the routes translate.
* `load_surah` insists on a `manifest.json` but never opens it, so a surah is served
  that the manifest does not list, or lists with another number of segments.

## What is proved

`VectorIndexProofs` proves, for any number of operators, names, builds, batches
and vector sizes, with or without aborts:

* `TypeCorrect` and `OnlyVouchedNamesAreServed` with no restriction at all.  The
  second rests on `VouchedInv`: whoever is about to write a sidecar has passed,
  every sidecar's name has, and so has every name an activation works on.  It is
  the strongest statement that survives name reuse.
* Under `DeleteOld \subseteq {FALSE}` (operators never pass `--delete-old`):
  `OnlyValidatedBuildsAreServed`, `ProfilesMatchCollections`,
  `ServedDataIsImmutable` and `ImplementsServedVersions`.  All rest on
  `RetainedInv` (theorem `Retained`).  None of the properties is inductive: that
  the served collection is whole needs that its sidecar was earned
  (`SidecarsAreEarned`), which needs that the build writing it still owns its
  collection (`BuildersOwnTheirCollection`), which needs that no other command
  carries its number (`BuildsAreUnique`) and that nobody else writes
  (`CollectionsHaveOneWriter`).

* Under `\A p, q \in Procs : p = q` and `MayAbort = FALSE` (commands run one after
  the other and to their end, with or without `--delete-old`): `NoOrphanSidecars`,
  `OneOperatorServesValidated`, `OneOperatorImplementsServedVersions` and
  `OneOperatorServedDataIsImmutable`, all from `OneOperatorInv` (theorem
  `OneOperator`).  Names are reused here, so that "a profile was earned" cannot say
  what a name once was: `KeptSidecarsAreEarned` excepts the one profile that is
  about to be forgotten (`Forgetting`), and `CommandsTakeTurns` has what makes that
  harmless, that what is dropped and forgotten is not what the alias leads to.
  The refinement has all three kinds of steps here: a version is published by
  `WriteSidecar`, served by `SwapAlias` and retired by `DropPrevious`, while
  `ForgetPrevious` is a stutter (`RefinesNextOneOperator`).

The assumptions are not a convenience: with deletions and one abort a failed build
is served, as `vector_interrupted` shows.

`LexicalIndexProofs` proves the same kind of facts about the other lifecycle:

* `TypeCorrect`, `OnlyRacesSplitTheAlias` and `DeletionsSpareTheServed` with no
  restriction.  The second rests on `RaceInv`: as long as nothing raced, the alias
  has at most one target, and a command that is about to swap still holds
  everything the alias leads to.  The third rests on `DeletionInv`: what a
  command that nobody overtook has left to delete is not served, because its own swap
  took the alias from it and nobody gave it back.
* Under `DeleteOld \subseteq {FALSE}` and `ReportedOnly` (operators activate only
  what a build reported as ok): `OnlyValidatedBuildsAreServed` and
  `ServedDataIsImmutable`, both from `RetainedInv` (theorem `Retained`).  Its parts
  mirror those of `VectorIndex`, with reports in the place of profiles: a report
  was earned by a whole index (`ReportsAreEarned`) that its build alone wrote
  (`BuildersOwnTheirIndex`, `IndicesHaveOneWriter`, `BuildsAreUnique`).  Races are
  allowed: they cost the service its single target, never its data.
  `lexical_failed_build` and `lexical_concurrent` show what is lost without
  `ReportedOnly` and without its "one target" counterpart.

`RankFusionProofs` proves `BothFoundOutrank`, the docstring of `fusion.py`, for
every corpus, every pair of rankings and every `rrf_k`, from `PoolAssumption`
(`pool < rrf_k + 2`).  The arithmetic is `TwoBeatOne`: `1/a + 1/b > 1/c` whenever
neither `a` nor `b` reaches `2c`, and the pool keeps `rrf_k + rank` below
`2 (rrf_k + 1)`.  The rest is that the loops compute these sums: `ScoresAreSums`
says what the accumulators hold after any number of turns, `BothAreKept` that
`_collapse` drops a document both found only for another such document, and a
sorted list cannot then show the weaker one first.

`RankingIsReference` and `BestVariantIsShown` need no assumption on the pool.  They
rest on `RankingInv`: the accumulators hold exactly the ranks seen so far, under the
retriever of the best one (`RanksAreSeen`), and what `_collapse` has kept is, of
what it has looked at, what nothing of the same content is before
(`KeptAreUnbeaten`).  Three facts carry the first theorem: the order of the code is
that of the reference (`MergedIsReference`, `FractionsAreOrdered`), it is a strict
total order (`BeforeIsAnOrder`), and a position in a list sorted by one is the
number of elements before it (`PositionCountsPredecessors`).

`SearchAnswerProofs` proves all five properties of `SearchAnswer`.  Two are about
what the indices hold, for every corpus that passes the schema (`IsSnapshot`) and
every request, from the invariant `IndicesComeFromSnapshot` (theorem `Provenance`):

* `OneMeaning`: of what either index holds, the scopes that are searched let
  through in its dialect exactly what the effective fields of the raw request
  cover: surahs, range, translation control, translation languages and sources.
  The other fields have no effect, which `search_languages` holds against the
  documentation.  A document is of one verse and, as a translation, has
  one place in it (`DocumentsAreOfOneVerse`); each scope then reduces to the
  restrictions on verses and on languages.
* `SelectionIsComplete`: counting suffices.  Without repeated ids a source maps
  one to one into the verses (`AtMostOnePerVerse`), so a canonical translation
  has at most as many documents as there are verses, and the Arabic source at
  least as many; equal numbers leave no room for a stray or a missing one.  It
  needs `CanonicalTranslations # {}`: with no translation to compare with,
  nothing would bound the Arabic documents.

The other three are about what is shown, from `AnswerInv` (theorem
`AnswersAreMadeOfLists`): each list is one that a pipeline may return for its scope,
so it repeats nothing, descends in score and is of documents that pass the filter.
They assume of the constants that the chart has room for one surah
(`ChartSize > 0`, 15 in the code) and that `_LANGUAGE_ORDER` repeats no code.

* `ChartIsOfTheVerses`: a surah is left out of the chart only when `ChartSize`
  fuller ones are in it (`FullestIsCharted`, `UnchartedAreNoFuller`), and the verses
  of a surah found lexically are among its matches (`ShownAreMatches`).
* `GroupingKeepsCandidates`: an ascending listing exists, so that `Picked` keeps the
  order and each element of what it takes (`InOrderListsAll`, `PickedInOrder`); each
  language of a candidate has one place among the codes
  (`LanguagesHaveOnePlace`), so each candidate has one among the blocks.
* `OverallIsBetween`: the items and the agreed items of the blocks add up to those of
  the answer (`GroupsAddUp`), and a share of sums lies between the least and the
  greatest of the shares (`NotAllNegative`, `NotAllPositive`); under the lexical
  policy the best score of all is that of a block (`LexicalIsBetween`).

`BuildStepsProofs` proves seven properties of the inside of a build, for every
load, pair of limits, batch size, number of documents, provider and golden set.
Six follow from `BuildInv` (theorem `BuildInvariant`), which has a part per module:

* `LoadInv`: the body in hand is exactly the documents between those acknowledged
  and those taken, in order.  `LoadsAreComplete` follows, with or without a
  failed request, since a later document replaces one of its id both within a
  body and across bodies.
* `EmbedInv`: `start` is `size` times the requests made, one less while a response
  is in hand, and `points` maps each document before `start` to its own vector.
  That an accepted response is a permutation of its batch (`StoredIsPrefix`) is
  what makes the next turn keep it.  `CollectionsAreSound` follows, and
  half of `EstimatesHold` (`DocumentRequests`), which needs that the last request
  began below the end.
* `GateInv`: each case behind the loop is satisfied by the store or is a failure, and
  had its query embedded (`QueriesSent`), which is the other half.
  `VerdictsAreAboutStores` follows, and with the order of the steps
  `AcceptedBuildsAreWhole`: a golden set decides nothing about completeness, it
  is that nothing judges a store whose filling, or the refresh after it, raised.

The seventh, `BodiesKeepTheirLimits`, has an invariant of its own, `BodiesInv`: the
size the generator keeps is the weight of the body in hand, that body keeps the
limits, and the next document had no place in the last one sent.  What a body weighs
is the total of its documents' bytes (`WeightIsTotal`), which one more document
raises by its own (`WeightGrows`).

`CountingLemmas` has what several of these proofs rest on: the smallest and largest of
a set of numbers, ascending listings, images of finite sets and running totals.

`SegmentationProofs` proves `AnswersKeepTheirSchema` and `StatusesAreExact` for
any files, requests and number of replacements, from `SegmentationInv`: what has
been checked so far of the data in hand holds (`Checked`), and while no file
changes that data is what the file holds (`Agrees`).  `StatusesAreExact` says of
every path from which of the four replies it gets, an untyped error for those
whose look or read raises included.  Comparing neighbours is
enough because every end checked so far is at most the last one.

`SearchExecuteProofs` proves the four properties of the run `search_execute`, for
any versions and any moves, from `SearchInv` (theorem `SearchInvariant`).  It says
three kinds of things.  `RequestProgress` is about the request alone and holds
whatever operators do: a scope is left behind only when each backend it needs
answered, and the versions that were verified fit each other.  `LexicalReads` and
`SemanticReads` date what a request has read, whatever operators do: each part is what
an alias led to at some moment, in an order that the next read extends
(`ForwardTheorem`).  `RequestSees` and `ProbeSees` hold while nothing moves: what was
read is still what the aliases lead to.  `ReadinessTheorem` needs these two
and one fact in the middle, `Serves`, what can be answered as the backends are:
both processes end by telling it, so they cannot contradict each other.  It says
nothing of a probe that is not ready for one of the `Inconclusive` checks alone.

Every invariant and every action property of the passing runs is stated by a
theorem, the two refinements of `ServedVersions` included.  Only model-checked is
`ActivationTakesEffect`: it is liveness, and fairness and `ENABLED` are out of the
prover's reach.  Induction over data with an operator as its hypothesis is too; where
an argument needs it, over the positions of a body or a list of totals, the
hypothesis is a set of numbers below a bound instead (`CountingUp`), and the recursive
function `Weight` is shown to exist as such a list (`TotalsExist`).
The violated runs are refutations and have nothing to prove.

## Not modelled

Text: normalisation, token counting, query bodies, highlights, titles, snippets,
bar heights and per-item provenance.  The field-by-field comparison of profiles
(one flag and a corpus here).  The transport of both clients, their credentials
and the SDK's own retries.  Names of different days, which can never collide.  The
conversion of search errors to HTTP by the routes.  Floating-point rounding in fusion.
Segment fields that no validator compares.  The planning stub, three routes that
answer 501, the health route, shutdown, and start-up beyond the clients it builds:
nothing changes there once the service runs.  The order in which the lifecycles'
own steps and the steps inside a load interleave with another operator:
`VectorIndex` and `LexicalIndex` take a batch or a bulk request as one step, which is
what the stores see, and `BuildSteps` details one build by itself.

## Plan

What is left, in the order of its worth:

1. The refinement of the `UpsertBatch` and `BulkIndex` steps of the lifecycles by
   `EmbeddingBatches` and `BulkBatches`, now stated in words only.
2. `LexicalIndex` with deletions under one operator, the counterpart of
   `OneOperatorInv`: a bulk request to a deleted index creates one, so the invariant
   has to say that no build is running then.
3. A refinement for `LexicalIndex`: for operators who activate only what was
   reported and whose activations do not race, the alias serves as `ServedVersions`
   does.
