SPECIFICATION AnswersSpec
CONSTANTS
  Fold <- MCFold
  Arabic = 1
  CanonicalTranslations = {"en.arberry", "fa.moezzi"}
  MaxSurah = 2
  Snapshots <- MCSnapshots
  Requests <- MCRequests
  Policies = {"lexical_v1", "hybrid_v1"}
  Scores = {0, 1}
  LanguageOrder <- MCLanguageOrder
  ChartSize = 1
  DefaultTopK = 2
  MaxTopK = 3
  Docs = {1, 2, 3}
  Canonicals = {1, 2}
  RrfK = 2
  Pool = 3
  TopKs = {1, 2, 3}
  Artifacts = {"a"}
  Unsafe = "."
  LastSurah = 2
  Numbers = {0, 2, 3}
  Published = {2}
  Manifests <- MCManifests
  Payloads <- MCPayloads
  AyahLists <- MCAyahLists
  MaxWrites = 1
INVARIANTS
  CountsStandForCoverage
  FiltersMeanTheSame
  CandidatesAreShownOnce
  OverallIsBetweenBlocks
  ChartAgreesWithVerses
  BothOutrankOne
  RankingMatchesReference
  ShownVariantIsBest
  AnswersAreValid
  StatusTellsWhy
CHECK_DEADLOCK FALSE
