SPECIFICATION Spec
CONSTANTS
  Fold <- MCFold
  Arabic = 1
  CanonicalTranslations = {"en.arberry", "fa.moezzi"}
  MaxSurah = 2
  Snapshots <- MCSnapshots
  Requests <- MCRequests
  Policies = {"lexical_v1", "hybrid_v1"}
  Scores = {0, 1}
  LanguageOrder <- MCLanguageOrder
  ChartSize = 1
  DefaultTopK = 2
  MaxTopK = 3
INVARIANTS
  LanguagesRestrictHits
CHECK_DEADLOCK FALSE
