SPECIFICATION Spec
CONSTANTS
  LexVersions <- MCLexVersions
  SemVersions <- MCSemVersions
  NoVersion = NoVersion
  Policies = {"hybrid_v1"}
  MaxMoves = 1
  SideBySide = FALSE
INVARIANTS
  NoMeaninglessSimilarities
