SPECIFICATION Spec
CONSTANTS
  LexVersions <- MCLexVersions
  SemVersions <- MCSemVersions
  NoVersion = NoVersion
  Policies = {"lexical_v1", "hybrid_v1"}
  MaxMoves = 2
  SideBySide = FALSE
INVARIANTS
  NoSilentFallback
  AnswersMoveForward
  PaidOnlyIfServable
  ReadinessPredictsAnswers
