SPECIFICATION BuildSpec
CONSTANTS
  DocCount = 3
  Sizes = {0, 1, 2, 3, 4}
  MaxExtra = 1
  Loads <- MCLoads
  DocumentLimits = {0, 1, 2, 3}
  ByteLimits = {0, 3, 5}
  Canonical <- MCCanonical
  Suites <- MCSuites
  HitLimit = 2
INVARIANTS
  VectorsBelongToDocuments
  PointsAreAPrefix
  RequestsAreAsEstimated
  LoadIsComplete
  BodiesRespectTheLimits
  VerdictIsAboutTheStore
  AcceptedBuildsAreComplete
CHECK_DEADLOCK FALSE
