SPECIFICATION Spec
CONSTANTS
  Procs = {a, b}
  MaxName = 2
  MaxBuild = 3
  BatchCount = 2
  Dims = {1, 2}
  DeleteOld = {FALSE}
  MayAbort = TRUE
SYMMETRY OperatorSymmetry
INVARIANTS
  TypeOK
  FailedBuildsAreNotServed
  ServedWasValidated
  SidecarsDescribeCollections
  OneWriterPerCollection
PROPERTIES
  SidecarsAreImmutable
  ServedCollectionIsFrozen
  ServesPublishedVersions
CHECK_DEADLOCK FALSE
