SPECIFICATION FairSpec
CONSTANTS
  Procs = {a}
  MaxName = 3
  MaxBuild = 4
  BatchCount = 2
  Dims = {1}
  DeleteOld = {TRUE, FALSE}
  MayAbort = FALSE
INVARIANTS
  ServedWasValidated
  NoOrphanSidecarAtRest
PROPERTIES
  ActivationTakesEffect
  ServedCollectionIsFrozen
  ServesPublishedVersions
CHECK_DEADLOCK FALSE
