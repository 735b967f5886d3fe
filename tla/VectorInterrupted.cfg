SPECIFICATION Spec
CONSTANTS
  Procs = {a}
  MaxName = 2
  MaxBuild = 3
  BatchCount = 1
  Dims = {1}
  DeleteOld = {TRUE, FALSE}
  MayAbort = TRUE
INVARIANTS
  FailedBuildsAreNotServed
CHECK_DEADLOCK FALSE
