SPECIFICATION Spec
CONSTANTS
  Procs = {a}
  MaxName = 2
  MaxBuild = 2
  BatchCount = 2
  DeleteOld = {FALSE}
  ReportedOnly = FALSE
  MayAbort = FALSE
SYMMETRY OperatorSymmetry
INVARIANTS
  FailedBuildsAreNotServed

CHECK_DEADLOCK FALSE
