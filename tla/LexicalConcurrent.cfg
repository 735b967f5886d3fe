SPECIFICATION Spec
CONSTANTS
  Procs = {a, b}
  MaxName = 2
  MaxBuild = 2
  BatchCount = 2
  DeleteOld = {FALSE}
  ReportedOnly = TRUE
  MayAbort = FALSE
SYMMETRY OperatorSymmetry
INVARIANTS
  SingleServingTarget

CHECK_DEADLOCK FALSE
