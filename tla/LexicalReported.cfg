SPECIFICATION Spec
CONSTANTS
  Procs = {a, b}
  MaxName = 3
  MaxBuild = 3
  BatchCount = 2
  DeleteOld = {FALSE}
  ReportedOnly = TRUE
  MayAbort = TRUE
SYMMETRY OperatorSymmetry
INVARIANTS
  ServedWereValidated
PROPERTIES
  ServedIndexIsFrozen
CHECK_DEADLOCK FALSE
