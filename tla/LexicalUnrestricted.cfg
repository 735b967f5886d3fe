SPECIFICATION Spec
CONSTANTS
  Procs = {a, b}
  MaxName = 2
  MaxBuild = 3
  BatchCount = 2
  DeleteOld = {TRUE, FALSE}
  ReportedOnly = FALSE
  MayAbort = TRUE
SYMMETRY OperatorSymmetry
INVARIANTS
  TypeOK
  TwoTargetsNeedARace
PROPERTIES
  ServedIsDeletedOnlyIfOvertaken
CHECK_DEADLOCK FALSE
