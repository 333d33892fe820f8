SPECIFICATION Spec
CONSTANTS
  Thread = {t1, t2}
  Job = {j1}
  NoJob = NoJob
  NULL = NULL
  LIMIT = 1
  LatePush = FALSE
SYMMETRY Symmetry
INVARIANTS
  StopsSafely
CHECK_DEADLOCK FALSE
