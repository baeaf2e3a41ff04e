SPECIFICATION Spec
CONSTANTS
  JMs = {j1, j2}
  Runs = {r1}
  Values = {v1, v2, v3}
  None = None
  Locked = TRUE
  PageSize = 50
  MaxFaults = 2
INVARIANTS
  TypeOK
  ExclusiveExecution
  BoundedReexecution
PROPERTIES
  RowRespected
CHECK_DEADLOCK FALSE
