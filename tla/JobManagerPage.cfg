SPECIFICATION FairSpec
CONSTANTS
  JMs = {j1}
  Runs = {r1, r2}
  Values = {v1, v2}
  None = None
  Locked = TRUE
  PageSize = 1
  MaxFaults = 0
PROPERTY PendingIsPickedUp
CHECK_DEADLOCK FALSE
