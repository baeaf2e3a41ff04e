SPECIFICATION FairSpec
CONSTANTS
  None = None
  MaxFaults = 1
PROPERTIES
  PendingIsPickedUp
  ChangeIsListed
CHECK_DEADLOCK FALSE
