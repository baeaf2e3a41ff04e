SPECIFICATION MCSpec
CONSTANTS
  p1 = p1
  e1 = e1
  s1 = s1
  NoAddress = NoAddress
  Policies <- MCPolicies
  Addresses <- MCAddresses
  Unknown = {"gone"}
  Calls <- MCCalls
  Execs = {e1, e2}
  Plans = {p1, p2}
  Slots = {s1, s2}
  MaxAttempts = 2
  MaxFaults = 1
  None = None
  Torn = Torn
  Timeout = Timeout
INVARIANTS
  AnswerSound
  StatusSound
  FilterImplementsPolicy
PROPERTY ExecutionAnswered
CHECK_DEADLOCK FALSE
