SPECIFICATION FairSpec
CONSTANTS
  c1 = c1
  c2 = c2
  c3 = c3
  k1 = k1
  k2 = k2
  r1 = r1
  Calls = {c1, c2, c3}
  Keys = {k1, k2}
  Runs = {r1}
  KeyOf <- MCKeyOf
  RunOf <- MCRunOf
  TMs = {t1}
  None = None
  SlotsPerTM = 2
  MinTMs = 0
  MaxTMs = 1
  MaxFaults = 2
INVARIANTS
  TypeOK
  RegistrationIsLive
  WaiterIsRegistered
  AnswerMatchesKey
  NothingLost
PROPERTY WaiterIsAnswered
CHECK_DEADLOCK FALSE
