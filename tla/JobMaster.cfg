SPECIFICATION FairSpec
CONSTANTS
  a = a
  b = b
  c = c
  d = d
  Nodes = {a, b, c, d}
  Rank <- MCRank
  Specs <- MCSpecs
INVARIANTS
  TypeOK
  FailureStopsDependents
  ScopeComplete
  TerminalStatusSound
  WellFormedNeverStuck
  SingleBranchHonoured
PROPERTIES
  NoDoubleDispatch
  Termination
  ImplementsExecution
