SPECIFICATION Spec
CONSTANTS
  a = a
  b = b
  c = c
  d = d
  Nodes = {a, b, c, d}
  Rank <- MCRank
  Specs <- MCSpecs
INVARIANT FalseBranchNeverRuns
