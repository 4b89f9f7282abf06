SPECIFICATION MCSpec
CONSTANTS
  p1 = p1
  p2 = p2
  p3 = p3
  N = 3
  Maps <- MCMaps
  Path = {p1, p2, p3}
  Support <- MCSupport
  MinCommits = 1
  Histories <- MCHistories
  OwnEdges <- MCOwnEdges
INVARIANTS ClusterEscapes
