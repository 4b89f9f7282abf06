SPECIFICATION Spec
CONSTANTS
  s1 = s1
  s2 = s2
  f1 = f1
  f2 = f2
  w1 = w1
  w2 = w2
  SpecIds <- MCSpecIds
  Maps <- MCMaps
  Reports <- MCReports
  Suites <- MCSuites
  Earlier <- MCEarlier
  Clusters <- MCClusters
  Worker = {w1, w2}
  NoSpec = NoSpec
  NoReport = NoReport
  MaxVerbs = 3
  MaxEdits = 1
SYMMETRY Workers
INVARIANTS RateRepeats TrustEarned
PROPERTIES QueueKept
CHECK_DEADLOCK FALSE
