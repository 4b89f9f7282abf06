SPECIFICATION Spec
CONSTANTS
  f1 = f1
  f2 = f2
  p1 = p1
  p2 = p2
  File = {f1, f2}
  Process = {p1, p2}
  MinCommits = 1
  Similar <- Tenth
  MinFailures = 1
  MinRuns = 2
  FlakyAbove <- Hundredth
  DepInfo <- MCDepInfo
  Lcov <- MCLcov
  Matrix <- MCMatrix
  MaxCommits = 2
  MaxVerbs = 3
  Absent = Absent
  Blank = Blank
  Garbled = Garbled
SYMMETRY Symmetric
INVARIANTS TypeOK GraphCloses ClustersAgree ReadableUnlessShared RepeatsAgree
PROPERTIES EnrichmentsAdd
