SPECIFICATION MCSpec
CONSTANTS
  Absent = Absent
  Refused = Refused
  Spans <- MCSpans
  Originals <- MCOriginals
  SpeckitFile <- MCSpeckitFile
  MaxTrouble = 1
INVARIANTS TypeOK InstalledThere NothingLeft RoundTrip HooksPlaced NoDanglingPointer
PROPERTIES UserLinesKept BranchesKept
