SPECIFICATION Spec
CONSTANTS
  Absent = Absent
  Refused = Refused
  Spans <- MCSpans
  Originals <- MCOriginals
  SpeckitFile <- MCSpeckitFile
  MaxTrouble = 0
INVARIANT NoReflow
