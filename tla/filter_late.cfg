SPECIFICATION Spec
CONSTANTS
  r1 = r1
  r2 = r2
  s1 = s1
  s2 = s2
  Runner = {r1, r2}
  SpecId = {s1}
  Ts = {1, 2}
  AllSpecs = AllSpecs
  NoSpec = NoSpec
  NoRunner = NoRunner
  NoFile = NoFile
  Blank = Blank
  MaxLog = 2
  MaxSweeps = 0
INVARIANTS EveryEventConsumed
