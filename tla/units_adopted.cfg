SPECIFICATION MCSpec
CONSTANTS
  filterState = filterState
  deploy = deploy
  sensorMap = sensorMap
  posterior = posterior
  skill = skill
  c1 = c1
  c2 = c2
  e1 = e1
  Unit = {filterState, deploy}
  File = {posterior, sensorMap, skill}
  FilesOf <- MCFilesOf
  Cautious = {filterState}
  DigestOnly = {deploy}
  Command = {c1}
  Edit = {e1}
  Skeleton = Skeleton
  Shard = Shard
  Absent = Absent
  Unlisted = Unlisted
  Blank = Blank
  MaxCommands = 3
  MaxEdits = 2
PROPERTIES RemoveKeepsEdits
CHECK_DEADLOCK FALSE
