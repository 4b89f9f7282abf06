SPECIFICATION Spec
CONSTANTS
  h1 = h1
  h2 = h2
  a = a
  b = b
  d = d
  e = e
  http = http
  grpc = grpc
  record = record
  q1 = q1
  q2 = q2
  Event = {h1, h2, a, b, d, e}
  History <- MCHistory
  Client = {http, grpc}
  Request <- MCRequestOTLP
  Via <- MCViaOTLP
  Reader = {q1, q2}
  Garbage = Garbage
  MaxTries = 2
  MaxTears = 2
SYMMETRY Readers
INVARIANTS TypeOK MirrorBehindStore AckedReachesFilter TornAppendCostsOne ImportAllOrNothing
