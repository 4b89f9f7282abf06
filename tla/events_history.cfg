SPECIFICATION Spec
CONSTANTS
  h1 = h1
  h2 = h2
  a = a
  b = b
  d = d
  e = e
  http = http
  grpc = grpc
  record = record
  q1 = q1
  q2 = q2
  Event = {h1, h2, a, b, d, e}
  History <- MCHistory
  Client = {http, grpc, record}
  Request <- MCRequest
  Via <- MCVia
  Reader = {q1}
  Garbage = Garbage
  MaxTries = 1
  MaxTears = 0
INVARIANTS HistoryImportedOnce
