--------------------------- MODULE MCEventStore ---------------------------
(***************************************************************************)
(* Small instances of EventStore: one client per way into the store, the   *)
(* one over HTTP with a batch of two spans; a mirror with two events from  *)
(* before SQLite; and concurrent queries.                                  *)
(***************************************************************************)
EXTENDS EventStore, TLC

CONSTANTS h1, h2, a, b, d, e, http, grpc, record, q1, q2

MCHistory == <<h1, h2>>

MCRequest == http :> <<a, b>> @@ grpc :> <<d>> @@ record :> <<e>>

MCVia == http :> "http" @@ grpc :> "grpc" @@ record :> "record"

\* Without the client "record", which is refused in the same cases as "grpc".
MCRequestOTLP == http :> <<a, b>> @@ grpc :> <<d>>

MCViaOTLP == http :> "http" @@ grpc :> "grpc"

Readers == Permutations({q1, q2})
===========================================================================
