---------------------------- MODULE MCSensorMap ----------------------------
(***************************************************************************)
(* A small instance of SensorMap: three specs, two of which share a path.  *)
(***************************************************************************)
EXTENDS SensorMap

CONSTANTS p1, p2, p3

MCSupport == <<{p1}, {p2}, {p2, p3}>>

SeqsUpTo(S, n) == UNION {[1..k -> S] : k \in 0..n}

\* Every list of up to three edges, and longer ones that come of pasting.
MCMaps == SeqsUpTo(Node \X Node, 3)

MCHistories == SeqsUpTo(SUBSET Path, 2)

\* Every map is loaded with no commit; a history meets a few.
MCOwnEdges == MCMaps

MCInit == MapInit /\ (commits = << >> \/ map \in {<< >>, <<<<2, 1>>>>, <<<<3, 3>>>>})

MCSpec == MCInit /\ [][MapNext]_mapVars /\ WF_mapVars(SearchMap)
==========================================================================
