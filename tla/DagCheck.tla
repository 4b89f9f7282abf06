----------------------------- MODULE DagCheck -----------------------------
(***************************************************************************)
(* What the check of the coupling edges promises: a map is loaded, and then *)
(* found to be a DAG, or refused with a chain that is one of its cycles.    *)
(***************************************************************************)
EXTENDS Naturals, Sequences

CONSTANT Maps  \* sequences of edges <<src, dst>> that may be loaded

VARIABLES edges, verdict, chain

\* The sources and targets of the edges.
Nodes(E) == {E[j][1] : j \in DOMAIN E} \cup {E[j][2] : j \in DOMAIN E}

\* Every set of nodes has one that no edge leaves for another of the set.
Acyclic(E) ==
  \A S \in SUBSET Nodes(E) :
    S # {} => \E n \in S : \A j \in DOMAIN E : E[j][1] = n => E[j][2] \notin S

\* c goes along edges, back to where it began.
IsCycle(E, c) ==
  /\ Len(c) >= 2
  /\ c[1] = c[Len(c)]
  /\ \A k \in 1..(Len(c) - 1) : \E j \in DOMAIN E : E[j] = <<c[k], c[k+1]>>

Init == edges = << >> /\ verdict = "none" /\ chain = << >>

Load ==
  /\ verdict # "running"
  /\ edges' \in Maps
  /\ verdict' = "running"
  /\ chain' = << >>

Accept ==
  /\ verdict = "running"
  /\ Acyclic(edges)
  /\ verdict' = "dag"
  /\ UNCHANGED <<edges, chain>>

Refuse ==
  /\ verdict = "running"
  /\ ~Acyclic(edges)
  /\ IsCycle(edges, chain')
  /\ verdict' = "cycle"
  /\ UNCHANGED edges

Next == Load \/ Accept \/ Refuse

Spec == Init /\ [][Next]_<<edges, verdict, chain>>
==========================================================================
