---------------------------- MODULE CouplingDag ----------------------------
(***************************************************************************)
(* CouplingGraph::require_dag: the depth-first search with three colours   *)
(* that every load of a sensor map runs over its coupling edges.  Spec ids *)
(* are numbered in their order.  The code's adjacency lists are the edges  *)
(* of a source in the order of the file; the child index that it keeps for *)
(* a node on the stack is here the index of the edge it took last (0 at    *)
(* first).  `path` is the nodes of the stack.                              *)
(***************************************************************************)
EXTENDS Naturals, Sequences

CONSTANTS
  N,     \* number of spec ids
  Maps   \* the edge lists that sensor maps may have

Node == 1..N

ASSUME CouplingDagAssumption ==
  /\ N \in Nat
  /\ Maps \subseteq Seq(Node \X Node)

VARIABLES
  edges,    \* the edges of the map
  colour,
  stack,    \* nodes being searched, each with its last edge
  verdict,  \* "none", "running", "dag" or "cycle"
  chain     \* the cycle that the error names

vars == <<edges, colour, stack, verdict, chain>>

Check == INSTANCE DagCheck WITH
           Maps <- Maps, edges <- edges, verdict <- verdict, chain <- chain

Nodes == Check!Nodes(edges)

Top == stack[Len(stack)]

White == {n \in Nodes : colour[n] = "white"}

\* The edges of the node on top that the search has not taken yet.
Untaken == {j \in DOMAIN edges : j > Top[2] /\ edges[j][1] = Top[1]}

IsFirst(j, S) == j \in S /\ \A k \in S : j <= k

TypeOK ==
  /\ edges \in Seq(Node \X Node)
  /\ colour \in [Node -> {"white", "gray", "black"}]
  /\ stack \in Seq(Node \X Nat)
  /\ verdict \in {"none", "running", "dag", "cycle"}
  /\ chain \in Seq(Node)

Init ==
  /\ edges = << >>
  /\ colour = [n \in Node |-> "white"]
  /\ stack = << >>
  /\ verdict = "none"
  /\ chain = << >>

\* CouplingGraph::load: every filter run reads the map anew.
Load ==
  /\ verdict # "running"
  /\ edges' \in Maps
  /\ colour' = [n \in Node |-> "white"]
  /\ stack' = << >>
  /\ verdict' = "running"
  /\ chain' = << >>

\* The next node that no search has reached.
Begin ==
  /\ verdict = "running"
  /\ stack = << >>
  /\ \E n \in White :
       /\ IsFirst(n, White)
       /\ colour' = [colour EXCEPT ![n] = "gray"]
       /\ stack' = <<<<n, 0>>>>
  /\ UNCHANGED <<edges, verdict, chain>>

Finish ==
  /\ verdict = "running"
  /\ stack = << >>
  /\ White = {}
  /\ verdict' = "dag"
  /\ UNCHANGED <<edges, colour, stack, chain>>

\* Mutant: the child index does not move.
TookNothing(j) == stack

\* The stack when the node on top has taken edge j.
Took(j) == [stack EXCEPT ![Len(stack)] = <<Top[1], j>>]

Descend(j) ==
  /\ colour[edges[j][2]] = "white"
  /\ colour' = [colour EXCEPT ![edges[j][2]] = "gray"]
  /\ stack' = Append(Took(j), <<edges[j][2], 0>>)
  /\ UNCHANGED <<verdict, chain>>

\* The target is on the stack at position p: the chain leads from there to it.
CloseCycle(j) ==
  /\ colour[edges[j][2]] = "gray"
  /\ \E p \in DOMAIN stack :
       /\ IsFirst(p, {q \in DOMAIN stack : stack[q][1] = edges[j][2]})
       /\ chain' = [k \in 1..(Len(stack) - p + 2) |->
                      IF k <= Len(stack) - p + 1 THEN stack[p + k - 1][1]
                      ELSE edges[j][2]]
  /\ verdict' = "cycle"
  /\ stack' = Took(j)
  /\ UNCHANGED colour

\* Mutant: a node that was done before counts as on the stack.
SkipNothing(j) ==
  /\ colour[edges[j][2]] = "black"
  /\ verdict' = "cycle"
  /\ stack' = Took(j)
  /\ UNCHANGED <<colour, chain>>

Skip(j) ==
  /\ colour[edges[j][2]] = "black"
  /\ stack' = Took(j)
  /\ UNCHANGED <<colour, verdict, chain>>

Take ==
  /\ verdict = "running"
  /\ stack # << >>
  /\ \E j \in Untaken :
       /\ IsFirst(j, Untaken)
       /\ Descend(j) \/ CloseCycle(j) \/ Skip(j)
  /\ UNCHANGED edges

\* Mutant: a node is done when its first edge has been followed.
BackEarly ==
  /\ verdict = "running"
  /\ stack # << >>
  /\ Untaken = {} \/ Top[2] # 0
  /\ colour' = [colour EXCEPT ![Top[1]] = "black"]
  /\ stack' = SubSeq(stack, 1, Len(stack) - 1)
  /\ UNCHANGED <<edges, verdict, chain>>

Back ==
  /\ verdict = "running"
  /\ stack # << >>
  /\ Untaken = {}
  /\ colour' = [colour EXCEPT ![Top[1]] = "black"]
  /\ stack' = SubSeq(stack, 1, Len(stack) - 1)
  /\ UNCHANGED <<edges, verdict, chain>>

Search == Begin \/ Take \/ Back \/ Finish

Next == Load \/ Search

Spec == Init /\ [][Next]_vars

----------------------------------------------------------------------------
(* Properties.                                                             *)

\* Whatever edges a map has, in whatever order, with self-loops, doubled edges
\* and parts that do not touch: the search accepts it only if it has no cycle,
\* and the chain of its error is a cycle of the map.
VerdictRight ==
  /\ verdict = "dag" => Check!Acyclic(edges)
  /\ verdict = "cycle" => /\ Check!IsCycle(edges, chain)
                          /\ ~Check!Acyclic(edges)

\* The search implements the one-step check.
Implements == Check!Spec
==========================================================================
