-------------------------- MODULE SensorMapProofs --------------------------
(***************************************************************************)
(* For every number of specs and every list of edges: the verdict of       *)
(* require_dag is right, the search implements the one-step check, and so   *)
(* it does in the runs of SensorMap, whose proposals and backends rest on   *)
(* it.                                                                     *)
(***************************************************************************)
EXTENDS SensorMap, SequenceLemmas

USE CouplingDagAssumption

Black == {n \in Node : colour[n] = "black"}

\* Consecutive nodes of the stack are joined by the edge the lower one took.
StackIsPath ==
  /\ \A i \in DOMAIN stack : stack[i][1] \in Nodes
  /\ \A i \in 1..(Len(stack) - 1) :
       /\ stack[i][2] \in DOMAIN edges
       /\ edges[stack[i][2]] = <<stack[i][1], stack[i+1][1]>>

\* The gray nodes are those on the stack, each once.
GrayOnStack ==
  /\ \A n \in Node : colour[n] = "gray" <=> \E i \in DOMAIN stack : stack[i][1] = n
  /\ \A i, k \in DOMAIN stack : stack[i][1] = stack[k][1] => i = k

\* The edges that a node on the stack has taken lead to black nodes, but for the
\* one that leads to the node above it.
TakenAreDone ==
  verdict = "running" =>
    \A i \in DOMAIN stack : \A j \in DOMAIN edges :
      (edges[j][1] = stack[i][1] /\ j <= stack[i][2]) =>
        \/ colour[edges[j][2]] = "black"
        \/ j = stack[i][2] /\ i < Len(stack)

BlackClosed ==
  \A j \in DOMAIN edges :
    colour[edges[j][1]] = "black" => colour[edges[j][2]] = "black"

BlackHasSinks ==
  \A S \in SUBSET Black :
    S # {} => \E n \in S : \A j \in DOMAIN edges :
                 edges[j][1] = n => edges[j][2] \notin S

IInv ==
  /\ TypeOK
  /\ StackIsPath
  /\ GrayOnStack
  /\ TakenAreDone
  /\ BlackClosed
  /\ BlackHasSinks
  /\ VerdictRight

----------------------------------------------------------------------------
(* Facts about edges, cycles and the stack.                                *)

\* An edge of a well-typed map joins two nodes.
LEMMA EdgeNodes ==
  ASSUME TypeOK, NEW j \in DOMAIN edges
  PROVE  /\ edges[j] = <<edges[j][1], edges[j][2]>>
         /\ edges[j][1] \in Node /\ edges[j][2] \in Node
         /\ edges[j][1] \in Nodes /\ edges[j][2] \in Nodes
  BY DEF TypeOK, Nodes, Check!Nodes

\* The nodes of a map are spec ids.
LEMMA NodesAreNode ==
  ASSUME TypeOK
  PROVE  Nodes \subseteq Node
  BY EdgeNodes DEF Nodes, Check!Nodes

\* A map with a cycle is not acyclic: no node of the cycle is a sink of it.
LEMMA CycleRefutes ==
  ASSUME TypeOK, NEW c \in Seq(Node), Check!IsCycle(edges, c)
  PROVE  ~Check!Acyclic(edges)
<1> DEFINE S == {c[k] : k \in 1..(Len(c) - 1)}
<1>1. Len(c) \in Nat /\ Len(c) >= 2 /\ c[1] = c[Len(c)]
  BY DEF Check!IsCycle
<1>2. ASSUME NEW k \in 1..(Len(c) - 1)
      PROVE  c[k+1] \in S
  <2>1. CASE k + 1 = Len(c)
    <3>1. c[k+1] = c[1]
      BY <1>1, <2>1
    <3>2. 1 \in 1..(Len(c) - 1)
      BY <1>1
    <3> QED BY <3>1, <3>2
  <2>2. CASE k + 1 # Len(c)
    <3>1. k + 1 \in 1..(Len(c) - 1)
      BY <1>1, <2>2
    <3> QED BY <3>1
  <2> QED BY <2>1, <2>2
<1>3. ASSUME NEW n \in S
      PROVE  \E j \in DOMAIN edges : edges[j][1] = n /\ edges[j][2] \in S
  <2>1. PICK k \in 1..(Len(c) - 1) : n = c[k]
    BY <1>3
  <2>2. PICK j \in DOMAIN edges : edges[j] = <<c[k], c[k+1]>>
    BY DEF Check!IsCycle
  <2> QED BY <2>1, <2>2, <1>2
<1>4. S \in SUBSET Nodes
  BY <1>3, EdgeNodes
<1>5. S # {}
  <2>1. 1 \in 1..(Len(c) - 1)
    BY <1>1
  <2> QED BY <2>1
<1> QED BY <1>3, <1>4, <1>5 DEF Check!Acyclic, Nodes

\* When the node on top takes edge j, the rest of the stack stays.
LEMMA TookFacts ==
  ASSUME TypeOK, stack # << >>, NEW j \in DOMAIN edges
  PROVE  /\ Took(j) \in Seq(Node \X Nat)
         /\ Len(Took(j)) = Len(stack)
         /\ Len(stack) \in Nat \ {0}
         /\ DOMAIN Took(j) = DOMAIN stack
         /\ DOMAIN stack = 1..Len(stack)
         /\ Took(j)[Len(stack)] = <<Top[1], j>>
         /\ Top[1] \in Node /\ Top[2] \in Nat
         /\ \A i \in DOMAIN stack : Took(j)[i][1] = stack[i][1]
         /\ \A i \in DOMAIN stack : i # Len(stack) => Took(j)[i] = stack[i]
<1>1. Len(stack) \in Nat \ {0} /\ DOMAIN stack = 1..Len(stack)
  BY DEF TypeOK
<1>2. Top \in Node \X Nat
  BY <1>1 DEF TypeOK, Top
<1>3. j \in Nat
  BY DEF TypeOK
<1> QED BY <1>1, <1>2, <1>3 DEF TypeOK, Took, Top

\* The search is at an edge of the node on top that it has not taken.
LEMMA TakenEdge ==
  ASSUME TypeOK, stack # << >>, NEW j \in Untaken
  PROVE  /\ j \in DOMAIN edges /\ j \in Nat /\ j > Top[2]
         /\ edges[j][1] = Top[1]
         /\ edges[j] = <<Top[1], edges[j][2]>>
  BY EdgeNodes DEF Untaken, TypeOK

----------------------------------------------------------------------------
(* Each step keeps the invariant.                                          *)

LEMMA InitInv == Init => IInv
  BY DEF Init, IInv, TypeOK, StackIsPath, GrayOnStack, TakenAreDone, BlackClosed,
         BlackHasSinks, VerdictRight, Black

LEMMA LoadInv ==
  ASSUME Load
  PROVE  IInv'
<1>1. edges' \in Seq(Node \X Node)
  BY DEF Load
<1>2. TypeOK'
  BY <1>1 DEF Load, TypeOK
<1>3. \A j \in DOMAIN edges' : edges'[j][1] \in Node
  BY <1>1
<1>4. StackIsPath' /\ GrayOnStack' /\ TakenAreDone' /\ VerdictRight'
  BY DEF Load, StackIsPath, GrayOnStack, TakenAreDone, VerdictRight
<1>5. BlackClosed'
  BY <1>3 DEF Load, BlackClosed
<1>6. BlackHasSinks'
  BY DEF Load, BlackHasSinks, Black
<1> QED BY <1>2, <1>4, <1>5, <1>6 DEF IInv

LEMMA BeginInv ==
  ASSUME IInv, Begin
  PROVE  IInv'
<1> USE DEF IInv
<1>1. PICK n \in White :
        /\ colour' = [colour EXCEPT ![n] = "gray"]
        /\ stack' = <<<<n, 0>>>>
  BY DEF Begin
<1>2. n \in Node /\ n \in Nodes /\ colour[n] = "white"
  BY NodesAreNode DEF White
<1>3. UNCHANGED <<edges, verdict, chain>> /\ verdict = "running" /\ stack = << >>
  BY DEF Begin
<1>4. TypeOK'
  BY <1>1, <1>2, <1>3 DEF TypeOK
<1>5. Nodes' = Nodes
  BY <1>3 DEF Nodes
<1>6. StackIsPath'
  BY <1>1, <1>2, <1>3, <1>5 DEF StackIsPath
<1>7. GrayOnStack'
  BY <1>1, <1>2, <1>3 DEF GrayOnStack, TypeOK
<1>8. TakenAreDone'
  BY <1>1, <1>2, <1>3 DEF TakenAreDone, TypeOK
<1>9. Black' = Black /\ \A m \in Node : colour'[m] = "black" <=> colour[m] = "black"
  BY <1>1, <1>2 DEF Black, TypeOK
<1>10. BlackClosed' /\ BlackHasSinks'
  BY <1>9, <1>3, EdgeNodes DEF BlackClosed, BlackHasSinks
<1>11. VerdictRight'
  BY <1>3 DEF VerdictRight
<1> QED BY <1>4, <1>6, <1>7, <1>8, <1>10, <1>11

LEMMA DescendInv ==
  ASSUME IInv, verdict = "running", stack # << >>, UNCHANGED edges,
         NEW j \in Untaken, IsFirst(j, Untaken), Descend(j)
  PROVE  IInv'
<1> DEFINE m == edges[j][2]
           L == Len(stack)
<1> USE DEF IInv
<1>1. /\ j \in DOMAIN edges /\ j \in Nat /\ j > Top[2]
      /\ edges[j] = <<Top[1], m>> /\ edges[j][1] = Top[1]
      /\ m \in Node /\ m \in Nodes
  BY TakenEdge, EdgeNodes
<1>2. /\ colour[m] = "white"
      /\ colour' = [colour EXCEPT ![m] = "gray"]
      /\ stack' = Append(Took(j), <<m, 0>>)
      /\ UNCHANGED <<edges, verdict, chain>>
  BY DEF Descend
<1>3. L \in Nat \ {0} /\ DOMAIN stack = 1..L /\ Top = stack[L] /\ Top[2] \in Nat
  BY TookFacts, <1>1 DEF Top
<1>4. stack' \in Seq(Node \X Nat)
  BY <1>1, <1>2, TookFacts
<1>5. /\ Len(stack') = L + 1 /\ DOMAIN stack' = 1..(L+1)
      /\ stack'[L+1] = <<m, 0>>
      /\ stack'[L] = <<Top[1], j>>
      /\ \A i \in 1..L : stack'[i][1] = stack[i][1]
      /\ \A i \in 1..(L-1) : stack'[i] = stack[i]
  <2> DEFINE T == Took(j)
  <2>0. /\ T \in Seq(Node \X Nat) /\ Len(T) = L /\ DOMAIN T = DOMAIN stack
        /\ T[L] = <<Top[1], j>>
        /\ \A i \in DOMAIN stack : T[i][1] = stack[i][1]
        /\ \A i \in DOMAIN stack : i # L => T[i] = stack[i]
    BY <1>1, TookFacts
  <2>1. /\ T \in Seq(Node \X Nat) /\ Len(T) = L /\ DOMAIN T = 1..L
        /\ T[L] = <<Top[1], j>>
        /\ \A i \in 1..L : T[i][1] = stack[i][1]
        /\ \A i \in 1..(L-1) : T[i] = stack[i]
    <3>1. L \in Nat /\ DOMAIN stack = 1..L
      BY <1>3
    <3> HIDE DEF T, L
    <3>2. ASSUME NEW i \in 1..(L-1)
          PROVE  T[i] = stack[i]
      <4>1. i \in DOMAIN stack /\ i # L
        BY <3>1
      <4> QED BY <4>1, <2>0
    <3> QED BY <2>0, <3>1, <3>2
  <2>2. stack' = Append(T, <<m, 0>>)
    BY <1>2
  <2> HIDE DEF T
  <2>3. /\ Len(stack') = L + 1 /\ DOMAIN stack' = 1..(L+1)
        /\ stack'[L+1] = <<m, 0>>
        /\ \A i \in 1..L : stack'[i] = T[i]
    BY <2>1, <2>2, <1>1, <1>3
  <2>4. L \in 1..L /\ \A i \in 1..(L-1) : i \in 1..L
    BY <1>3
  <2> HIDE DEF m, L
  <2>5. /\ stack'[L] = <<Top[1], j>>
        /\ \A i \in 1..L : stack'[i][1] = stack[i][1]
    BY <2>1, <2>3, <2>4
  <2>6. \A i \in 1..(L-1) : stack'[i] = stack[i]
    BY <2>1, <2>3, <2>4
  <2> QED BY <2>3, <2>5, <2>6
<1> HIDE DEF m, L
<1>6. TypeOK'
  BY <1>1, <1>2, <1>4 DEF TypeOK
<1>7. Nodes' = Nodes
  BY <1>2 DEF Nodes
<1>8. StackIsPath'
  <2>1. \A i \in DOMAIN stack' : stack'[i][1] \in Nodes'
    BY <1>1, <1>3, <1>5, <1>7 DEF StackIsPath
  <2>2. ASSUME NEW i \in 1..(Len(stack') - 1)
        PROVE  /\ stack'[i][2] \in DOMAIN edges'
               /\ edges'[stack'[i][2]] = <<stack'[i][1], stack'[i+1][1]>>
    <3>1. CASE i = L
      BY <3>1, <1>1, <1>2, <1>3, <1>5
    <3>2. CASE i # L
      <4>1. i \in 1..(L-1) /\ i + 1 \in 1..L
        BY <3>2, <1>3, <1>5
      <4> QED BY <4>1, <1>2, <1>5 DEF StackIsPath, L
    <3> QED BY <3>1, <3>2
  <2> QED BY <2>1, <2>2 DEF StackIsPath
<1>9. \A i \in 1..L : stack[i][1] # m
  BY <1>1, <1>2, <1>3 DEF GrayOnStack
<1>10. GrayOnStack'
  <2>1. ASSUME NEW n \in Node
        PROVE  colour'[n] = "gray" <=> \E i \in DOMAIN stack' : stack'[i][1] = n
    <3>1. CASE n = m
      <4>1. L + 1 \in DOMAIN stack'
        BY <1>3, <1>5
      <4> QED BY <3>1, <4>1, <1>1, <1>2, <1>5 DEF TypeOK
    <3>2. CASE n # m
      <4>1. colour'[n] = colour[n]
        BY <3>2, <1>2 DEF TypeOK
      <4>2. (\E i \in DOMAIN stack' : stack'[i][1] = n)
              <=> \E i \in DOMAIN stack : stack[i][1] = n
        BY <3>2, <1>3, <1>5
      <4> QED BY <4>1, <4>2 DEF GrayOnStack
    <3> QED BY <3>1, <3>2
  <2>2. ASSUME NEW i \in DOMAIN stack', NEW k \in DOMAIN stack',
               stack'[i][1] = stack'[k][1]
        PROVE  i = k
    BY <2>2, <1>3, <1>5, <1>9 DEF GrayOnStack
  <2> QED BY <2>1, <2>2 DEF GrayOnStack
<1>11. \A n \in Node : colour'[n] = "black" <=> colour[n] = "black"
  BY <1>1, <1>2 DEF TypeOK
<1>12. TakenAreDone'
  <2> SUFFICES ASSUME NEW i \in DOMAIN stack', NEW k \in DOMAIN edges,
                      edges[k][1] = stack'[i][1], k <= stack'[i][2]
               PROVE  \/ colour'[edges[k][2]] = "black"
                      \/ k = stack'[i][2] /\ i < Len(stack')
    BY <1>2 DEF TakenAreDone
  <2>1. edges[k][2] \in Node /\ k \in Nat /\ k >= 1
    BY EdgeNodes DEF TypeOK
  <2>2. CASE i = L + 1
    BY <2>1, <2>2, <1>5
  <2>3. CASE i = L
    <3>1. CASE k = j
      BY <2>3, <3>1, <1>3, <1>5
    <3>2. CASE k # j
      <4>1. k <= j /\ edges[k][1] = Top[1]
        BY <2>3, <1>3, <1>5
      <4>2. k <= Top[2]
        BY <4>1, <3>2, <2>1, <1>1, <1>3 DEF Untaken, IsFirst
      <4> QED BY <4>1, <4>2, <1>3, <1>11, <2>1 DEF TakenAreDone, L
    <3> QED BY <3>1, <3>2
  <2>4. CASE i \in 1..(L-1)
    <3>1. stack'[i] = stack[i] /\ i \in DOMAIN stack /\ L + 1 = Len(stack')
      BY <2>4, <1>3, <1>5
    <3>2. edges[k][1] = stack[i][1] /\ k <= stack[i][2]
      BY <3>1
    <3>3. colour[edges[k][2]] = "black" \/ (k = stack[i][2] /\ i < L)
      BY <3>1, <3>2, <2>4, <1>3 DEF TakenAreDone
    <3>4. i < Len(stack')
      BY <2>4, <3>1, <1>3
    <3> QED BY <2>1, <3>1, <3>3, <3>4, <1>11
  <2> QED BY <2>2, <2>3, <2>4, <1>3, <1>5
<1>13. Black' = Black
  BY <1>11 DEF Black
<1>14. BlackClosed' /\ BlackHasSinks'
  BY <1>11, <1>13, <1>2, EdgeNodes DEF BlackClosed, BlackHasSinks
<1>15. VerdictRight'
  BY <1>2 DEF VerdictRight
<1> QED BY <1>6, <1>8, <1>10, <1>12, <1>14, <1>15

\* Taking an edge keeps the types and the shape of the stack, if the edge leads
\* to the node above it, and that is none.
LEMMA TookInv ==
  ASSUME IInv, stack # << >>, NEW j \in Untaken, stack' = Took(j),
         UNCHANGED <<edges, colour>>
  PROVE  /\ stack' \in Seq(Node \X Nat) /\ Len(stack') = Len(stack)
         /\ StackIsPath' /\ GrayOnStack' /\ BlackClosed' /\ BlackHasSinks'
<1> USE DEF IInv
<1>1. j \in DOMAIN edges
  BY TakenEdge
<1>2. /\ stack' \in Seq(Node \X Nat) /\ Len(stack') = Len(stack)
      /\ Len(stack) \in Nat \ {0}
      /\ DOMAIN stack' = DOMAIN stack /\ DOMAIN stack = 1..Len(stack)
      /\ \A i \in DOMAIN stack : stack'[i][1] = stack[i][1]
      /\ \A i \in DOMAIN stack : i # Len(stack) => stack'[i] = stack[i]
  BY <1>1, TookFacts
<1>3. Nodes' = Nodes /\ Black' = Black
  BY DEF Nodes, Black
<1>4. StackIsPath'
  <2>1. \A i \in DOMAIN stack' : stack'[i][1] \in Nodes'
    BY <1>2, <1>3 DEF StackIsPath
  <2>2. ASSUME NEW i \in 1..(Len(stack') - 1)
        PROVE  /\ stack'[i][2] \in DOMAIN edges'
               /\ edges'[stack'[i][2]] = <<stack'[i][1], stack'[i+1][1]>>
    <3>0. Len(stack') = Len(stack) /\ Len(stack) \in Nat /\ DOMAIN stack = 1..Len(stack)
      BY <1>2
    <3>1. i \in DOMAIN stack /\ i + 1 \in DOMAIN stack /\ i # Len(stack)
      BY <3>0
    <3>2. stack'[i] = stack[i] /\ stack'[i+1][1] = stack[i+1][1]
      BY <1>2, <3>1
    <3>3. i \in 1..(Len(stack) - 1)
      BY <3>0
    <3> QED BY <3>2, <3>3 DEF StackIsPath
  <2> QED BY <2>1, <2>2 DEF StackIsPath
<1>5. GrayOnStack'
  BY <1>2 DEF GrayOnStack
<1>6. BlackClosed' /\ BlackHasSinks'
  BY <1>3 DEF BlackClosed, BlackHasSinks
<1> QED BY <1>2, <1>4, <1>5, <1>6

LEMMA SkipInv ==
  ASSUME IInv, verdict = "running", stack # << >>, UNCHANGED edges,
         NEW j \in Untaken, IsFirst(j, Untaken), Skip(j)
  PROVE  IInv'
<1> USE DEF IInv
<1> DEFINE L == Len(stack)
<1>1. /\ stack' = Took(j) /\ UNCHANGED <<colour, verdict, chain>>
      /\ colour[edges[j][2]] = "black"
  BY DEF Skip
<1>2. /\ stack' \in Seq(Node \X Nat) /\ Len(stack') = L
      /\ StackIsPath' /\ GrayOnStack' /\ BlackClosed' /\ BlackHasSinks'
  BY <1>1, TookInv
<1>3. TypeOK'
  BY <1>1, <1>2 DEF TypeOK
<1>4. /\ j \in DOMAIN edges /\ j \in Nat /\ j > Top[2] /\ edges[j][1] = Top[1]
  BY TakenEdge
<1>5. /\ L \in Nat \ {0} /\ DOMAIN stack = 1..L /\ DOMAIN stack' = 1..L
      /\ Top = stack[L] /\ Top[2] \in Nat
      /\ stack'[L] = <<Top[1], j>>
      /\ \A i \in 1..L : i # L => stack'[i] = stack[i]
  BY <1>1, <1>4, TookFacts DEF Top
<1>5a. ~(L < Len(stack)) /\ Len(stack') = Len(stack)
  <2>1. Len(stack) \in Nat
    BY <1>5
  <2>2. ~(Len(stack) < Len(stack))
    BY <2>1
  <2>3. Len(stack') = Len(stack)
    BY <1>2
  <2> QED BY <2>2, <2>3
<1> HIDE DEF L
<1>6. TakenAreDone'
  <2> SUFFICES ASSUME NEW i \in DOMAIN stack', NEW k \in DOMAIN edges,
                      edges[k][1] = stack'[i][1], k <= stack'[i][2]
               PROVE  \/ colour[edges[k][2]] = "black"
                      \/ k = stack'[i][2] /\ i < Len(stack')
    BY <1>1 DEF TakenAreDone
  <2>1. k \in Nat
    BY DEF TypeOK
  <2>2. CASE i = L
    <3>1. CASE k = j
      BY <3>1, <1>1
    <3>2. CASE k # j
      <4>1. k <= j /\ edges[k][1] = Top[1]
        BY <2>2, <1>5
      <4>2. k <= Top[2]
        BY <4>1, <3>2, <2>1, <1>4, <1>5 DEF Untaken, IsFirst
      <4>3. L \in DOMAIN stack
        BY <1>5
      <4> QED BY <4>1, <4>2, <4>3, <1>5, <1>5a DEF TakenAreDone
    <3> QED BY <3>1, <3>2
  <2>3. CASE i # L
    <3>1. stack'[i] = stack[i] /\ i \in DOMAIN stack /\ Len(stack') = Len(stack)
      BY <2>3, <1>5
    <3>2. edges[k][1] = stack[i][1] /\ k <= stack[i][2]
      BY <3>1
    <3>3. colour[edges[k][2]] = "black" \/ (k = stack[i][2] /\ i < Len(stack))
      BY <3>1, <3>2, <1>2 DEF TakenAreDone
    <3> QED BY <3>1, <3>3
  <2> QED BY <2>2, <2>3
<1>7. VerdictRight'
  BY <1>1 DEF VerdictRight
<1> QED BY <1>2, <1>3, <1>6, <1>7

\* A function on 1..M is a sequence of length M.
LEMMA SeqIsFunction ==
  ASSUME NEW S, NEW M \in Nat, NEW f \in [1..M -> S]
  PROVE  f \in Seq(S) /\ Len(f) = M
OBVIOUS

\* From the target's place on the stack to the top, and back to the target: the
\* chain is a cycle.
LEMMA ClosedChain ==
  ASSUME IInv, stack # << >>, NEW j \in Untaken,
         NEW p \in DOMAIN stack, stack[p][1] = edges[j][2],
         NEW c, c = [k \in 1..(Len(stack) - p + 2) |->
                       IF k <= Len(stack) - p + 1 THEN stack[p + k - 1][1]
                       ELSE edges[j][2]]
  PROVE  c \in Seq(Node) /\ Check!IsCycle(edges, c)
<1> USE DEF IInv
<1> DEFINE L == Len(stack)
<1>1. /\ j \in DOMAIN edges /\ edges[j] = <<Top[1], edges[j][2]>>
      /\ edges[j][2] \in Node
  BY TakenEdge, EdgeNodes
<1>2. /\ L \in Nat \ {0} /\ DOMAIN stack = 1..L /\ Top = stack[L]
      /\ p \in 1..L
  BY <1>1, TookFacts DEF Top
<1>3. \A i \in 1..L : stack[i][1] \in Node
  BY <1>2 DEF TypeOK
<1> HIDE DEF L
<1>4. c = [k \in 1..(L - p + 2) |-> IF k <= L - p + 1 THEN stack[p + k - 1][1]
                                    ELSE edges[j][2]]
  BY DEF L
<1>5. ASSUME NEW k \in 1..(L - p + 2)
      PROVE  c[k] \in Node
  <2>1. CASE k <= L - p + 1
    <3>1. p + k - 1 \in 1..L
      BY <2>1, <1>2
    <3> QED BY <3>1, <2>1, <1>3, <1>4
  <2>2. CASE ~(k <= L - p + 1)
    BY <2>2, <1>1, <1>4
  <2> QED BY <2>1, <2>2
<1>6. L - p + 2 \in Nat /\ L - p + 2 >= 2
  BY <1>2
<1>7. c \in Seq(Node) /\ Len(c) = L - p + 2
  <2> DEFINE M == L - p + 2
  <2>1. DOMAIN c = 1..M /\ M \in Nat
    BY <1>4, <1>6
  <2>2. c = [k \in 1..M |-> c[k]]
    BY <1>4
  <2>3. \A k \in 1..M : c[k] \in Node
    BY <1>5
  <2> HIDE DEF M
  <2>4. c \in [1..M -> Node]
    BY <2>1, <2>2, <2>3
  <2>5. c \in Seq(Node) /\ Len(c) = M
    BY <2>1, <2>4, SeqIsFunction
  <2> QED BY <2>5 DEF M
<1>8. c[1] = edges[j][2] /\ c[Len(c)] = edges[j][2]
  <2>1. 1 \in 1..(L - p + 2) /\ 1 <= L - p + 1 /\ p + 1 - 1 = p
    BY <1>2
  <2>2. c[1] = edges[j][2]
    BY <2>1, <1>4
  <2>3. L - p + 2 \in 1..(L - p + 2) /\ ~(L - p + 2 <= L - p + 1)
    BY <1>2
  <2> QED BY <2>2, <2>3, <1>4, <1>7
<1>9. ASSUME NEW k \in 1..(Len(c) - 1)
      PROVE  \E i \in DOMAIN edges : edges[i] = <<c[k], c[k+1]>>
  <2>1. k \in 1..(L - p + 1) /\ k \in 1..(L - p + 2) /\ k + 1 \in 1..(L - p + 2)
    BY <1>2, <1>7
  <2>2. c[k] = stack[p + k - 1][1]
    BY <2>1, <1>4, <1>2
  <2>3. CASE k = L - p + 1
    <3>1. p + k - 1 = L /\ ~(k + 1 <= L - p + 1)
      BY <2>3, <1>2
    <3>2. c[k+1] = edges[j][2]
      BY <3>1, <2>1, <1>4
    <3> QED BY <3>1, <3>2, <2>2, <1>1, <1>2
  <2>4. CASE k # L - p + 1
    <3>1. /\ p + k - 1 \in 1..(Len(stack) - 1) /\ k + 1 <= L - p + 1
          /\ p + (k + 1) - 1 = (p + k - 1) + 1
      BY <2>1, <2>4, <1>2 DEF L
    <3>2. c[k+1] = stack[(p + k - 1) + 1][1]
      BY <3>1, <2>1, <1>4
    <3> QED BY <3>1, <3>2, <2>2 DEF StackIsPath
  <2> QED BY <2>3, <2>4
<1> QED BY <1>6, <1>7, <1>8, <1>9 DEF Check!IsCycle

LEMMA CloseCycleInv ==
  ASSUME IInv, verdict = "running", stack # << >>, UNCHANGED edges,
         NEW j \in Untaken, CloseCycle(j)
  PROVE  IInv'
<1> USE DEF IInv
<1>1. stack' = Took(j) /\ verdict' = "cycle" /\ UNCHANGED colour
  BY DEF CloseCycle
<1>2. /\ stack' \in Seq(Node \X Nat)
      /\ StackIsPath' /\ GrayOnStack' /\ BlackClosed' /\ BlackHasSinks'
  BY <1>1, TookInv
<1>3. PICK p \in DOMAIN stack :
        /\ stack[p][1] = edges[j][2]
        /\ chain' = [k \in 1..(Len(stack) - p + 2) |->
                       IF k <= Len(stack) - p + 1 THEN stack[p + k - 1][1]
                       ELSE edges[j][2]]
  BY DEF CloseCycle, IsFirst
<1>4. chain' \in Seq(Node) /\ Check!IsCycle(edges, chain')
  BY <1>3, ClosedChain
<1>5. TypeOK'
  BY <1>1, <1>2, <1>4 DEF TypeOK
<1>6. TakenAreDone'
  BY <1>1 DEF TakenAreDone
<1>7. VerdictRight'
  BY <1>1, <1>4, CycleRefutes DEF VerdictRight
<1> QED BY <1>2, <1>5, <1>6, <1>7

\* The node on top is done: its edges all lead to black nodes, so a set of black
\* nodes that it joins keeps its sink, or has it for one.
LEMMA BackInv ==
  ASSUME IInv, Back
  PROVE  IInv'
<1> USE DEF IInv
<1> DEFINE L == Len(stack)
           n == Top[1]
<1>1. /\ verdict = "running" /\ stack # << >> /\ Untaken = {}
      /\ colour' = [colour EXCEPT ![n] = "black"]
      /\ stack' = SubSeq(stack, 1, L - 1)
      /\ UNCHANGED <<edges, verdict, chain>>
  BY DEF Back
<1>2. /\ L \in Nat \ {0} /\ DOMAIN stack = 1..L /\ Top = stack[L]
      /\ n \in Node /\ Top[2] \in Nat /\ n = stack[L][1]
  BY <1>1 DEF TypeOK, Top
<1>3. /\ stack' \in Seq(Node \X Nat) /\ Len(stack') = L - 1
      /\ DOMAIN stack' = 1..(L-1)
      /\ \A i \in 1..(L-1) : stack'[i] = stack[i]
  BY <1>1, <1>2 DEF TypeOK
<1> HIDE DEF L, n
<1>4. \A m \in Node : colour'[m] = IF m = n THEN "black" ELSE colour[m]
  BY <1>1, <1>2 DEF TypeOK
<1>5. TypeOK'
  BY <1>1, <1>2, <1>3 DEF TypeOK
<1>6. Nodes' = Nodes
  BY <1>1 DEF Nodes
<1>7. StackIsPath'
  <2>1. \A i \in DOMAIN stack' : stack'[i][1] \in Nodes'
    BY <1>2, <1>3, <1>6 DEF StackIsPath
  <2>2. ASSUME NEW i \in 1..(Len(stack') - 1)
        PROVE  /\ stack'[i][2] \in DOMAIN edges'
               /\ edges'[stack'[i][2]] = <<stack'[i][1], stack'[i+1][1]>>
    <3>1. i \in 1..(L-1) /\ i + 1 \in 1..(L-1) /\ i \in 1..(Len(stack) - 1)
      BY <1>2, <1>3 DEF L
    <3> QED BY <3>1, <1>1, <1>3 DEF StackIsPath
  <2> QED BY <2>1, <2>2 DEF StackIsPath
<1>8. \A i \in 1..(L-1) : stack[i][1] # n
  BY <1>2 DEF GrayOnStack
<1>9. GrayOnStack'
  <2>1. ASSUME NEW m \in Node
        PROVE  colour'[m] = "gray" <=> \E i \in DOMAIN stack' : stack'[i][1] = m
    <3>1. CASE m = n
      BY <3>1, <1>3, <1>4, <1>8
    <3>2. CASE m # n
      <4>1. \A i \in DOMAIN stack' : i \in DOMAIN stack /\ stack'[i] = stack[i]
        BY <1>2, <1>3
      <4>2. ASSUME NEW i \in DOMAIN stack, stack[i][1] = m
            PROVE  i \in DOMAIN stack' /\ stack'[i][1] = m
        <5>1. i # L
          BY <4>2, <3>2, <1>2
        <5>2. i \in 1..(L-1)
          BY <5>1, <1>2
        <5> QED BY <5>2, <4>2, <1>3
      <4> QED BY <4>1, <4>2, <3>2, <1>4 DEF GrayOnStack
    <3> QED BY <3>1, <3>2
  <2>2. \A i, k \in DOMAIN stack' : stack'[i][1] = stack'[k][1] => i = k
    BY <1>2, <1>3 DEF GrayOnStack
  <2> QED BY <2>1, <2>2 DEF GrayOnStack
<1>10. \A j \in DOMAIN edges : edges[j][1] = n => colour[edges[j][2]] = "black"
  <2> SUFFICES ASSUME NEW j \in DOMAIN edges, edges[j][1] = n
               PROVE  colour[edges[j][2]] = "black"
    OBVIOUS
  <2>1. j \in Nat
    BY DEF TypeOK
  <2>2. j <= Top[2]
    BY <2>1, <1>1, <1>2 DEF Untaken, n
  <2>3. L \in DOMAIN stack /\ ~(L < Len(stack)) /\ j <= stack[L][2]
    BY <2>2, <1>2 DEF L
  <2> QED BY <2>3, <1>1, <1>2 DEF TakenAreDone
<1>11. colour[n] # "black"
  BY <1>2 DEF GrayOnStack
<1>12. TakenAreDone'
  <2> SUFFICES ASSUME NEW i \in DOMAIN stack', NEW k \in DOMAIN edges,
                      edges[k][1] = stack'[i][1], k <= stack'[i][2]
               PROVE  \/ colour'[edges[k][2]] = "black"
                      \/ k = stack'[i][2] /\ i < Len(stack')
    BY <1>1 DEF TakenAreDone
  <2>1. edges[k][2] \in Node
    BY EdgeNodes
  <2>2. i \in 1..(L-1) /\ i \in DOMAIN stack /\ stack'[i] = stack[i]
    BY <1>2, <1>3
  <2>3. \/ colour[edges[k][2]] = "black"
        \/ k = stack[i][2] /\ i < Len(stack)
    BY <2>2, <1>1 DEF TakenAreDone
  <2>4. CASE colour[edges[k][2]] = "black"
    BY <2>4, <2>1, <1>4
  <2>5. CASE k = stack[i][2] /\ i = L - 1
    <3>1. i \in 1..(Len(stack) - 1) /\ i + 1 = L
      BY <2>2, <2>5, <1>2 DEF L
    <3>2. edges[k][2] = n
      BY <3>1, <2>5, <1>2 DEF StackIsPath
    <3> QED BY <3>2, <1>2, <1>4
  <2>6. CASE k = stack[i][2] /\ i # L - 1
    BY <2>2, <2>6, <1>2, <1>3
  <2> QED BY <2>3, <2>4, <2>5, <2>6
<1>13. BlackClosed'
  BY <1>1, <1>4, <1>10, EdgeNodes DEF BlackClosed
<1>14. BlackHasSinks'
  <2> SUFFICES ASSUME NEW S \in SUBSET Black', S # {}
               PROVE  \E s \in S : \A j \in DOMAIN edges :
                        edges[j][1] = s => edges[j][2] \notin S
    BY <1>1 DEF BlackHasSinks
  <2>1. S \ {n} \in SUBSET Black
    BY <1>4 DEF Black
  <2>2. CASE S = {n}
    BY <2>2, <1>10, <1>11
  <2>3. CASE S # {n}
    <3>1. S \ {n} # {}
      BY <2>3
    <3>2. PICK s \in S \ {n} : \A j \in DOMAIN edges :
             edges[j][1] = s => edges[j][2] \notin S \ {n}
      BY <2>1, <3>1 DEF BlackHasSinks
    <3>3. colour[s] = "black"
      BY <2>1, <3>2 DEF Black
    <3>4. \A j \in DOMAIN edges : edges[j][1] = s => edges[j][2] # n
      BY <3>3, <1>11 DEF BlackClosed
    <3> QED BY <3>2, <3>4
  <2> QED BY <2>2, <2>3
<1>15. VerdictRight'
  BY <1>1 DEF VerdictRight
<1> QED BY <1>5, <1>7, <1>9, <1>12, <1>13, <1>14, <1>15

LEMMA FinishInv ==
  ASSUME IInv, Finish
  PROVE  IInv'
<1> USE DEF IInv
<1>1. /\ stack = << >> /\ White = {} /\ verdict' = "dag"
      /\ UNCHANGED <<edges, colour, stack, chain>>
  BY DEF Finish
<1>2. Nodes \subseteq Black
  BY <1>1, NodesAreNode DEF White, Black, GrayOnStack, TypeOK
<1>3. Check!Acyclic(edges)
  BY <1>2 DEF Check!Acyclic, Nodes, BlackHasSinks
<1>4. VerdictRight'
  BY <1>1, <1>3 DEF VerdictRight
<1>5. Nodes' = Nodes /\ Black' = Black
  BY <1>1 DEF Nodes, Black
<1>6. TypeOK' /\ StackIsPath' /\ GrayOnStack' /\ TakenAreDone'
  BY <1>1, <1>5 DEF TypeOK, StackIsPath, GrayOnStack, TakenAreDone
<1>7. BlackClosed' /\ BlackHasSinks'
  BY <1>1, <1>5 DEF BlackClosed, BlackHasSinks
<1> QED BY <1>4, <1>6, <1>7

----------------------------------------------------------------------------
(* Theorems.                                                               *)

\* Every step keeps the invariant.
LEMMA NextInv ==
  ASSUME IInv, [Next]_vars
  PROVE  IInv'
<1>1. CASE Load
  BY <1>1, LoadInv
<1>2. CASE Begin
  BY <1>2, BeginInv
<1>3. CASE Take
  <2>1. PICK j \in Untaken : /\ IsFirst(j, Untaken)
                             /\ Descend(j) \/ CloseCycle(j) \/ Skip(j)
    BY <1>3 DEF Take
  <2>2. verdict = "running" /\ stack # << >> /\ UNCHANGED edges
    BY <1>3 DEF Take
  <2> QED BY <2>1, <2>2, DescendInv, CloseCycleInv, SkipInv
<1>4. CASE Back
  BY <1>4, BackInv
<1>5. CASE Finish
  BY <1>5, FinishInv
<1>6. CASE UNCHANGED vars
  <2>1. UNCHANGED <<edges, colour, stack, verdict, chain>> BY <1>6 DEF vars
  <2>2. UNCHANGED <<Nodes, Black>> BY <2>1 DEF Nodes, Black
  <2>3. TypeOK' BY <2>1 DEF IInv, TypeOK
  <2>4. StackIsPath' BY <2>1, <2>2 DEF IInv, StackIsPath
  <2>5. GrayOnStack' BY <2>1 DEF IInv, GrayOnStack
  <2>6. TakenAreDone' BY <2>1 DEF IInv, TakenAreDone
  <2>7. BlackClosed' BY <2>1 DEF IInv, BlackClosed
  <2>8. BlackHasSinks' BY <2>1, <2>2 DEF IInv, BlackHasSinks
  <2>9. VerdictRight' BY <2>1 DEF IInv, VerdictRight
  <2> QED BY <2>3, <2>4, <2>5, <2>6, <2>7, <2>8, <2>9 DEF IInv
<1> QED BY <1>1, <1>2, <1>3, <1>4, <1>5, <1>6 DEF Next, Search

\* The invariant of the search.
THEOREM SearchInvariant == Spec => []IInv
<1>1. Init => IInv
  BY InitInv
<1>2. IInv /\ [Next]_vars => IInv'
  BY NextInv
<1> QED BY <1>1, <1>2, PTL DEF Spec

\* The search stays within its types, for every set of maps.
THEOREM SearchTypeOK == Spec => []TypeOK
<1>1. IInv => TypeOK
  BY DEF IInv
<1> QED BY <1>1, SearchInvariant, PTL

\* For any number of specs and any list of edges: a map is accepted only if it has
\* no cycle, and refused only with a chain that is one of its cycles.
THEOREM VerdictIsRight == Spec => []VerdictRight
<1>1. IInv => VerdictRight
  BY DEF IInv
<1> QED BY <1>1, SearchInvariant, PTL

\* Every step of the search is a step of the check or changes nothing it sees.
LEMMA StepRefines ==
  ASSUME IInv, IInv', [Next]_vars
  PROVE  [Check!Next]_<<edges, verdict, chain>>
<1>1. CASE Load
  BY <1>1 DEF Load, Check!Next, Check!Load
<1>2. CASE Begin
  BY <1>2 DEF Begin
<1>3. CASE Take
  <2>1. PICK j \in Untaken : Descend(j) \/ CloseCycle(j) \/ Skip(j)
    BY <1>3 DEF Take
  <2>2. verdict = "running" /\ UNCHANGED edges
    BY <1>3 DEF Take
  <2>3. CASE Descend(j)
    BY <2>2, <2>3 DEF Descend
  <2>4. CASE Skip(j)
    BY <2>2, <2>4 DEF Skip
  <2>5. CASE CloseCycle(j)
    <3>1. verdict' = "cycle"
      BY <2>5 DEF CloseCycle
    <3>2. Check!IsCycle(edges, chain') /\ ~Check!Acyclic(edges)
      BY <3>1, <2>2 DEF IInv, VerdictRight
    <3> QED BY <3>1, <3>2, <2>2 DEF Check!Next, Check!Refuse
  <2> QED BY <2>1, <2>3, <2>4, <2>5
<1>4. CASE Back
  BY <1>4 DEF Back
<1>5. CASE Finish
  <2>1. verdict = "running" /\ verdict' = "dag" /\ UNCHANGED <<edges, chain>>
    BY <1>5 DEF Finish
  <2>2. Check!Acyclic(edges)
    BY <2>1 DEF IInv, VerdictRight
  <2> QED BY <2>1, <2>2 DEF Check!Next, Check!Accept
<1>6. CASE UNCHANGED vars
  BY <1>6 DEF vars
<1> QED BY <1>1, <1>2, <1>3, <1>4, <1>5, <1>6 DEF Next, Search

\* The depth-first search implements the check that decides in one step.
THEOREM SearchImplements == Spec => Implements
<1>1. Init => Check!Init
  BY DEF Init, Check!Init
<1>2. IInv /\ IInv' /\ [Next]_vars => [Check!Next]_<<edges, verdict, chain>>
  BY StepRefines
<1> QED BY <1>1, <1>2, SearchInvariant, PTL DEF Spec, Implements, Check!Spec

----------------------------------------------------------------------------
(* The runs of SensorMap.                                                  *)

\* The proposal goes from lower ids to higher ones, and a backend is picked after
\* the verdict, from what was loaded.
MapInv ==
  /\ IInv
  /\ kept \in Seq(Pairs)
  /\ ProposalRight
  /\ backend # "none" => verdict \in {"dag", "cycle"}
  /\ backend \in {"bp", "rbpf", "hmm"} => verdict = "dag"
  /\ BackendFits

\* Every pair is from a lower id to a higher one.
LEMMA PairsAscend == \A e \in Pairs : e \in Node \X Node /\ e[1] < e[2]
BY DEF Pairs

\* Edges that lead from lower to higher nodes make no cycle: of any set of nodes
\* the highest has no edge into the set.
LEMMA AscendingIsAcyclic ==
  ASSUME NEW E \in Seq(Node \X Node), \A j \in DOMAIN E : E[j][1] < E[j][2]
  PROVE  Check!Acyclic(E)
<1>1. SUFFICES ASSUME NEW S \in SUBSET Check!Nodes(E), S # {}
               PROVE  \E n \in S : \A j \in DOMAIN E :
                        E[j][1] = n => E[j][2] \notin S
  BY DEF Check!Acyclic
<1>2. \A j \in DOMAIN E : E[j] \in Node \X Node
  OBVIOUS
<1>3. S \subseteq Node
  BY <1>1, <1>2 DEF Check!Nodes
<1> DEFINE T == {k \in Nat : \E n \in S : k = N - n}
<1>4. T # {}
  <2>1. PICK n \in S : TRUE
    BY <1>1
  <2>2. n \in 1..N
    BY <1>3 DEF Node
  <2>3. N - n \in T
    BY <2>2
  <2> QED BY <2>3
<1>5. PICK m \in T : \A k \in T : m <= k
  <2> HIDE DEF T
  <2>1. T \in SUBSET Nat
    BY DEF T
  <2> QED BY <1>4, <2>1, LeastNumber
<1>6. PICK n \in S : m = N - n
  BY <1>5
<1>7. \A j \in DOMAIN E : E[j][1] = n => E[j][2] \notin S
  <2> SUFFICES ASSUME NEW j \in DOMAIN E, E[j][1] = n, E[j][2] \in S
               PROVE  FALSE
    OBVIOUS
  <2>1. n \in 1..N /\ E[j][2] \in 1..N /\ n < E[j][2]
    BY <1>2, <1>3 DEF Node
  <2>2. N - E[j][2] \in T
    BY <2>1
  <2>3. m <= N - E[j][2]
    BY <1>5, <2>2
  <2> HIDE DEF T
  <2> QED BY <1>6, <2>1, <2>3
<1> QED BY <1>7

\* No edge of the proposal leads back: what it reaches from the higher node of a
\* pair lies above the lower one.
LEMMA NoWayBack ==
  ASSUME kept \in Seq(Pairs), NEW e \in Pairs
  PROVE  ~Reaches(SetOf(kept), e[2], e[1])
<1> DEFINE S == {n \in Node : e[2] <= n}
<1>1. e[1] \in Node /\ e[2] \in Node /\ e[1] < e[2]
  BY PairsAscend
<1>2. e[2] \in S /\ e[1] \notin S
  BY <1>1 DEF Node
<1>3. ASSUME NEW d \in SetOf(kept), d[1] \in S
      PROVE  d[2] \in S
  <2>1. d \in Pairs
    BY DEF SetOf
  <2>2. d[1] \in Node /\ d[2] \in Node /\ d[1] < d[2]
    BY <2>1, PairsAscend
  <2> QED BY <1>1, <1>3, <2>2 DEF Node
<1> HIDE DEF S
<1> QED BY <1>2, <1>3 DEF Reaches, S

LEMMA MapInitInv ==
  ASSUME MapInit
  PROVE  MapInv
<1>1. IInv
  BY InitInv DEF MapInit
<1>2. kept = << >> /\ dropped = << >> /\ backend = "none" /\ verdict = "none"
  BY DEF MapInit, Init
<1> QED BY <1>1, <1>2 DEF MapInv, ProposalRight, BackendFits

LEMMA MapNextInv ==
  ASSUME MapInv, [MapNext]_mapVars
  PROVE  MapInv'
<1>1. [Next]_vars
  BY DEF MapNext, Weigh, Paste, LoadMap, SearchMap, Pick, mapVars, Next
<1>2. IInv'
  BY <1>1, NextInv DEF MapInv
<1>3. kept' \in Seq(Pairs') /\ dropped' = << >>
  <2>1. CASE Weigh
    <3>1. PICK e \in Unweighed :
            IF Reaches(SetOf(kept), e[2], e[1])
              THEN dropped' = Append(dropped, e) /\ UNCHANGED kept
              ELSE kept' = Append(kept, e) /\ UNCHANGED dropped
      BY <2>1 DEF Weigh
    <3>2. e \in Pairs
      BY DEF Unweighed
    <3>3. kept' = Append(kept, e) /\ UNCHANGED dropped
      BY <3>1, <3>2, NoWayBack DEF MapInv
    <3>4. Pairs' = Pairs
      BY <2>1 DEF Weigh, Pairs, CoCommits
    <3> QED BY <3>2, <3>3, <3>4 DEF MapInv, ProposalRight
  <2>2. CASE UNCHANGED <<commits, kept, dropped>>
    <3>1. Pairs' = Pairs
      BY <2>2 DEF Pairs, CoCommits
    <3> QED BY <2>2, <3>1 DEF MapInv, ProposalRight
  <2> QED BY <2>1, <2>2 DEF MapNext, Paste, LoadMap, SearchMap, Pick, mapVars, calVars
<1>4. ProposalRight'
  <2> SUFFICES ASSUME edges' = kept', verdict' = "cycle"
               PROVE  FALSE
    BY <1>3 DEF ProposalRight
  <2>1. \A j \in DOMAIN edges' : edges'[j][1] < edges'[j][2]
    <3>1. \A e \in Pairs' : e[1] < e[2]
      BY DEF Pairs
    <3> QED BY <1>3, <3>1
  <2>2. edges' \in Seq(Node \X Node) /\ ~Check!Acyclic(edges')
    BY <1>2 DEF IInv, TypeOK, VerdictRight
  <2> QED BY <2>1, <2>2, AscendingIsAcyclic
<1>5. /\ backend' # "none" => verdict' \in {"dag", "cycle"}
      /\ backend' \in {"bp", "rbpf", "hmm"} => verdict' = "dag"
      /\ backend' \in {"hmm", "bp"} => (edges' = << >> <=> backend' = "hmm")
  <2>1. CASE LoadMap
    BY <2>1 DEF LoadMap
  <2>2. CASE SearchMap
    <3>1. verdict = "running" /\ backend' = backend
      BY <2>2 DEF SearchMap, Search, Begin, Take, Back, Finish
    <3> QED BY <3>1 DEF MapInv
  <2>3. CASE Pick
    BY <2>3 DEF Pick, vars
  <2>4. CASE UNCHANGED <<vars, backend>>
    BY <2>4 DEF MapInv, BackendFits, vars
  <2> QED BY <2>1, <2>2, <2>3, <2>4 DEF MapNext, Weigh, Paste, mapVars
<1>6. BackendFits'
  BY <1>2, <1>5 DEF BackendFits, IInv, VerdictRight
<1> QED BY <1>2, <1>3, <1>4, <1>5, <1>6 DEF MapInv

\* The invariant of a repository whose map is calibrated, edited and loaded.
THEOREM MapInvariant == MapSpec => []MapInv
<1>1. MapInit => MapInv
  BY MapInitInv
<1>2. MapInv /\ [MapNext]_mapVars => MapInv'
  BY MapNextInv
<1> QED BY <1>1, <1>2, PTL DEF MapSpec

\* In every run the verdict on the loaded map is right.
THEOREM EveryVerdictIsRight == MapSpec => []VerdictRight
<1>1. MapInv => VerdictRight
  BY DEF MapInv, IInv
<1> QED BY <1>1, MapInvariant, PTL

\* For any specs, supports and history: calibrate's cycle filter drops nothing,
\* and what it proposes is never refused when it is loaded as it is.
THEOREM ProposalIsRight == MapSpec => []ProposalRight
<1>1. MapInv => ProposalRight
  BY DEF MapInv
<1> QED BY <1>1, MapInvariant, PTL

\* Belief propagation and the particle filter run on DAGs only, and the plain
\* filter where there are no edges.
THEOREM BackendIsFit == MapSpec => []BackendFits
<1>1. MapInv => BackendFits
  BY DEF MapInv
<1> QED BY <1>1, MapInvariant, PTL

\* The runs of the whole system implement the one-step check too.
THEOREM MapImplements == MapSpec => Implements
<1>1. MapInit => Check!Init
  BY DEF MapInit, Init, Check!Init
<1>2. [MapNext]_mapVars => [Next]_vars
  BY DEF MapNext, Weigh, Paste, LoadMap, SearchMap, Pick, mapVars, Next
<1>3. MapInv /\ MapInv' /\ [MapNext]_mapVars
        => [Check!Next]_<<edges, verdict, chain>>
  BY <1>2, StepRefines DEF MapInv
<1> QED BY <1>1, <1>3, MapInvariant, PTL DEF MapSpec, Implements, Check!Spec
==========================================================================
