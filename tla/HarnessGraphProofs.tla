------------------------ MODULE HarnessGraphProofs ------------------------
(***************************************************************************)
(* Theorems about HarnessGraph.  Shapes says that every graph, on disk, in *)
(* the tmp file or in a process, speaks of its own nodes only; Protocol is *)
(* what makes a verb that runs alone safe: nobody else is active, the tmp  *)
(* file is its own, and its graph extends the one on disk.                 *)
(***************************************************************************)
EXTENDS HarnessGraph, FiniteSetTheorems, TLAPS

WellFormed(g) == Closed(g) /\ Clustered(g)

Shapes ==
  /\ graph \in Graph => WellFormed(graph)
  /\ tmp \in Graph => WellFormed(tmp)
  /\ \A p \in Process : pc[p] # "idle" => WellFormed(mem[p])

Undisturbed(p) ==
  /\ \A q \in Process \ {p} : pc[q] = "idle"
  /\ pc[p] = "fill" => fd[p] = "tmp" /\ tmp = Blank
  /\ pc[p] = "rename" => tmp = mem[p]
  /\ verb[p] # "scan" => graph \in Graph /\ Extends(mem[p], graph)

Protocol ==
  /\ \A p \in Process : (pc[p] # "idle" /\ alone[p]) => Undisturbed(p)
  /\ unshared => /\ graph \in Graph \cup {Absent}
                 /\ \A p \in Process : pc[p] # "idle" => alone[p]

Inv == TypeOK /\ Shapes /\ Protocol

----------------------------------------------------------------------------
(* What the verbs compute.                                                 *)

LEMMA CountType ==
  ASSUME NEW T, NEW s \in Seq(T), NEW I \in SUBSET DOMAIN s
  PROVE  Cardinality(I) \in Nat
<1>1. IsFiniteSet(1 .. Len(s))
  BY FS_Interval
<1>2. I \subseteq 1 .. Len(s)
  OBVIOUS
<1>. QED
  BY <1>1, <1>2, FS_Subset, FS_CardinalityType

LEMMA LiftType ==
  ASSUME NEW j \in Nat, NEW a \in Nat, NEW b \in Nat, NEW n \in Nat
  PROVE  Lift(j, a, b, n) \in Ratio
<1>1. j * n \in Nat /\ a * b \in Nat
  OBVIOUS
<1>. QED
  BY <1>1 DEF Lift, Ratio

\* A pair of nodes, and what one of its files can be.
LEMMA PairParts ==
  ASSUME NEW e \in Pair
  PROVE  \E a, b \in File : e = {a, b}
BY DEF Pair

\* The edges that a verb finds join nodes of the graph.
LEMMA ComodEdgesType ==
  ASSUME TypeOK, NEW g \in Graph
  PROVE  \E S \in SUBSET Joined(g) : ComodEdges(g) \in [S -> Edge]
<1>1. ASSUME NEW S PROVE Commits(S) \in Nat
  <2>1. gitLog \in Seq(SUBSET File)
    BY DEF TypeOK
  <2>2. {i \in DOMAIN gitLog : S \subseteq gitLog[i]} \in SUBSET DOMAIN gitLog
    OBVIOUS
  <2>. QED
    BY <2>1, <2>2, CountType DEF Commits
<1>2. Len(gitLog) \in Nat
  BY DEF TypeOK
<1>. DEFINE LiftOf(e) ==
        LET a == CHOOSE f \in e : TRUE
            b == CHOOSE f \in e : f # a
        IN  Lift(Commits(e), Commits({a}), Commits({b}), Len(gitLog))
     S == {e \in Joined(g) : Commits(e) >= MinCommits /\ Associated(LiftOf(e))}
     F == [e \in S |-> [count |-> Commits(e), strength |-> LiftOf(e),
                        dampened |-> FALSE]]
<1>3. ASSUME NEW e PROVE LiftOf(e) \in Ratio
  BY <1>1, <1>2, LiftType
<1>4. ComodEdges(g) = F
  BY DEF ComodEdges
<1>. HIDE DEF LiftOf
<1>5. F \in [S -> Edge]
  BY <1>1, <1>3 DEF Edge
<1>. QED
  BY <1>4, <1>5

LEMMA JaccardType ==
  ASSUME NEW hits \in Lcov, NEW e \in Pair, e \subseteq DOMAIN hits
  PROVE  /\ Jaccard(hits, e) \in Ratio
         /\ Cardinality(AllCover(hits, e)) \in Nat
<1>1. PICK a, b \in File : e = {a, b}
  BY PairParts
<1>2. SomeCover(hits, e) = hits[a] \cup hits[b]
  BY <1>1 DEF SomeCover
<1>3. IsFiniteSet(hits[a]) /\ IsFiniteSet(hits[b])
  BY <1>1, HarnessGraphAssumption
<1>4. IsFiniteSet(SomeCover(hits, e))
  BY <1>2, <1>3, FS_Union
<1>5. IsFiniteSet(AllCover(hits, e))
  BY <1>4, FS_Subset DEF AllCover
<1>6. /\ Cardinality(SomeCover(hits, e)) \in Nat
      /\ Cardinality(AllCover(hits, e)) \in Nat
  BY <1>4, <1>5, FS_CardinalityType
<1>. QED
  BY <1>6 DEF Jaccard, Ratio

LEMMA CovEdgesType ==
  ASSUME NEW g \in Graph, NEW hits \in Lcov
  PROVE  \E S \in SUBSET Joined(g) : CovEdges(g, hits) \in [S -> Edge]
<1>. DEFINE S == {e \in Joined(g) : /\ e \subseteq DOMAIN hits
                                   /\ Jaccard(hits, e)[1] * Similar[2]
                                        >= Similar[1] * Jaccard(hits, e)[2]}
            F == [e \in S |-> [count |-> Cardinality(AllCover(hits, e)),
                               strength |-> Jaccard(hits, e),
                               dampened |-> FALSE]]
<1>1. ASSUME NEW e \in S PROVE F[e] \in Edge
  <2>1. e \in Pair /\ e \subseteq DOMAIN hits
    BY DEF Joined
  <2>. QED
    BY <2>1, JaccardType DEF Edge
<1>2. F \in [S -> Edge]
  BY <1>1
<1>. QED
  BY <1>2 DEF CovEdges

LEMMA CofailEdgesType ==
  ASSUME NEW g \in Graph, NEW runs \in Matrix
  PROVE  \E S \in SUBSET Joined(g) : CofailEdges(g, runs) \in [S -> Edge]
<1>1. runs \in Seq(Run)
  BY HarnessGraphAssumption
<1>2. ASSUME NEW e PROVE Joint(g, runs, e) \in Nat
  <2>1. {i \in DOMAIN runs : e \subseteq Genuine(g, runs[i])} \in SUBSET DOMAIN runs
    OBVIOUS
  <2>. QED
    BY <1>1, <2>1, CountType DEF Joint
<1>3. ASSUME NEW f PROVE Fails(runs, f) \in Nat
  <2>1. {i \in DOMAIN runs : f \in runs[i].fails} \in SUBSET DOMAIN runs
    OBVIOUS
  <2>. QED
    BY <1>1, <2>1, CountType DEF Fails
<1>4. Len(runs) \in Nat
  BY <1>1
<1>5. ASSUME NEW e PROVE CofailLift(g, runs, e) \in Ratio
  BY <1>2, <1>3, <1>4, LiftType DEF CofailLift
<1>6. ASSUME NEW e PROVE (\A f \in e : IsFlaky(runs, f)) \in BOOLEAN
  OBVIOUS
<1>7. CofailPairs(g, runs) \in SUBSET Joined(g)
  BY DEF CofailPairs
<1>8. CofailEdges(g, runs) \in [CofailPairs(g, runs) -> Edge]
  BY <1>2, <1>5, <1>6 DEF Edge, CofailEdges
<1>. QED
  BY <1>7, <1>8

----------------------------------------------------------------------------
(* What becomes of a graph.                                                *)

LEMMA PushExtends ==
  ASSUME NEW edges \in Seq(Edge), NEW e \in Edge
  PROVE  /\ Push(edges, e) \in Seq(Edge)
         /\ \A i \in DOMAIN edges :
              i \in DOMAIN Push(edges, e) /\ Push(edges, e)[i] = edges[i]
BY DEF Push

\* The facts about graphs that the verbs keep: a verb other than scan and
\* cluster makes a well-formed extension of a well-formed graph.
Enriches(h, g) ==
  /\ h \in Graph /\ Extends(h, g)
  /\ h.label = g.label /\ h.report = g.report
  /\ Closed(g) => Closed(h)

LEMMA WithFactsEnriches ==
  ASSUME NEW g \in Graph, NEW k \in Fact, NEW S
  PROVE  /\ Enriches(WithFacts(g, k, S), g)
         /\ WithFacts(g, k, S).nodes = g.nodes
<1>. DEFINE h == WithFacts(g, k, S)
<1>1. /\ h \in Graph
      /\ h.nodes = g.nodes /\ h.use = g.use /\ h.links = g.links
      /\ h.label = g.label /\ h.report = g.report
      /\ h.facts = [g.facts EXCEPT ![k] = @ \cup (g.nodes \cap S)]
  BY DEF WithFacts, Graph
<1>2. \A j \in Fact : g.facts[j] \subseteq h.facts[j]
  BY <1>1 DEF Graph
<1>3. ASSUME Closed(g) PROVE Closed(h)
  <2>1. \A j \in Fact : h.facts[j] \subseteq h.nodes
    BY <1>1, <1>3 DEF Graph, Closed
  <2>. QED
    BY <1>1, <1>3, <2>1 DEF Closed
<1>. HIDE DEF h
<1>4. Extends(h, g)
  BY <1>1, <1>2 DEF Extends, Graph
<1>. QED
  BY <1>1, <1>3, <1>4 DEF Enriches, h

LEMMA WithLinksEnriches ==
  ASSUME NEW g \in Graph, NEW k \in Link, NEW S \in SUBSET Joined(g),
         NEW found \in [S -> Edge]
  PROVE  Enriches(WithLinks(g, k, found), g)
<1>. DEFINE h == WithLinks(g, k, found)
            lists == [e \in Pair |-> IF e \in S THEN Push(g.links[k][e], found[e])
                                                ELSE g.links[k][e]]
<1>1. /\ h.nodes = g.nodes /\ h.use = g.use /\ h.facts = g.facts
      /\ h.label = g.label /\ h.report = g.report
      /\ h.links = [g.links EXCEPT ![k] = lists]
  BY DEF WithLinks, Graph
<1>2. \A e \in Pair : g.links[k][e] \in Seq(Edge)
  BY DEF Graph
<1>3. \A e \in S : e \in Pair /\ e \subseteq g.nodes
  BY DEF Joined
<1>4. \A e \in Pair :
        /\ lists[e] \in Seq(Edge)
        /\ \A i \in DOMAIN g.links[k][e] :
             i \in DOMAIN lists[e] /\ lists[e][i] = g.links[k][e][i]
        /\ e \notin S => lists[e] = g.links[k][e]
  <2>. TAKE e \in Pair
  <2>1. CASE e \in S
    <3>1. g.links[k][e] \in Seq(Edge) /\ found[e] \in Edge
      BY <1>2, <2>1
    <3>2. lists[e] = Push(g.links[k][e], found[e])
      BY <2>1
    <3>. HIDE DEF lists
    <3>. QED
      BY <2>1, <3>1, <3>2, PushExtends, ZenonT(30)
  <2>2. CASE e \notin S
    BY <1>2, <2>2
  <2>. QED
    BY <2>1, <2>2
<1>5. lists \in [Pair -> Seq(Edge)]
  BY <1>4
<1>. HIDE DEF lists
<1>6. \A j \in Link : h.links[j] = IF j = k THEN lists ELSE g.links[j]
  BY <1>1 DEF Graph
<1>7. h \in Graph
  BY <1>1, <1>5 DEF WithLinks, Graph, lists
<1>. HIDE DEF h
<1>8. Extends(h, g)
  BY <1>1, <1>4, <1>6 DEF Extends
<1>9. ASSUME Closed(g) PROVE Closed(h)
  BY <1>1, <1>3, <1>4, <1>6, <1>9 DEF Closed
<1>. QED
  BY <1>1, <1>7, <1>8, <1>9 DEF Enriches, h

LEMMA EnrichesTwice ==
  ASSUME NEW f, NEW g, NEW h, Enriches(g, f), Enriches(h, g)
  PROVE  Enriches(h, f)
<1>1. Extends(g, f) /\ Extends(h, g)
  BY DEF Enriches
<1>2. \A k \in Link, e \in Pair : \A i \in DOMAIN f.links[k][e] :
        i \in DOMAIN h.links[k][e] /\ h.links[k][e][i] = f.links[k][e][i]
  BY <1>1 DEF Extends
<1>3. Extends(h, f)
  BY <1>1, <1>2 DEF Extends
<1>. QED
  BY <1>3 DEF Enriches

LEMMA LinkedGrows ==
  ASSUME NEW g \in Graph, NEW h \in Graph, Extends(h, g)
  PROVE  Linked(g) \subseteq Linked(h)
<1>. SUFFICES ASSUME NEW f \in Linked(g) PROVE f \in Linked(h)
  OBVIOUS
<1>1. CASE \E d \in g.use : f \in {d[1], d[2]}
  BY <1>1 DEF Linked, Extends
<1>2. CASE \E e \in Pair, k \in Link :
             f \in e /\ \E i \in DOMAIN g.links[k][e] : g.links[k][e][i].strength[1] > 0
  <2>1. PICK e \in Pair, k \in Link :
          f \in e /\ \E i \in DOMAIN g.links[k][e] : g.links[k][e][i].strength[1] > 0
    BY <1>2
  <2>2. PICK i \in DOMAIN g.links[k][e] : g.links[k][e][i].strength[1] > 0
    BY <2>1
  <2>3. i \in DOMAIN h.links[k][e] /\ h.links[k][e][i] = g.links[k][e][i]
    BY DEF Extends
  <2>. QED
    BY <2>1, <2>2, <2>3 DEF Linked
<1>. QED
  BY <1>1, <1>2 DEF Linked

LEMMA EnrichedIsWellFormed ==
  ASSUME NEW g \in Graph, NEW h, Enriches(h, g), WellFormed(g)
  PROVE  h \in Graph /\ WellFormed(h)
<1>1. h \in Graph /\ Extends(h, g) /\ Closed(h)
  BY DEF Enriches, WellFormed
<1>2. DOMAIN h.label \subseteq Linked(h)
  BY <1>1, LinkedGrows DEF Enriches, WellFormed, Clustered
<1>. QED
  BY <1>1, <1>2 DEF Enriches, WellFormed, Clustered

LEMMA SameNodesSameJoined ==
  ASSUME NEW g, NEW h, h.nodes = g.nodes
  PROVE  Joined(h) = Joined(g)
BY DEF Joined

LEMMA HistoryEnriches ==
  ASSUME TypeOK, NEW g \in Graph
  PROVE  Enriches(WithHistory(g), g)
<1>. DEFINE h == WithFacts(g, "metrics", Tracked)
<1>1. Enriches(h, g) /\ h.nodes = g.nodes
  BY WithFactsEnriches DEF Fact
<1>2. PICK S \in SUBSET Joined(g) : ComodEdges(g) \in [S -> Edge]
  BY ComodEdgesType
<1>3. S \in SUBSET Joined(h) /\ h \in Graph
  BY <1>1, SameNodesSameJoined DEF Enriches
<1>. HIDE DEF h
<1>4. Enriches(WithLinks(h, "comod", ComodEdges(g)), h)
  BY <1>2, <1>3, WithLinksEnriches DEF Link
<1>. QED
  BY <1>1, <1>4, EnrichesTwice DEF WithHistory, h

LEMMA CoverageEnriches ==
  ASSUME NEW g \in Graph, NEW hits \in Lcov
  PROVE  Enriches(WithCoverage(g, hits), g)
<1>. DEFINE h == WithFacts(g, "coverage", DOMAIN hits)
<1>1. Enriches(h, g) /\ h.nodes = g.nodes
  BY WithFactsEnriches DEF Fact
<1>2. PICK S \in SUBSET Joined(g) : CovEdges(g, hits) \in [S -> Edge]
  BY CovEdgesType
<1>3. S \in SUBSET Joined(h) /\ h \in Graph
  BY <1>1, SameNodesSameJoined DEF Enriches
<1>. HIDE DEF h
<1>4. Enriches(WithLinks(h, "cov", CovEdges(g, hits)), h)
  BY <1>2, <1>3, WithLinksEnriches DEF Link
<1>. QED
  BY <1>1, <1>4, EnrichesTwice DEF WithCoverage, h

LEMMA FlakinessEnriches ==
  ASSUME NEW g \in Graph, NEW runs \in Matrix
  PROVE  Enriches(WithFlakiness(g, runs), g)
<1>1. CASE runs = << >> \/ Len(runs) < MinRuns
  <2>1. Extends(g, g)
    BY DEF Extends
  <2>. QED
    BY <1>1, <2>1 DEF Enriches, WithFlakiness
<1>2. CASE ~(runs = << >> \/ Len(runs) < MinRuns)
  <2>. DEFINE h == WithFacts(g, "flakiness", {f \in File : Ran(runs, f) > 0})
  <2>1. Enriches(h, g) /\ h.nodes = g.nodes
    BY WithFactsEnriches DEF Fact
  <2>2. PICK S \in SUBSET Joined(g) : CofailEdges(g, runs) \in [S -> Edge]
    BY CofailEdgesType
  <2>3. S \in SUBSET Joined(h) /\ h \in Graph
    BY <2>1, SameNodesSameJoined DEF Enriches
  <2>4. WithFlakiness(g, runs) = WithLinks(h, "cofail", CofailEdges(g, runs))
    BY <1>2 DEF WithFlakiness
  <2>. HIDE DEF h
  <2>5. Enriches(WithLinks(h, "cofail", CofailEdges(g, runs)), h)
    BY <2>2, <2>3, WithLinksEnriches DEF Link
  <2>. QED
    BY <2>1, <2>4, <2>5, EnrichesTwice
<1>. QED
  BY <1>1, <1>2

LEMMA FreshIsWellFormed ==
  ASSUME TypeOK, NEW deps \in DepInfo
  PROVE  Fresh(deps) \in Graph /\ WellFormed(Fresh(deps))
<1>1. deps \in SUBSET (File \X File) /\ tree \in SUBSET File
  BY HarnessGraphAssumption DEF TypeOK
<1>2. << >> \in Clustering
  <2>1. << >> \in [{} -> 1 .. Cardinality(File)]
    OBVIOUS
  <2>. QED
    BY <2>1 DEF Clustering
<1>3. Fresh(deps) \in Graph
  BY <1>1, <1>2 DEF Fresh, Graph
<1>4. Closed(Fresh(deps))
  BY DEF Closed, Fresh
<1>5. Clustered(Fresh(deps))
  BY DEF Clustered, Fresh
<1>. QED
  BY <1>3, <1>4, <1>5 DEF WellFormed

LEMMA ClusteringType ==
  ASSUME NEW S \in SUBSET File, NEW c \in Clusterings(S)
  PROVE  c \in Clustering /\ DOMAIN c = S
<1>1. IsFiniteSet(File)
  BY HarnessGraphAssumption
<1>2. /\ Cardinality(S) \in Nat /\ Cardinality(File) \in Nat
      /\ Cardinality(S) <= Cardinality(File)
  BY <1>1, FS_Subset, FS_CardinalityType
<1>3. c \in [S -> 1 .. Cardinality(S)]
  BY DEF Clusterings
<1>4. c \in [S -> 1 .. Cardinality(File)]
  BY <1>2, <1>3
<1>. QED
  BY <1>3, <1>4 DEF Clustering

LEMMA ClusterIsWellFormed ==
  ASSUME NEW g \in Graph, WellFormed(g), NEW c \in Clusterings(Linked(g))
  PROVE  LET h == [g EXCEPT !.label = c, !.report = c]
         IN  h \in Graph /\ WellFormed(h) /\ Extends(h, g)
<1>. DEFINE h == [g EXCEPT !.label = c, !.report = c]
<1>1. c \in Clustering /\ DOMAIN c = Linked(g)
  BY ClusteringType DEF Linked
<1>2. h \in Graph
  BY <1>1 DEF Graph
<1>3. /\ h.nodes = g.nodes /\ h.use = g.use /\ h.facts = g.facts
      /\ h.links = g.links /\ h.label = c /\ h.report = c
  BY DEF Graph
<1>. HIDE DEF h
<1>4. Linked(h) = Linked(g)
  BY <1>3 DEF Linked
<1>5. c # Absent
  BY <1>1, NoGraphAssumption
<1>6. Clustered(h)
  BY <1>1, <1>3, <1>4, <1>5 DEF Clustered
<1>7. Closed(h)
  BY <1>3 DEF WellFormed, Closed
<1>8. Extends(h, g)
  BY <1>3 DEF Extends
<1>. QED
  BY <1>2, <1>6, <1>7, <1>8 DEF WellFormed, h

----------------------------------------------------------------------------
(* The steps.                                                              *)

LEMMA InitInv == Init => Inv
<1>. SUFFICES ASSUME Init PROVE Inv
  OBVIOUS
<1>1. TypeOK
  BY DEF Init, TypeOK
<1>2. Shapes
  BY NoGraphAssumption DEF Init, Shapes
<1>3. Protocol
  BY DEF Init, Protocol
<1>. QED
  BY <1>1, <1>2, <1>3 DEF Inv

\* A verb starts with a well-formed graph in its memory, which extends the one
\* on disk unless the verb is scan.
LEMMA StartInv ==
  ASSUME Inv, NEW p \in Process, NEW v \in Verb, NEW g \in Graph, WellFormed(g),
         v # "scan" => graph \in Graph /\ Extends(g, graph),
         Start(p, v, g)
  PROVE  Inv'
<1>. USE DEF Start, repoVars, fileVars
<1>1. TypeOK'
  <2>1. started' \in Nat
    BY DEF Inv, TypeOK
  <2>2. alone' \in [Process -> BOOLEAN] /\ unshared' \in BOOLEAN
    BY DEF Inv, TypeOK, Idle
  <2>3. /\ pc' \in [Process -> {"idle", "open", "fill", "rename"}]
        /\ verb' \in [Process -> Verb \cup {Absent}]
        /\ mem' \in [Process -> Graph \cup {Absent}]
    BY DEF Inv, TypeOK
  <2>4. ASSUME NEW q \in Process
        PROVE  /\ pc'[q] # "idle" => mem'[q] \in Graph /\ verb'[q] \in Verb
               /\ fd'[q] # "none" <=> pc'[q] = "fill"
    BY DEF Inv, TypeOK
  <2>. QED
    BY <2>1, <2>2, <2>3, <2>4 DEF Inv, TypeOK
<1>2. Shapes'
  <2>1. ASSUME NEW q \in Process, pc'[q] # "idle" PROVE WellFormed(mem'[q])
    BY <2>1 DEF Inv, TypeOK, Shapes
  <2>2. (graph \in Graph => WellFormed(graph)) /\ (tmp \in Graph => WellFormed(tmp))
    BY DEF Inv, Shapes
  <2>3. graph' = graph /\ tmp' = tmp
    OBVIOUS
  <2>. QED
    BY <2>1, <2>2, <2>3 DEF Shapes
<1>3. Protocol'
  <2>1. ASSUME NEW q \in Process, pc'[q] # "idle", alone'[q] PROVE Undisturbed(q)'
    <3>1. q = p /\ Idle
      BY <2>1 DEF Inv, TypeOK
    <3>2. pc'[p] = "open" /\ verb'[p] = v /\ mem'[p] = g
      BY DEF Inv, TypeOK
    <3>3. \A r \in Process \ {p} : pc'[r] = "idle"
      BY <3>1 DEF Inv, TypeOK, Idle
    <3>. QED
      BY <3>1, <3>2, <3>3 DEF Undisturbed, Extends
  <2>2. ASSUME unshared'
        PROVE  /\ graph' \in Graph \cup {Absent}
               /\ \A q \in Process : pc'[q] # "idle" => alone'[q]
    <3>1. unshared /\ Idle
      BY <2>2
    <3>2. ASSUME NEW q \in Process, pc'[q] # "idle" PROVE alone'[q]
      BY <3>1, <3>2 DEF Inv, TypeOK, Idle
    <3>. QED
      BY <3>1, <3>2 DEF Inv, Protocol
  <2>. QED
    BY <2>1, <2>2 DEF Protocol
<1>. QED
  BY <1>1, <1>2, <1>3 DEF Inv

LEMMA VerbInv ==
  ASSUME Inv, NEW p \in Process,
         \/ Scan(p) \/ Provenance(p) \/ History(p) \/ Coverage(p) \/ Flaky(p)
         \/ Cluster(p)
  PROVE  Inv'
<1>. DEFINE Enriched(h) == /\ h \in Graph /\ WellFormed(h)
                           /\ graph \in Graph /\ Extends(h, graph)
<1>1. CASE Scan(p)
  <2>1. PICK deps \in DepInfo : Start(p, "scan", Fresh(deps))
    BY <1>1 DEF Scan
  <2>. QED
    BY <2>1, FreshIsWellFormed, StartInv DEF Inv, Verb
<1>2. ASSUME NEW h, Loaded, Enriches(h, graph) PROVE Enriched(h)
  <2>1. graph \in Graph /\ WellFormed(graph)
    BY <1>2 DEF Loaded, Inv, Shapes
  <2>. QED
    BY <1>2, <2>1, EnrichedIsWellFormed DEF Enriches
<1>3. CASE Provenance(p)
  <2>1. PICK claimed \in SUBSET File :
          Start(p, "provenance", WithFacts(graph, "provenance", claimed \cup Tracked))
    BY <1>3 DEF Provenance
  <2>2. Loaded /\ graph \in Graph
    BY <1>3 DEF Provenance, Loaded
  <2>3. Enriches(WithFacts(graph, "provenance", claimed \cup Tracked), graph)
    BY <2>2, WithFactsEnriches DEF Fact
  <2>. HIDE DEF Enriched
  <2>4. Enriched(WithFacts(graph, "provenance", claimed \cup Tracked))
    BY <1>2, <2>2, <2>3
  <2>. QED
    BY <2>1, <2>4, StartInv DEF Verb, Enriched
<1>4. CASE History(p)
  <2>1. Loaded /\ graph \in Graph /\ Start(p, "history", WithHistory(graph))
    BY <1>4 DEF History, Loaded
  <2>2. Enriches(WithHistory(graph), graph)
    BY <2>1, HistoryEnriches DEF Inv
  <2>. HIDE DEF Enriched
  <2>3. Enriched(WithHistory(graph))
    BY <1>2, <2>1, <2>2
  <2>. QED
    BY <2>1, <2>3, StartInv DEF Verb, Enriched
<1>5. CASE Coverage(p)
  <2>1. PICK hits \in Lcov : Start(p, "coverage", WithCoverage(graph, hits))
    BY <1>5 DEF Coverage
  <2>2. Loaded /\ graph \in Graph
    BY <1>5 DEF Coverage, Loaded
  <2>3. Enriches(WithCoverage(graph, hits), graph)
    BY <2>2, CoverageEnriches
  <2>. HIDE DEF Enriched
  <2>4. Enriched(WithCoverage(graph, hits))
    BY <1>2, <2>2, <2>3
  <2>. QED
    BY <2>1, <2>4, StartInv DEF Verb, Enriched
<1>6. CASE Flaky(p)
  <2>1. PICK runs \in Matrix : Start(p, "flaky", WithFlakiness(graph, runs))
    BY <1>6 DEF Flaky
  <2>2. Loaded /\ graph \in Graph
    BY <1>6 DEF Flaky, Loaded
  <2>3. Enriches(WithFlakiness(graph, runs), graph)
    BY <2>2, FlakinessEnriches
  <2>. HIDE DEF Enriched
  <2>4. Enriched(WithFlakiness(graph, runs))
    BY <1>2, <2>2, <2>3
  <2>. QED
    BY <2>1, <2>4, StartInv DEF Verb, Enriched
<1>7. CASE Cluster(p)
  <2>1. PICK c \in Clusterings(Linked(graph)) :
          Start(p, "cluster", [graph EXCEPT !.label = c, !.report = c])
    BY <1>7 DEF Cluster
  <2>2. graph \in Graph /\ WellFormed(graph)
    BY <1>7 DEF Cluster, Loaded, Inv, Shapes
  <2>3. Enriched([graph EXCEPT !.label = c, !.report = c])
    BY <2>2, ClusterIsWellFormed
  <2>. HIDE DEF Enriched
  <2>. DEFINE h == [graph EXCEPT !.label = c, !.report = c]
  <2>4. Enriched(h) /\ Start(p, "cluster", h)
    BY <2>1, <2>3
  <2>. HIDE DEF h
  <2>. QED
    BY <2>4, StartInv DEF Verb, Enriched
<1>. QED
  BY <1>1, <1>3, <1>4, <1>5, <1>6, <1>7

LEMMA RepoInv ==
  ASSUME Inv, RepoStep
  PROVE  Inv'
<1>. USE DEF fileVars, verbVars, history
<1>1. UNCHANGED <<fileVars, verbVars, history>>
  BY DEF RepoStep, AddFile, RemoveFile, Commit
<1>2. tree' \in SUBSET File /\ gitLog' \in Seq(SUBSET File)
  <2>0. tree \in SUBSET File /\ gitLog \in Seq(SUBSET File)
    BY DEF Inv, TypeOK
  <2>1. CASE \E f \in File : AddFile(f) \/ RemoveFile(f)
    BY <2>0, <2>1 DEF AddFile, RemoveFile
  <2>2. CASE \E touched \in SUBSET File : Commit(touched)
    BY <2>0, <2>2 DEF Commit
  <2>. QED
    BY <2>1, <2>2 DEF RepoStep
<1>3. TypeOK'
  BY <1>1, <1>2 DEF Inv, TypeOK
<1>4. Shapes'
  BY <1>1 DEF Inv, Shapes, WellFormed, Closed, Clustered, Linked
<1>5. Protocol'
  BY <1>1 DEF Inv, Protocol, Undisturbed, Extends
<1>. QED
  BY <1>3, <1>4, <1>5 DEF Inv

LEMMA OpenTmpInv ==
  ASSUME Inv, NEW p \in Process, OpenTmp(p)
  PROVE  Inv'
<1>. USE DEF OpenTmp, repoVars, history
<1>1. TypeOK'
  BY DEF Inv, TypeOK
<1>2. Shapes'
  <2>1. ASSUME NEW q \in Process, pc'[q] # "idle" PROVE WellFormed(mem[q])
    BY <2>1 DEF Inv, TypeOK, Shapes
  <2>2. (graph \in Graph => WellFormed(graph)) /\ tmp' \notin Graph
    BY NoGraphAssumption DEF Inv, Shapes
  <2>. QED
    BY <2>1, <2>2 DEF Shapes, WellFormed, Closed, Clustered, Linked
<1>3. Protocol'
  <2>1. \A q \in Process : pc'[q] = "idle" <=> pc[q] = "idle"
    BY DEF Inv, TypeOK
  <2>2. ASSUME NEW q \in Process, pc[q] # "idle", alone[q] PROVE Undisturbed(q)'
    <3>1. Undisturbed(q)
      BY <2>2 DEF Inv, Protocol
    <3>2. q = p
      BY <3>1 DEF Undisturbed
    <3>3. pc'[p] = "fill" /\ fd'[p] = "tmp" /\ tmp' = Blank
      BY DEF Inv, TypeOK
    <3>. QED
      BY <2>1, <3>1, <3>2, <3>3 DEF Undisturbed, Extends
  <2>. QED
    BY <2>1, <2>2 DEF Inv, Protocol
<1>. QED
  BY <1>1, <1>2, <1>3 DEF Inv

LEMMA FillInv ==
  ASSUME Inv, NEW p \in Process, Fill(p)
  PROVE  Inv'
<1>. USE DEF Fill, repoVars, history
<1>1. mem[p] \in Graph /\ WellFormed(mem[p])
  BY DEF Inv, TypeOK, Shapes
<1>2. /\ tmp' \in {tmp, mem[p], Garbled}
      /\ graph' \in {graph, mem[p], Garbled}
  BY DEF Overwritten
<1>3. TypeOK'
  <2>1. /\ graph' \in Graph \cup {Absent, Blank, Garbled}
        /\ tmp' \in Graph \cup {Absent, Blank, Garbled}
    BY <1>1, <1>2 DEF Inv, TypeOK
  <2>. QED
    BY <2>1 DEF Inv, TypeOK
<1>4. Shapes'
  <2>1. \A q \in Process : pc'[q] # "idle" => WellFormed(mem[q])
    BY DEF Inv, TypeOK, Shapes
  <2>2. Garbled \notin Graph
    BY NoGraphAssumption
  <2>3. (graph' \in Graph => WellFormed(graph')) /\ (tmp' \in Graph => WellFormed(tmp'))
    BY <1>1, <1>2, <2>2 DEF Inv, Shapes
  <2>. QED
    BY <2>1, <2>3 DEF Shapes, WellFormed, Closed, Clustered, Linked
<1>5. Protocol'
  <2>1. \A q \in Process : pc'[q] = "idle" <=> pc[q] = "idle"
    BY DEF Inv, TypeOK
  <2>2. ASSUME alone[p]
        PROVE  graph' = graph /\ tmp' = mem[p] /\ fd[p] = "tmp"
    <3>1. fd[p] = "tmp" /\ tmp = Blank
      BY <2>2 DEF Inv, Protocol, Undisturbed
    <3>. QED
      BY <3>1 DEF Overwritten
  <2>3. ASSUME NEW q \in Process, pc[q] # "idle", alone[q] PROVE Undisturbed(q)'
    <3>1. Undisturbed(q)
      BY <2>3 DEF Inv, Protocol
    <3>2. q = p
      BY <3>1 DEF Undisturbed
    <3>3. pc'[p] = "rename"
      BY DEF Inv, TypeOK
    <3>. QED
      BY <2>1, <2>2, <2>3, <3>1, <3>2, <3>3 DEF Undisturbed, Extends
  <2>4. ASSUME unshared
        PROVE  /\ graph' \in Graph \cup {Absent}
               /\ \A q \in Process : pc[q] # "idle" => alone[q]
    BY <2>2, <2>4 DEF Inv, Protocol
  <2>. QED
    BY <2>1, <2>3, <2>4 DEF Protocol
<1>. QED
  BY <1>3, <1>4, <1>5 DEF Inv

\* A process that is over takes nothing from the others.
LEMMA LeaveInv ==
  ASSUME Inv, NEW p \in Process, Leave(p),
         UNCHANGED <<repoVars, fileVars, history>>,
         fd' \in [Process -> {"none", "tmp", "graph", "unlinked"}],
         fd'[p] = "none",
         \A q \in Process \ {p} : fd'[q] = fd[q]
  PROVE  Inv'
<1>. USE DEF Leave, repoVars, fileVars, history
<1>1. TypeOK'
  BY DEF Inv, TypeOK
<1>2. Shapes'
  <2>1. \A q \in Process : pc'[q] # "idle" => WellFormed(mem'[q])
    BY DEF Inv, TypeOK, Shapes
  <2>2. (graph \in Graph => WellFormed(graph)) /\ (tmp \in Graph => WellFormed(tmp))
    BY DEF Inv, Shapes
  <2>. QED
    BY <2>1, <2>2 DEF Shapes
<1>3. Protocol'
  <2>1. ASSUME NEW q \in Process, pc'[q] # "idle"
        PROVE  q # p /\ pc'[q] = pc[q] /\ mem'[q] = mem[q] /\ verb'[q] = verb[q]
    BY <2>1 DEF Inv, TypeOK
  <2>2. \A q \in Process : pc[q] = "idle" => pc'[q] = "idle"
    BY DEF Inv, TypeOK
  <2>3. ASSUME NEW q \in Process, pc'[q] # "idle", alone[q] PROVE Undisturbed(q)'
    <3>1. Undisturbed(q)
      BY <2>1, <2>3 DEF Inv, Protocol
    <3>. QED
      BY <2>1, <2>2, <2>3, <3>1 DEF Undisturbed, Extends
  <2>. QED
    BY <2>1, <2>3 DEF Inv, Protocol
<1>. QED
  BY <1>1, <1>2, <1>3 DEF Inv

LEMMA RenameInv ==
  ASSUME Inv, NEW p \in Process, Rename(p)
  PROVE  Inv'
<1>. USE DEF Rename, Leave, repoVars
<1>1. TypeOK'
  <2>1. fd' \in [Process -> {"none", "tmp", "graph", "unlinked"}]
    BY DEF Inv, TypeOK
  <2>2. \A q \in Process : fd'[q] # "none" <=> fd[q] # "none"
    BY DEF Inv, TypeOK
  <2>3. unshared' \in BOOLEAN
    BY DEF Inv, TypeOK
  <2>4. fd[p] = "none" /\ pc'[p] = "idle" /\ mem'[p] = Absent /\ verb'[p] = Absent
    BY DEF Inv, TypeOK
  <2>5. ASSUME NEW q \in Process
        PROVE  /\ pc'[q] # "idle" => mem'[q] \in Graph /\ verb'[q] \in Verb
               /\ fd'[q] # "none" <=> pc'[q] = "fill"
    BY <2>2, <2>4 DEF Inv, TypeOK
  <2>. QED
    BY <2>1, <2>3, <2>5 DEF Inv, TypeOK
<1>2. Shapes'
  <2>1. \A q \in Process : pc'[q] # "idle" => WellFormed(mem'[q])
    BY DEF Inv, TypeOK, Shapes
  <2>2. (graph' \in Graph => WellFormed(graph')) /\ tmp' \notin Graph
    BY NoGraphAssumption DEF Inv, Shapes
  <2>. QED
    BY <2>1, <2>2 DEF Shapes, WellFormed, Closed, Clustered, Linked
<1>3. Protocol'
  <2>1. pc[p] # "idle"
    OBVIOUS
  <2>2. \A q \in Process : pc'[q] # "idle" => pc[q] # "idle" /\ q # p
    BY DEF Inv, TypeOK
  <2>3. ASSUME NEW q \in Process, pc'[q] # "idle", alone'[q] PROVE FALSE
    <3>1. pc[q] # "idle" /\ q # p /\ alone[q]
      BY <2>2, <2>3
    <3>. QED
      BY <2>1, <3>1 DEF Inv, Protocol, Undisturbed
  <2>4. ASSUME unshared'
        PROVE  /\ graph' \in Graph \cup {Absent}
               /\ \A q \in Process : pc'[q] # "idle" => alone'[q]
    <3>1. alone[p]
      BY <2>1, <2>4 DEF Inv, Protocol
    <3>2. Undisturbed(p)
      BY <2>1, <3>1 DEF Inv, Protocol
    <3>3. tmp = mem[p] /\ mem[p] \in Graph
      BY <3>2 DEF Undisturbed, Inv, TypeOK
    <3>4. \A q \in Process : pc'[q] = "idle"
      BY <2>2, <3>2 DEF Undisturbed
    <3>. QED
      BY <3>3, <3>4
  <2>. QED
    BY <2>3, <2>4 DEF Protocol
<1>. QED
  BY <1>1, <1>2, <1>3 DEF Inv

LEMMA NextInv == Inv /\ [Next]_vars => Inv'
<1>. SUFFICES ASSUME Inv, [Next]_vars PROVE Inv'
  OBVIOUS
<1>1. CASE RepoStep
  BY <1>1, RepoInv
<1>2. ASSUME NEW p \in Process, VerbStep(p) PROVE Inv'
  <2>1. CASE \/ Scan(p) \/ Provenance(p) \/ History(p) \/ Coverage(p) \/ Flaky(p)
             \/ Cluster(p)
    BY <2>1, VerbInv
  <2>2. CASE OpenTmp(p)
    BY <2>2, OpenTmpInv
  <2>3. CASE Fill(p)
    BY <2>3, FillInv
  <2>4. CASE Rename(p)
    BY <2>4, RenameInv
  <2>5. CASE RenameFails(p)
    <3>1. fd'[p] = "none" /\ fd' \in [Process -> {"none", "tmp", "graph", "unlinked"}]
      BY <2>5 DEF RenameFails, Inv, TypeOK
    <3>. QED
      BY <2>5, <3>1, LeaveInv DEF RenameFails
  <2>6. CASE Crash(p)
    <3>1. /\ fd'[p] = "none" /\ fd' \in [Process -> {"none", "tmp", "graph", "unlinked"}]
          /\ \A q \in Process \ {p} : fd'[q] = fd[q]
      BY <2>6 DEF Crash, Inv, TypeOK
    <3>. QED
      BY <2>6, <3>1, LeaveInv DEF Crash
  <2>. QED
    BY <1>2, <2>1, <2>2, <2>3, <2>4, <2>5, <2>6 DEF VerbStep
<1>3. CASE UNCHANGED vars
  <2>. USE <1>3 DEF vars, repoVars, fileVars, verbVars, history
  <2>1. TypeOK'
    BY DEF Inv, TypeOK
  <2>2. Shapes'
    BY DEF Inv, Shapes, WellFormed, Closed, Clustered, Linked
  <2>3. Protocol'
    BY DEF Inv, Protocol, Undisturbed, Extends
  <2>. QED
    BY <2>1, <2>2, <2>3 DEF Inv
<1>. QED
  BY <1>1, <1>2, <1>3 DEF Next

----------------------------------------------------------------------------
(* A verb repeated.                                                        *)

LEMMA PushTwice ==
  ASSUME NEW edges \in Seq(Edge), NEW e \in Edge
  PROVE  Push(Push(edges, e), e) = Push(edges, e)
<1>1. Same(e, e)
  BY DEF Same
<1>2. CASE edges # << >> /\ Same(edges[Len(edges)], e)
  BY <1>2 DEF Push
<1>3. CASE ~(edges # << >> /\ Same(edges[Len(edges)], e))
  <2>1. Push(edges, e) = Append(edges, e)
    BY <1>3 DEF Push
  <2>2. /\ Append(edges, e) # << >>
        /\ Append(edges, e)[Len(Append(edges, e))] = e
    OBVIOUS
  <2>. QED
    BY <1>1, <2>1, <2>2 DEF Push
<1>. QED
  BY <1>2, <1>3

\* Two graphs that agree in every field are one.
LEMMA SameGraph ==
  ASSUME NEW g \in Graph, NEW h \in Graph,
         g.nodes = h.nodes, g.use = h.use, g.facts = h.facts,
         g.links = h.links, g.label = h.label, g.report = h.report
  PROVE  g = h
BY DEF Graph

\* Facts and edges that were added once are not added again.
LEMMA AddedOnce ==
  ASSUME NEW g \in Graph, NEW k \in Fact, NEW F, NEW j \in Link,
         NEW S \in SUBSET Joined(g), NEW found \in [S -> Edge]
  PROVE  LET h == WithLinks(WithFacts(g, k, F), j, found)
         IN  WithLinks(WithFacts(h, k, F), j, found) = h
<1>. DEFINE f == WithFacts(g, k, F)
            h == WithLinks(f, j, found)
            f2 == WithFacts(h, k, F)
            h2 == WithLinks(f2, j, found)
            Pushed(links) == [e \in Pair |-> IF e \in S THEN Push(links[e], found[e])
                                                        ELSE links[e]]
<1>1. f \in Graph /\ f.nodes = g.nodes /\ S \in SUBSET Joined(f)
  BY WithFactsEnriches, SameNodesSameJoined DEF Enriches
<1>. HIDE DEF f
<1>2. h \in Graph
  BY <1>1, WithLinksEnriches DEF Enriches
<1>3. /\ h.nodes = f.nodes /\ h.use = f.use /\ h.facts = f.facts
      /\ h.label = f.label /\ h.report = f.report
      /\ h.links = [f.links EXCEPT ![j] = Pushed(f.links[j])]
  BY <1>1 DEF WithLinks, Graph
<1>4. f.facts[k] = g.facts[k] \cup (g.nodes \cap F)
  BY DEF f, WithFacts, Graph
<1>. HIDE DEF h
<1>5. f2 \in Graph /\ f2.nodes = h.nodes /\ S \in SUBSET Joined(f2)
  BY <1>1, <1>2, <1>3, WithFactsEnriches, SameNodesSameJoined DEF Enriches
<1>6. f2 = h
  <2>1. /\ f2.use = h.use /\ f2.links = h.links
        /\ f2.label = h.label /\ f2.report = h.report
        /\ f2.facts = [h.facts EXCEPT ![k] = @ \cup (h.nodes \cap F)]
    BY <1>2 DEF WithFacts, Graph
  <2>2. h.facts[k] \cup (h.nodes \cap F) = h.facts[k]
    BY <1>1, <1>3, <1>4
  <2>3. f2.facts = h.facts
    BY <1>2, <2>1, <2>2 DEF Graph
  <2>. HIDE DEF f2
  <2>. QED
    BY <1>2, <1>5, <2>1, <2>3, SameGraph
<1>7. h2 = WithLinks(h, j, found)
  BY <1>6
<1>8. WithLinks(h, j, found) \in Graph
  BY <1>2, <1>5, <1>6, WithLinksEnriches DEF Enriches
<1>9. Pushed(h.links[j]) = h.links[j]
  <2>1. h.links[j] = Pushed(f.links[j])
    BY <1>1, <1>3 DEF Graph
  <2>2. \A e \in Pair : f.links[j][e] \in Seq(Edge)
    BY <1>1 DEF Graph
  <2>3. ASSUME NEW e \in Pair PROVE Pushed(h.links[j])[e] = h.links[j][e]
    <3>1. CASE e \in S
      BY <2>1, <2>2, <3>1, PushTwice
    <3>2. CASE e \notin S
      BY <2>1, <3>2
    <3>. QED
      BY <3>1, <3>2
  <2>. QED
    BY <2>1, <2>3
<1>10. WithLinks(h, j, found) = h
  <2>. DEFINE i == WithLinks(h, j, found)
  <2>1. /\ i.nodes = h.nodes /\ i.use = h.use /\ i.facts = h.facts
        /\ i.label = h.label /\ i.report = h.report
        /\ i.links = [h.links EXCEPT ![j] = Pushed(h.links[j])]
    BY <1>2 DEF WithLinks, Graph
  <2>2. i.links = h.links
    BY <1>2, <1>9, <2>1 DEF Graph
  <2>. HIDE DEF i
  <2>. QED
    BY <1>2, <1>8, <2>1, <2>2, SameGraph DEF i
<1>. QED
  BY <1>7, <1>10 DEF h, f

LEMMA RepeatedHistory ==
  ASSUME TypeOK, NEW g \in Graph
  PROVE  WithHistory(WithHistory(g)) = WithHistory(g)
<1>1. PICK S \in SUBSET Joined(g) : ComodEdges(g) \in [S -> Edge]
  BY ComodEdgesType
<1>2. WithHistory(g).nodes = g.nodes
  BY HistoryEnriches DEF Enriches, Extends
<1>3. ComodEdges(WithHistory(g)) = ComodEdges(g)
  BY <1>2, SameNodesSameJoined DEF ComodEdges
<1>. QED
  BY <1>1, <1>3, AddedOnce DEF WithHistory, Fact, Link

LEMMA RepeatedCoverage ==
  ASSUME NEW g \in Graph, NEW hits \in Lcov
  PROVE  WithCoverage(WithCoverage(g, hits), hits) = WithCoverage(g, hits)
<1>1. PICK S \in SUBSET Joined(g) : CovEdges(g, hits) \in [S -> Edge]
  BY CovEdgesType
<1>2. WithCoverage(g, hits).nodes = g.nodes
  BY CoverageEnriches DEF Enriches, Extends
<1>3. CovEdges(WithCoverage(g, hits), hits) = CovEdges(g, hits)
  BY <1>2, SameNodesSameJoined DEF CovEdges
<1>. QED
  BY <1>1, <1>3, AddedOnce DEF WithCoverage, Fact, Link

LEMMA RepeatedFlakiness ==
  ASSUME NEW g \in Graph, NEW runs \in Matrix
  PROVE  WithFlakiness(WithFlakiness(g, runs), runs) = WithFlakiness(g, runs)
<1>1. CASE runs = << >> \/ Len(runs) < MinRuns
  BY <1>1 DEF WithFlakiness
<1>2. CASE ~(runs = << >> \/ Len(runs) < MinRuns)
  <2>. DEFINE h == WithFlakiness(g, runs)
  <2>1. PICK S \in SUBSET Joined(g) : CofailEdges(g, runs) \in [S -> Edge]
    BY CofailEdgesType
  <2>2. h.nodes = g.nodes
    BY FlakinessEnriches DEF Enriches, Extends
  <2>3. h.facts["coverage"] = g.facts["coverage"]
    BY <1>2 DEF WithFlakiness, WithLinks, WithFacts, Graph, Fact, Link
  <2>. HIDE DEF h
  <2>4. CofailEdges(h, runs) = CofailEdges(g, runs)
    <3>1. ASSUME NEW r PROVE Genuine(h, r) = Genuine(g, r)
      BY <2>2, <2>3 DEF Genuine
    <3>2. ASSUME NEW e PROVE Joint(h, runs, e) = Joint(g, runs, e)
      <4>1. {i \in DOMAIN runs : e \subseteq Genuine(h, runs[i])}
              = {i \in DOMAIN runs : e \subseteq Genuine(g, runs[i])}
        BY <3>1
      <4>. QED
        BY <4>1 DEF Joint
    <3>3. Joined(h) = Joined(g)
      BY <2>2, SameNodesSameJoined
    <3>4. ASSUME NEW e PROVE CofailLift(h, runs, e) = CofailLift(g, runs, e)
      BY <3>2 DEF CofailLift
    <3>5. CofailPairs(h, runs) = CofailPairs(g, runs)
      BY <3>2, <3>3, <3>4 DEF CofailPairs
    <3>. QED
      BY <3>2, <3>4, <3>5 DEF CofailEdges
  <2>. USE DEF h
  <2>. QED
    BY <1>2, <2>1, <2>4, AddedOnce DEF WithFlakiness, Fact, Link
<1>. QED
  BY <1>1, <1>2

----------------------------------------------------------------------------
(* Theorems.                                                               *)

\* Every reachable state satisfies Inv.
THEOREM HarnessInvariant == Spec => []Inv
BY InitInv, NextInv, PTL DEF Spec

\* The verbs keep the graph, the tmp file and their memories typed.
THEOREM HarnessTypeCorrect == Spec => []TypeOK
<1>1. Inv => TypeOK
  BY DEF Inv
<1>. QED
  BY <1>1, HarnessInvariant, PTL

\* However verbs overlap and files come and go, what the graph on disk says of
\* files it says of its nodes.
THEOREM GraphStaysClosed == Spec => []GraphCloses
<1>1. Inv => GraphCloses
  BY DEF Inv, Shapes, WellFormed, GraphCloses
<1>. QED
  BY <1>1, HarnessInvariant, PTL

\* Cluster ids and cluster report of the graph on disk always belong together.
THEOREM ClustersStayAgreed == Spec => []ClustersAgree
<1>1. Inv => ClustersAgree
  BY DEF Inv, Shapes, WellFormed, ClustersAgree
<1>. QED
  BY <1>1, HarnessInvariant, PTL

\* Without overlap since the last verb that was alone replaced the graph, no
\* crash leaves a graph that cannot be read.
THEOREM GraphStaysReadable == Spec => []ReadableUnlessShared
<1>1. Inv => ReadableUnlessShared
  BY DEF Inv, Protocol, ReadableUnlessShared
<1>. QED
  BY <1>1, HarnessInvariant, PTL

\* A verb that runs alone loses nothing that earlier verbs found out.
THEOREM LoneVerbsOnlyAdd == Spec => EnrichmentsAdd
<1>. DEFINE A == (/\ graph \in Graph /\ graph' # graph
                  /\ \E p \in Process : pc[p] = "rename" /\ alone[p] /\ verb[p] # "scan")
                    => graph' \in Graph /\ Extends(graph', graph)
<1>1. Inv /\ [Next]_vars => [A]_vars
  <2>. SUFFICES ASSUME Inv, Next, graph \in Graph, graph' # graph,
                       NEW p \in Process, pc[p] = "rename", alone[p], verb[p] # "scan"
                PROVE  graph' \in Graph /\ Extends(graph', graph)
    OBVIOUS
  <2>1. Undisturbed(p)
    BY DEF Inv, Protocol
  <2>2. graph' = tmp
    <3>1. ~RepoStep
      BY DEF RepoStep, AddFile, RemoveFile, Commit, fileVars
    <3>2. PICK q \in Process : VerbStep(q)
      BY <3>1 DEF Next
    <3>3. Fill(q) \/ Rename(q)
      BY <3>2 DEF VerbStep, Scan, Provenance, History, Coverage, Flaky, Cluster,
                  Start, OpenTmp, RenameFails, Crash, fileVars
    <3>4. ~Fill(q)
      BY <2>1 DEF Undisturbed, Fill
    <3>. QED
      BY <3>3, <3>4 DEF Rename
  <2>3. tmp = mem[p] /\ Extends(mem[p], graph) /\ mem[p] \in Graph
    BY <2>1 DEF Undisturbed, Inv, TypeOK
  <2>. QED
    BY <2>2, <2>3
<1>. QED
  BY <1>1, HarnessInvariant, PTL DEF Spec, EnrichmentsAdd

\* In every reachable graph, history, coverage and flaky repeated on the same
\* input change nothing.
THEOREM RepeatsStayAgreed == Spec => []RepeatsAgree
<1>1. Inv => RepeatsAgree
  <2>. SUFFICES ASSUME Inv, graph \in Graph PROVE RepeatsAgree
    BY DEF RepeatsAgree, Loaded
  <2>1. TypeOK
    BY DEF Inv
  <2>. QED
    BY <2>1, RepeatedHistory, RepeatedCoverage, RepeatedFlakiness DEF RepeatsAgree
<1>. QED
  BY <1>1, HarnessInvariant, PTL
==========================================================================
