--------------------------- MODULE HarnessGraph ---------------------------
(***************************************************************************)
(* The harness graph, .specere/harness-graph.toml, and the verbs that      *)
(* build it: `specere harness scan` writes a new graph of the files in the *)
(* repository; `provenance`, `history`, `coverage`, `flaky` and `cluster`  *)
(* read the graph, add what they found out, and write it back.             *)
(*                                                                         *)
(* Verbs are processes and take no lock.  All of them write the same       *)
(* harness-graph.toml.tmp (an fs::write: truncate, then fill) and rename   *)
(* it over the graph.  A process keeps its open file through a rename, so  *)
(* `fd` follows it: what was opened as the tmp file may be the graph, or   *)
(* an unlinked file, by the time it is written.                            *)
(*                                                                         *)
(* Simplifications: a verb reads the graph and its own input in one step   *)
(* (the input only grows); of a fact about a file (provenance, metrics,    *)
(* coverage hash, flakiness score) the model keeps that it is there; a     *)
(* PPMI is kept as the exact ratio whose logarithm it is, and no score is  *)
(* rounded; a file cut short counts as Blank.  How `cluster` partitions    *)
(* the files is left open, but for what its callers rely on.  The          *)
(* completion event that a verb records after its rename is a record of    *)
(* EventStore.                                                             *)
(***************************************************************************)
EXTENDS Naturals, Sequences, FiniteSets

CONSTANTS
  File,          \* repository-relative paths
  Process,
  MinCommits,    \* history --min-comod-commits
  Similar,       \* coverage --threshold, as <<numerator, denominator>>
  MinFailures,   \* flaky --min-co-fail
  MinRuns,       \* flaky --min-runs
  FlakyAbove,    \* flaky --flake-threshold, as <<numerator, denominator>>
  DepInfo,       \* possible dep-info: sets of pairs of files
  Lcov,          \* possible coverage directories: functions from files to lines
  Matrix,        \* possible test histories: sequences of runs
  MaxCommits,    \* bound: length of the git log
  MaxVerbs,      \* bound: verbs started
  Absent,        \* there is no such file
  Blank,         \* truncated and not written yet: not a graph
  Garbled        \* written by two processes at once: not a graph

Pair == {{a, b} : a \in File, b \in File} \ {{a} : a \in File}

Ratio == Nat \X Nat

Fact == {"provenance", "metrics", "coverage", "flakiness"}

Link == {"comod", "cov", "cofail"}

\* A weighted edge: co_commits and PPMI, intersection_size and Jaccard, or
\* n_joint_failures and PPMI; only the last kind can be dampened.
Edge == [count : Nat, strength : Ratio, dampened : BOOLEAN]

Clustering == UNION {[S -> 1 .. Cardinality(File)] : S \in SUBSET File}

\* HarnessGraph: `label` is the cluster_id of the nodes that have one, and
\* `report` the cluster_report, by member.
Graph ==
  [nodes : SUBSET File,
   use : SUBSET (File \X File),
   facts : [Fact -> SUBSET File],
   links : [Link -> [Pair -> Seq(Edge)]],
   label : Clustering,
   report : Clustering \cup {Absent}]

\* TestRun: the tests that ran, those that failed, and whether the run names
\* changed files.
Run == [ran : SUBSET File, fails : SUBSET File, changed : BOOLEAN]

ASSUME HarnessGraphAssumption ==
  /\ IsFiniteSet(File)
  /\ MinCommits \in Nat /\ MinFailures \in Nat /\ MinRuns \in Nat
  /\ Similar \in Nat \X (Nat \ {0}) /\ FlakyAbove \in Nat \X (Nat \ {0})
  /\ DepInfo \subseteq SUBSET (File \X File)
  /\ \A hits \in Lcov :
       DOMAIN hits \subseteq File /\ \A f \in DOMAIN hits : IsFiniteSet(hits[f])
  /\ Matrix \subseteq Seq(Run)
  /\ MaxCommits \in Nat /\ MaxVerbs \in Nat

ASSUME NoGraphAssumption ==
  /\ {Absent, Blank, Garbled} \cap Graph = {}
  /\ Absent \notin Clustering
  /\ Absent \notin {Blank, Garbled} /\ Blank # Garbled

VARIABLES
  tree,       \* files in the repository
  gitLog,     \* for each commit, the files of the graph that it touched
  graph,      \* content of harness-graph.toml
  tmp,        \* content of harness-graph.toml.tmp
  pc,         \* pc[p]: what p does next
  verb,       \* verb[p]: the verb that p runs
  mem,        \* mem[p]: the graph in p's memory
  fd,         \* fd[p]: the file that p has open for writing
  started,    \* number of verbs started, for the bound
  alone,      \* history: alone[p]: no other verb ran since p started
  unshared    \* history: since all that ran at once ended, a verb that was
              \* alone replaced the graph, or none ever overlapped

repoVars == <<tree, gitLog>>
fileVars == <<graph, tmp>>
verbVars == <<pc, verb, mem, fd>>
history == <<started, alone, unshared>>
vars == <<repoVars, fileVars, verbVars, history>>

Verb == {"scan", "provenance", "history", "coverage", "flaky", "cluster"}

Idle == \A p \in Process : pc[p] = "idle"

TypeOK ==
  /\ tree \subseteq File
  /\ gitLog \in Seq(SUBSET File)
  /\ graph \in Graph \cup {Absent, Blank, Garbled}
  /\ tmp \in Graph \cup {Absent, Blank, Garbled}
  /\ pc \in [Process -> {"idle", "open", "fill", "rename"}]
  /\ verb \in [Process -> Verb \cup {Absent}]
  /\ mem \in [Process -> Graph \cup {Absent}]
  /\ fd \in [Process -> {"none", "tmp", "graph", "unlinked"}]
  /\ \A p \in Process :
       /\ pc[p] # "idle" => mem[p] \in Graph /\ verb[p] \in Verb
       /\ fd[p] # "none" <=> pc[p] = "fill"
  /\ started \in Nat
  /\ alone \in [Process -> BOOLEAN]
  /\ unshared \in BOOLEAN

Init ==
  /\ tree \in SUBSET File
  /\ gitLog = << >>
  /\ graph = Absent
  /\ tmp = Absent
  /\ pc = [p \in Process |-> "idle"]
  /\ verb = [p \in Process |-> Absent]
  /\ mem = [p \in Process |-> Absent]
  /\ fd = [p \in Process |-> "none"]
  /\ started = 0
  /\ alone = [p \in Process |-> TRUE]
  /\ unshared = TRUE

----------------------------------------------------------------------------
(* The repository.                                                         *)

AddFile(f) ==
  /\ f \notin tree
  /\ tree' = tree \cup {f}
  /\ UNCHANGED <<gitLog, fileVars, verbVars, history>>

RemoveFile(f) ==
  /\ f \in tree
  /\ tree' = tree \ {f}
  /\ UNCHANGED <<gitLog, fileVars, verbVars, history>>

\* Most commits touch no file of the graph.
Commit(touched) ==
  /\ Len(gitLog) < MaxCommits
  /\ gitLog' = Append(gitLog, touched)
  /\ UNCHANGED <<tree, fileVars, verbVars, history>>

----------------------------------------------------------------------------
(* What the verbs compute.                                                 *)

\* p(a,b) / (p(a) p(b)), from counts among n; its logarithm is the PPMI.
Lift(joint, a, b, n) ==
  IF a * b = 0 THEN <<0, 1>> ELSE <<joint * n, a * b>>

Associated(lift) == lift[1] > lift[2]

\* Mutant: the new edge takes the place of those before.
PushReplacing(edges, e) == << e >>

\* Mutant: nothing is deduplicated.
PushAlways(edges, e) == Append(edges, e)

Same(x, y) ==
  /\ x.count = y.count /\ x.dampened = y.dampened
  /\ x.strength[1] * y.strength[2] = y.strength[1] * x.strength[2]

\* push, a stable sort by (from, to), and a dedup() that drops an edge only if
\* it equals the one before it.
Push(edges, e) ==
  IF edges # << >> /\ Same(edges[Len(edges)], e) THEN edges ELSE Append(edges, e)

\* g with, for every pair in `found`, the edge found for it.
WithLinks(g, kind, found) ==
  [g EXCEPT !.links[kind] =
     [e \in Pair |-> IF e \in DOMAIN found THEN Push(g.links[kind][e], found[e])
                                            ELSE g.links[kind][e]]]

WithFacts(g, fact, S) ==
  [g EXCEPT !.facts[fact] = @ \cup (g.nodes \cap S)]

Joined(g) == {e \in Pair : e \subseteq g.nodes}

Fresh(deps) ==
  [nodes |-> tree,
   use |-> {d \in deps : d[1] # d[2] /\ {d[1], d[2]} \subseteq tree},
   facts |-> [k \in Fact |-> {}],
   links |-> [k \in Link |-> [e \in Pair |-> << >>]],
   label |-> << >>,
   report |-> Absent]

\* Number of commits that touched all of S, and the files that any touched.
Commits(S) == Cardinality({i \in DOMAIN gitLog : S \subseteq gitLog[i]})

Tracked == UNION {gitLog[i] : i \in DOMAIN gitLog}

ComodEdges(g) ==
  LET LiftOf(e) ==
        LET a == CHOOSE f \in e : TRUE
            b == CHOOSE f \in e : f # a
        IN  Lift(Commits(e), Commits({a}), Commits({b}), Len(gitLog))
  IN  [e \in {e \in Joined(g) : Commits(e) >= MinCommits /\ Associated(LiftOf(e))}
         |-> [count |-> Commits(e), strength |-> LiftOf(e), dampened |-> FALSE]]

WithHistory(g) ==
  WithLinks(WithFacts(g, "metrics", Tracked), "comod", ComodEdges(g))

\* The lines that one or all of the files of e cover.
SomeCover(hits, e) == UNION {hits[f] : f \in e}
AllCover(hits, e) == {x \in SomeCover(hits, e) : \A f \in e : x \in hits[f]}

Jaccard(hits, e) ==
  IF SomeCover(hits, e) = {}
    THEN <<0, 1>>
    ELSE <<Cardinality(AllCover(hits, e)), Cardinality(SomeCover(hits, e))>>

CovEdges(g, hits) ==
  [e \in {e \in Joined(g) : /\ e \subseteq DOMAIN hits
                           /\ Jaccard(hits, e)[1] * Similar[2]
                                >= Similar[1] * Jaccard(hits, e)[2]}
     |-> [count |-> Cardinality(AllCover(hits, e)), strength |-> Jaccard(hits, e),
          dampened |-> FALSE]]

WithCoverage(g, hits) ==
  WithLinks(WithFacts(g, "coverage", DOMAIN hits), "cov", CovEdges(g, hits))

\* In a run that names changed files, a failure counts for the pairs only if
\* the coverage of the test is known, or the test is no node.
Genuine(g, r) ==
  {f \in r.fails : r.changed => f \notin g.nodes \/ f \in g.facts["coverage"]}

Ran(runs, f) == Cardinality({i \in DOMAIN runs : f \in runs[i].ran})
Fails(runs, f) == Cardinality({i \in DOMAIN runs : f \in runs[i].fails})

\* Number of runs in which all of e failed and count.
Joint(g, runs, e) == Cardinality({i \in DOMAIN runs : e \subseteq Genuine(g, runs[i])})

CofailLift(g, runs, e) ==
  LET a == CHOOSE f \in e : TRUE
      b == CHOOSE f \in e : f # a
  IN  Lift(Joint(g, runs, e), Fails(runs, a), Fails(runs, b), Len(runs))

IsFlaky(runs, f) == Fails(runs, f) * FlakyAbove[2] > FlakyAbove[1] * Ran(runs, f)

CofailPairs(g, runs) ==
  {e \in Joined(g) : /\ Joint(g, runs, e) >= MinFailures
                     /\ Associated(CofailLift(g, runs, e))}

CofailEdges(g, runs) ==
  [e \in CofailPairs(g, runs)
     |-> [count |-> Joint(g, runs, e), strength |-> CofailLift(g, runs, e),
          dampened |-> \A f \in e : IsFlaky(runs, f)]]

WithFlakiness(g, runs) ==
  IF runs = << >> \/ Len(runs) < MinRuns
    THEN g
    ELSE WithLinks(WithFacts(g, "flakiness", {f \in File : Ran(runs, f) > 0}),
                   "cofail", CofailEdges(g, runs))

\* The nodes with an edge of positive weight.
Linked(g) ==
  {f \in File :
     \/ \E d \in g.use : f \in {d[1], d[2]}
     \/ \E e \in Pair, k \in Link :
          f \in e /\ \E i \in DOMAIN g.links[k][e] : g.links[k][e][i].strength[1] > 0}

\* Mutant: the clusters are numbered from 0.
ClusteringsFromZero(S) ==
  {c \in [S -> 0 .. Cardinality(S)] :
     \A f \in S : \A i \in 0 .. c[f] : \E g \in S : c[g] = i}

\* The clusters are numbered from 1 without gaps.
Clusterings(S) ==
  {c \in [S -> 1 .. Cardinality(S)] :
     \A f \in S : \A i \in 1 .. c[f] : \E g \in S : c[g] = i}

----------------------------------------------------------------------------
(* A verb.                                                                 *)

\* p has read the graph, has g in its memory and is about to write it.
Start(p, v, g) ==
  /\ pc[p] = "idle"
  /\ started < MaxVerbs
  /\ pc' = [pc EXCEPT ![p] = "open"]
  /\ verb' = [verb EXCEPT ![p] = v]
  /\ mem' = [mem EXCEPT ![p] = g]
  /\ started' = started + 1
  /\ alone' = [q \in Process |-> IF q = p THEN Idle ELSE pc[q] = "idle"]
  /\ unshared' = (unshared /\ Idle)
  /\ UNCHANGED <<repoVars, fileVars, fd>>

\* A missing or empty graph, or one that does not parse, ends the other verbs.
Loaded == graph \in Graph /\ graph.nodes # {}

\* Mutant: the clusters of the last graph are carried over.
ScanKeepingClusters(p) ==
  \E deps \in DepInfo :
    Start(p, "scan",
          IF graph \in Graph THEN [Fresh(deps) EXCEPT !.label = graph.label]
                             ELSE Fresh(deps))

\* Mutant: the weighted edges of the last graph are carried over.
ScanKeepingLinks(p) ==
  \E deps \in DepInfo :
    Start(p, "scan",
          IF graph \in Graph THEN [Fresh(deps) EXCEPT !.links = graph.links]
                             ELSE Fresh(deps))

Scan(p) == \E deps \in DepInfo : Start(p, "scan", Fresh(deps))

\* `claimed`: files that a workflow span in the event log says it created.
Provenance(p) ==
  /\ Loaded
  /\ \E claimed \in SUBSET File :
       Start(p, "provenance", WithFacts(graph, "provenance", claimed \cup Tracked))

History(p) == Loaded /\ Start(p, "history", WithHistory(graph))

Coverage(p) ==
  /\ Loaded
  /\ \E hits \in Lcov : Start(p, "coverage", WithCoverage(graph, hits))

Flaky(p) ==
  /\ Loaded
  /\ \E runs \in Matrix : Start(p, "flaky", WithFlakiness(graph, runs))

Cluster(p) ==
  /\ Loaded
  /\ \E c \in Clusterings(Linked(graph)) :
       Start(p, "cluster", [graph EXCEPT !.label = c, !.report = c])

\* Mutant: the graph is written in place.
OpenGraph(p) ==
  /\ pc[p] = "open"
  /\ tmp' = Blank
  /\ graph' = Blank
  /\ fd' = [fd EXCEPT ![p] = "tmp"]
  /\ pc' = [pc EXCEPT ![p] = "fill"]
  /\ UNCHANGED <<repoVars, verb, mem, history>>

OpenTmp(p) ==
  /\ pc[p] = "open"
  /\ tmp' = Blank
  /\ fd' = [fd EXCEPT ![p] = "tmp"]
  /\ pc' = [pc EXCEPT ![p] = "fill"]
  /\ UNCHANGED <<repoVars, graph, verb, mem, history>>

\* A longer text that is already there sticks out behind the one written.
Overwritten(old, new) == IF old \in {Blank, new} THEN {new} ELSE {new, Garbled}

Fill(p) ==
  /\ pc[p] = "fill"
  /\ IF fd[p] = "tmp" THEN tmp' \in Overwritten(tmp, mem[p])
                      ELSE UNCHANGED tmp
  /\ IF fd[p] = "graph" THEN graph' \in Overwritten(graph, mem[p])
                        ELSE UNCHANGED graph
  /\ fd' = [fd EXCEPT ![p] = "none"]
  /\ pc' = [pc EXCEPT ![p] = "rename"]
  /\ UNCHANGED <<repoVars, verb, mem, history>>

\* p is over.
Leave(p) ==
  /\ pc' = [pc EXCEPT ![p] = "idle"]
  /\ verb' = [verb EXCEPT ![p] = Absent]
  /\ mem' = [mem EXCEPT ![p] = Absent]

Rename(p) ==
  /\ pc[p] = "rename"
  /\ tmp # Absent
  /\ graph' = tmp
  /\ tmp' = Absent
  /\ fd' = [q \in Process |-> IF fd[q] = "tmp" THEN "graph"
                              ELSE IF fd[q] = "graph" THEN "unlinked"
                              ELSE fd[q]]
  /\ unshared' = (unshared \/ alone[p])
  /\ Leave(p)
  /\ UNCHANGED <<repoVars, started, alone>>

\* Another process has renamed the tmp file away.
RenameFails(p) ==
  /\ pc[p] = "rename"
  /\ tmp = Absent
  /\ Leave(p)
  /\ UNCHANGED <<repoVars, fileVars, fd, history>>

\* The process is killed, or a write fails.
Crash(p) ==
  /\ pc[p] # "idle"
  /\ fd' = [fd EXCEPT ![p] = "none"]
  /\ Leave(p)
  /\ UNCHANGED <<repoVars, fileVars, history>>

RepoStep ==
  \/ \E f \in File : AddFile(f) \/ RemoveFile(f)
  \/ \E touched \in SUBSET File : Commit(touched)

VerbStep(p) ==
  \/ Scan(p) \/ Provenance(p) \/ History(p) \/ Coverage(p) \/ Flaky(p)
  \/ Cluster(p)
  \/ OpenTmp(p) \/ Fill(p) \/ Rename(p) \/ RenameFails(p) \/ Crash(p)

Next == RepoStep \/ \E p \in Process : VerbStep(p)

Spec == Init /\ [][Next]_vars

----------------------------------------------------------------------------
(* Properties.                                                             *)

\* What the graph says of files, it says of its nodes: after files came and
\* went between the verbs, after coverage directories and test histories that
\* name other files, and however the verbs overlap, no edge, fact or cluster
\* is left that belongs to the nodes of an earlier scan.
Closed(g) ==
  /\ \A d \in g.use : {d[1], d[2]} \subseteq g.nodes
  /\ \A k \in Link, e \in Pair : g.links[k][e] # << >> => e \subseteq g.nodes
  /\ \A k \in Fact : g.facts[k] \subseteq g.nodes

GraphCloses == graph \in Graph => Closed(graph)

\* The cluster ids on the nodes are those of the cluster report in the same
\* file, and only nodes that the graph connects are in a cluster.
Clustered(g) ==
  /\ g.label = (IF g.report = Absent THEN << >> ELSE g.report)
  /\ DOMAIN g.label \subseteq Linked(g)

ClustersAgree == graph \in Graph => Clustered(graph)

\* A killed verb alone never leaves a graph that cannot be read: that takes two
\* verbs writing at once, and lasts at most until a verb that runs alone has
\* replaced the graph.
ReadableUnlessShared == unshared => graph \in Graph \cup {Absent}

\* h says all that g says of the same nodes.
Extends(h, g) ==
  /\ h.nodes = g.nodes /\ h.use = g.use
  /\ \A k \in Fact : g.facts[k] \subseteq h.facts[k]
  /\ \A k \in Link, e \in Pair :
       \A i \in DOMAIN g.links[k][e] :
         i \in DOMAIN h.links[k][e] /\ h.links[k][e][i] = g.links[k][e][i]

\* Between scans, what one verb found out is not lost to another: a verb that
\* runs alone extends the graph that is on disk when it replaces it.
EnrichmentsAdd ==
  [][(/\ graph \in Graph /\ graph' # graph
      /\ \E p \in Process : pc[p] = "rename" /\ alone[p] /\ verb[p] # "scan")
        => graph' \in Graph /\ Extends(graph', graph)]_vars

\* A verb repeated on the same input changes nothing, whatever the verbs before
\* it left in the graph.
RepeatsAgree ==
  (Idle /\ Loaded) =>
    /\ LET g == WithHistory(graph) IN WithHistory(g) = g
    /\ \A hits \in Lcov :
         LET g == WithCoverage(graph, hits) IN WithCoverage(g, hits) = g
    /\ \A runs \in Matrix :
         LET g == WithFlakiness(graph, runs) IN WithFlakiness(g, runs) = g
==========================================================================
