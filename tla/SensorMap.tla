----------------------------- MODULE SensorMap -----------------------------
(***************************************************************************)
(* The coupling edges of .specere/sensor-map.toml from end to end:         *)
(* `specere calibrate from-git` proposes edges between specs that commits  *)
(* touch together, the user pastes them, alone or below edges of their     *)
(* own, and each `filter run` loads the map, checks its edges and picks    *)
(* the filter that will use them.                                          *)
(*                                                                         *)
(* A commit is the set of paths that it changes; which paths lie under a   *)
(* spec's support is given.  The messages of the commands and the weights  *)
(* in comments of the snippet are left out.                                *)
(***************************************************************************)
EXTENDS CouplingDag, FiniteSets

CONSTANTS
  Path,
  Support,     \* Support[n]: the paths under the support of spec n
  MinCommits,  \* --min-commits
  Histories,   \* the commits of a repository: sequences of sets of paths
  OwnEdges     \* what a map may hold before anything is proposed

ASSUME SensorMapAssumption ==
  /\ Support \in [Node -> SUBSET Path]
  /\ MinCommits \in Nat
  /\ Histories \subseteq Seq(SUBSET Path)

VARIABLES
  commits,
  kept,      \* calibrate's proposal so far
  dropped,   \* pairs left out of it because they would close a cycle
  map,       \* the [coupling] edges in the file
  cluster,   \* does the file have an [rbpf] cluster?
  backend    \* the filter of the run that loaded the map last

calVars == <<commits, kept, dropped>>
mapVars == <<vars, calVars, map, cluster, backend>>

SetOf(s) == {s[i] : i \in DOMAIN s}

----------------------------------------------------------------------------
(* calibrate from-git.                                                     *)

Touched(c) == {n \in Node : Support[n] \cap c # {}}

\* The number of commits that touch both specs of the pair e.
CoCommits(e) ==
  Cardinality({i \in DOMAIN commits : {e[1], e[2]} \subseteq Touched(commits[i])})

\* Pairs are directed from the lower id to the higher one.
Pairs == {e \in Node \X Node :
            e[1] < e[2] /\ CoCommits(e) >= 1 /\ CoCommits(e) >= MinCommits}

\* More commits first, then by the ids.
Ahead(e, d) ==
  \/ CoCommits(e) > CoCommits(d)
  \/ /\ CoCommits(e) = CoCommits(d)
     /\ e[1] < d[1] \/ (e[1] = d[1] /\ e[2] <= d[2])

Unweighed == Pairs \ (SetOf(kept) \cup SetOf(dropped))

\* Mutant: edges are followed in both directions.
ReachesEither(E, a, b) ==
  \A S \in SUBSET Node :
    (a \in S /\ \A e \in E : e[1] \in S <=> e[2] \in S) => b \in S

\* Do the edges E lead from a to b?
Reaches(E, a, b) ==
  \A S \in SUBSET Node :
    (a \in S /\ \A e \in E : e[1] \in S => e[2] \in S) => b \in S

Weigh ==
  /\ \E e \in Unweighed :
       /\ \A d \in Unweighed : Ahead(e, d)
       /\ IF Reaches(SetOf(kept), e[2], e[1])
            THEN dropped' = Append(dropped, e) /\ UNCHANGED kept
            ELSE kept' = Append(kept, e) /\ UNCHANGED dropped
  /\ UNCHANGED <<vars, commits, map, cluster, backend>>

\* The user pastes the snippet over the edges of the map, or below them.
Paste ==
  /\ Unweighed = {}
  /\ \E new \in {kept, map \o kept} : new \in Maps /\ map' = new
  /\ UNCHANGED <<vars, calVars, cluster, backend>>

----------------------------------------------------------------------------
(* filter run.                                                             *)

LoadMap ==
  /\ Load
  /\ edges' = map
  /\ backend' = "none"
  /\ UNCHANGED <<calVars, map, cluster>>

SearchMap == Search /\ UNCHANGED <<calVars, map, cluster, backend>>

\* Mutant: the cluster, or no edge, is looked at before the edges.
PickUnchecked ==
  /\ verdict \in {"dag", "cycle"}
  /\ backend = "none"
  /\ backend' = IF cluster THEN "rbpf" ELSE IF edges = << >> THEN "hmm" ELSE "bp"
  /\ UNCHANGED <<vars, calVars, map, cluster>>

\* A map with a cycle is refused before the cluster is looked at.
Pick ==
  /\ verdict \in {"dag", "cycle"}
  /\ backend = "none"
  /\ backend' = IF verdict = "cycle" THEN "refused"
                ELSE IF cluster THEN "rbpf"
                ELSE IF edges = << >> THEN "hmm" ELSE "bp"
  /\ UNCHANGED <<vars, calVars, map, cluster>>

MapInit ==
  /\ Init
  /\ commits \in Histories
  /\ kept = << >>
  /\ dropped = << >>
  /\ map \in OwnEdges
  /\ cluster \in BOOLEAN
  /\ backend = "none"

MapNext == Weigh \/ Paste \/ LoadMap \/ SearchMap \/ Pick

\* A process that has loaded the map goes on with its search.
MapSpec == MapInit /\ [][MapNext]_mapVars /\ WF_mapVars(SearchMap)

----------------------------------------------------------------------------
(* Properties.                                                             *)

\* What calibrate proposes can be loaded as it is, however the specs overlap:
\* the check never finds a cycle in it.  And for all its cycle filter, it leaves
\* no pair out that commits couple often enough.
ProposalRight ==
  /\ dropped = << >>
  /\ edges = kept => verdict # "cycle"

\* Belief propagation runs only on the edges that the map held when it was
\* loaded, and only if they are a DAG; the plain filter only if there are none.
BackendFits ==
  /\ backend = "bp" => edges # << >> /\ Check!Acyclic(edges)
  /\ backend = "hmm" => edges = << >>

\* Every load ends with a verdict: the search takes each edge once.
EveryLoadEnds == verdict = "running" ~> verdict \in {"dag", "cycle"}

----------------------------------------------------------------------------
(* Said of the code, and not so.                                           *)

\* "RBPF when `[rbpf]` is configured (escape valve for cyclic coupling
\* clusters)": a map that has a cluster is not refused for its cycle.
ClusterEscapes == ~(cluster /\ backend = "refused")
==========================================================================
