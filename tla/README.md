# A formal model of SpecERE

SpecERE is a Rust command-line tool that scaffolds "units" into a repository,
records what happens there as events, and keeps a Bayesian belief (satisfied,
violated, unknown) about each requirement. Its commands are short processes
that share files under `.specere/` and know nothing of each other. What is hard
about it is therefore not inside one function: it is what two commands, a
long-lived receiver, a kill and a user with an editor do to the same files.

This directory holds TLA+ modules that model these parts, TLC runs that check
them on small instances, and TLAPS proofs of what matters most for every
instance.

## The system

| Part | Code (under `src/crates/`) | State it keeps | Operations |
|---|---|---|---|
| filter run | `specere/src/main.rs`, `specere-filter/src/posterior.rs`, `specs.rs` | `posterior.toml` (cursor, one belief per spec), `.tmp` sibling, `filter.lock` | `filter run`, `filter status` |
| belief backends | `specere-filter/src/{hmm,bp,rbpf,motion,state,drive}.rs` | belief arrays, in memory | predict, update, set_belief, marginal |
| event store | `specere-telemetry/src/{event_store,sqlite_backend,lib}.rs` | `events.sqlite` and its mirror `events.jsonl` | `observe record`, `observe query`, one-time import |
| OTLP receiver | `specere-telemetry/src/{serve,grpc}.rs` | a SQLite connection behind a mutex | traces and logs, over HTTP and gRPC |
| sensor-map analysis | `specere-filter/src/{coupling,calibrate,motion_fit,rbpf_config}.rs` | none; reads `sensor-map.toml` | cycle check, edge proposal, motion fit |
| unit lifecycle | `specere-units/src/` | installed files, `manifest.toml` | add, remove, verify, init, clean orphans |
| manifest | `specere-manifest/src/lib.rs` | `manifest.toml` | load, upsert, remove, save |
| marker blocks | `specere-markers/src/` | fenced blocks in users' files | add, upsert, strip, remove |
| harness graph | `specere/src/harness/` | `harness-graph.toml` | scan, provenance, history, coverage, flaky, cluster |
| evaluators, linters | `specere/src/{evaluate,smells}.rs`, `specere-units/src/ears_lint.rs` | none; they append events | evaluate mutations, lint tests, lint ears |
| core | `specere-core/src/lib.rs` | none | context, errors, records |

How they interact:

- Everything that observes (record, the receiver, evaluators, harness verbs)
  inserts into SQLite and then appends to the mirror. `observe query` reads the
  table, `filter run` reads the mirror, so the order of the two writes and
  their failures decide whether the two agree.
- `filter run` reads the sensor map, then the lock, the posterior, the mirror,
  the mirror again and the harness graph, and replaces the posterior. Only the
  lock protects it; the sensor map is read before it and the log is appended to
  throughout.
- `remove filter-state` deletes the lock file, whoever holds it.
- The unit lifecycle records a digest per installed file in the manifest, and
  some of these files (`posterior.toml`, `events.sqlite`) are rewritten by the
  other commands.
- The harness verbs read, enrich and replace one graph file without a lock.

What makes each part correct:

- filter run: an event is folded at most once, in order; the cursor never hides
  an event that was not late; overlapping runs behave as if they took turns; a
  kill at any point leaves a whole posterior and a free lock.
- event store: what was acknowledged is stored; the mirror never shows what the
  table lacks; a failed append spoils at most one line; the history is imported
  whole and once.
- receiver: a refused batch may be sent again without losing anything.
- unit lifecycle: a user's edit is never deleted; add, remove and a crash
  between files and manifest leave something that the next command understands.
- harness graph: what it says of files it says of its own nodes; verbs that do
  not overlap lose nothing of each other's and can be repeated and killed;
  overlapping verbs leave at worst a graph that the next scan repairs.
- sensor-map analysis: a coupling graph is accepted exactly when it has no
  cycle; a proposed graph is always accepted.
- markers: remove undoes add and touches nothing outside the fence; a hook lies
  below the key where SpecKit looks for it, whatever other units do.
- evaluators: a repeated or overlapping evaluation does not change what the
  readers compute from the log; nobody is blamed for what was never found.
- orphan cleaning and doctor: what is cleaned up is cleaned up whole; the review
  queue, which people edit, only grows.

The hazards behind these, each at its line, are listed in `PROJECT.json`.

## Modules

| Module | What it is |
|---|---|
| `EventFold` | What one run computes: which events, which cursor, which beliefs. Operators only, shared by the two specifications below |
| `FilterRun` | `filter run` as processes over shared files, with the lock, the double read, the `.tmp` file, kills, map edits and the unlinked lock |
| `PosteriorLog` | The abstract specification: a log that grows and a posterior that a run replaces in one step |
| `EventStore` | The table, the mirror, three ways to record and the query with its import |
| `UnitLifecycle` | add, add --adopt-edits and remove as processes over the units' own files and the manifest |
| `MarkerBlocks` | What the functions of `specere-markers` do to a file: operators over lines |
| `Scaffold` | The same units' commands on what they share with the user: blocks in files, hooks, SpecKit's directories, the feature branch, orphans |
| `HarnessGraph` | The harness verbs as processes over one graph file and one `.tmp` name, beside a repository that changes |
| `DagCheck` | The abstract specification: a map is accepted or refused in one step |
| `CouplingDag` | The depth-first search of `require_dag`, which implements it |
| `SensorMap` | `calibrate from-git`, the paste of its proposal, and the load of the map by `filter run` around that search |
| `Evaluators` | `evaluate mutations`, `lint tests` and `doctor --suspicious` as processes over the log, and what the filter, doctor and the motion fit compute from it |
| `MC...` | The instances for TLC: `MCFilterRun`, `MCEventStore`, `MCUnitLifecycle`, `MCScaffold`, `MCHarnessGraph`, `MCSensorMap`, `MCEvaluators` |
| `Subsequences` | What is left of a sequence when some positions are kept: `Only`, which filters of the code are built from |
| `...Proofs` | The theorems: `FilterRunProofs` (with the lemmas about `EventFold`), `EventStoreProofs`, `UnitLifecycleProofs`, `HarnessGraphProofs`, `SensorMapProofs` (with those about `CouplingDag`), `ScaffoldProofs`, `EvaluatorsProofs` |
| `SequenceLemmas` | Lemmas that several of these need: induction over numbers, what `Only` keeps and how many, what `FlattenSeq` returns, what is left of a sequence and what is put into one |

Composition: `FilterRun` and `PosteriorLog` share `EventFold`; `Scaffold` is
built on `MarkerBlocks`; `SensorMap` extends `CouplingDag`, which instantiates
`DagCheck`. `FilterRun` takes the log as the mirror that `EventStore` maintains;
`Evaluators` takes an append to it as one step, because `EventStore` has the
steps inside.

### FilterRun

State: the mirror as a sequence of events (`log`), the ids of `[specs]`
(`specMap`), the two posterior files, the inode that the lock path names, the
holder of each inode's lock, and for each process its program counter and what
it has loaded. `unmapped` is a history variable: specs that were at some time
missing from the map.

A belief is a float vector in the code. Here it is the history of the batches
that were folded into it since it was last uniform; a batch is (cursor found,
length of the log at the first read, length at the second). All questions asked
here are questions about that history, and equal histories give equal floats.
The backends do not differ in it: all three keep one belief per spec and are
driven by the same loop. A timestamp is its rank in the order in which the code
compares the strings.

Each action is what happens between two points at which another process can
interfere: `Start` (map, lock file opened), `Acquire`, `LoadPosterior`,
`ReadEvents`, `Fold` (second read, loop, snapshot), `TruncateTmp` and `FillTmp`
(the two halves of `fs::write`), `Rename` and the exit that releases the lock.
`Crash` ends a process anywhere and stands also for I/O and parse errors;
`Fail` is the rename that finds no `.tmp`. Around them: `AppendEvent` by anyone
with any timestamp, `EditMap`, and `SweepLock`, the unlink.

A posterior file that was truncated and not yet written has zero bytes. Every
field of it has a default, so zero bytes load as the empty posterior without an
error; `Blank` and `Loaded` model exactly that. Once two processes share the
`.tmp` file (only possible after the unlink), their writes are taken as
whole-file.

### EventStore

State: how many copies of each event the table holds, the lines of the mirror
and whether the last one has its newline, the requests in flight and the
queries in flight. A request is a batch of events, handled one by one: insert,
then mirror. `Via` says how it came: a failed mirror append is passed over by
the HTTP handler and refuses the request over gRPC and in `record`. A refused
client may send the whole batch again. An append may write nothing, or part of
its line (`WriteTorn`), and whatever follows an unfinished line becomes part of
it (`Extended`). A query counts rows, loads the mirror and imports it in one
transaction, with room for everybody else between the three steps.

SQLite statements and transactions are taken as atomic and durable against the
death of the process (not the loss of power). Two events are never equal: a
repeated line is a repeated event.

### UnitLifecycle

State: the content of each file that a unit owns, the manifest on disk as an
owner and a digest per file, and for each command its program counter, the
manifest it has in memory and the files it has yet to do. A digest is the
content itself; what matters of a content is whether it is the unit's own
(`Skeleton`), somebody else's (`Edit`), nothing (`Absent`), or what is there of
a file that was truncated and not filled yet (`Shard`). `disturbed` and `raced`
are history variables: commands overlapped, one failed, or the manifest was
lost; and the files that were edited right under a command, between two steps of
it that take the file to be what it was.

The units differ in two ways that the model keeps as constants. `filter-state`
spares a file that is already there (`Cautious`), the others write over it.
`claude-code-deploy` decides by the digest alone whether it removes a file
(`DigestOnly`), the others look at the owner first. `otel-collector` and
`ears-linter` are neither.

`add` is `BeginInstall`; then for each file `Look` (is it there?), `Truncate` and
`Write` (the two halves of `fs::write`) and, for a cautious unit, `ReadBack`:
filter-state reads the file again and records whatever it finds there, as its
own if it has just written it. Then come `Save` and `Fill`, the two halves of
writing the manifest. `add --adopt-edits` is `BeginAdopt`, `Adopt` (which files
differ?), one `Rehash` for each of them, and the save. `remove` is `BeginRemove`,
for each file `Compare` and, unless the file is kept, `Drop`, and then the save
or, with the last unit, `Unlink`. `Crash` ends a command between any two of them
and stands for the errors as well, but for two that the model has as such: the
file to be read back, or to be dropped, is gone. A manifest of zero bytes does
not parse (it lacks `meta`), so nothing begins before it is deleted
(`DropManifest`). `EditFile` is the user, and also `filter run` and `observe
record`, which rewrite two of filter-state's files; it may come between any two
of these steps. What a write fills in is taken as all of the file, of the
manifest as well, although two overlapping writes could mix their bytes.

### MarkerBlocks and Scaffold

`MarkerBlocks` says what each function does to a file: `TextAdd`, `Upsert`,
`RemoveBlock`, `Strip`, `YamlAdd` and `SweepKeys`. A file is its lines and
whether the last one ends with a newline; a line is its role (marker, body,
blank, `hooks:`, a key, an entry below a key, the user's text, a line that is no
YAML), because that is all that the functions look at.

`Scaffold` uses them as the units do. State: the three shared files, what there
is of SpecKit (its files, the feature directory, the pointer `feature.json`, the
workflow runs), the feature branch, which units the manifest lists and whether
it claims the branch, and the command that runs with its steps left. A step is
one write of one file. The code writes these files in place, so a kill falls
between two steps (`Crash`) or inside one (`CutShort`): then a piece of what was
to be written is there, any number of its lines, the last one with or without its
newline, or a scrap of the next one, which may be text, an entry of a list or no
YAML (`Pieces`). A step that the code refuses ends the command (`GiveUp`). A file
may be unreadable because it is not UTF-8 (`Garble`, the user's doing): an add
takes it for one that is not there and writes over it (`Read`), a remove refuses
it (`Leave`, `RemoveHooks`). One command runs at a time:
overlapping commands are in `UnitLifecycle`, and nothing here adds to what they
can do to each other. The user adds a line, saves a file in another encoding or
takes it back from git between commands, runs a workflow, or cleans an orphan
(`doctor --clean-orphans`, `CleanStep`). SpecKit's own program is external: `specify init --force` brings
its files and may or may not replace an `extensions.yml` that is there.

`late`, `touched` and `swept` are history variables: units whose last command
did not end well; what was done to files besides (a line added, a file taken or
replaced as a whole, and which files were ever cut short or unreadable); whether
claude-code-deploy ever swept keys.

### HarnessGraph

State: the files in the repository and the git log, the graph and the `.tmp`
file, and for each process its program counter, its verb, the graph in its
memory and the file that it has open. A graph is a record of its nodes, the
use edges of the build, the files that have a fact of each kind (provenance,
metrics, coverage, flakiness), a sequence of weighted edges per kind and pair,
the cluster id per node and the cluster report. An edge keeps its count and its
strength as an exact ratio, because whether two edges are equal decides what
`dedup()` drops. `alone` and `unshared` are history variables: no other verb ran
beside this one; no overlap since a lone verb last replaced the graph.

`scan` starts from `Fresh`; the others need a graph that parses and has nodes
(`Loaded`) and apply `WithFacts`, `WithHistory`, `WithCoverage`, `WithFlakiness`
or a clustering to it. Then all of them do the same: `OpenTmp` and `Fill` (the
two halves of `fs::write`), `Rename` or, if another verb renamed the file away,
`RenameFails`. An open file follows its inode through a rename, so a late `Fill`
may write into what has become the graph, or into a file without a name (`fd`);
text over longer text may leave neither (`Garbled`). `Crash` is a kill or an I/O
error anywhere.

Louvain is left open: `Clusterings` allows any assignment of the connected nodes
to clusters numbered from 1 without gaps, which is all that the labels rely on.
What a fact says (dates, authors, hashes) and the rounding of scores to three
decimals are left out.

### CouplingDag and SensorMap

Every `filter run` loads the sensor map and checks its coupling edges before it
does anything else. `CouplingDag` has the check as the code has it: three
colours, a stack of nodes with the index of the edge each took last, the chain
that the error message names. Spec ids are their rank, the adjacency list of a
node is the edges that leave it in the order of the file. `Load` starts it,
`Begin` takes the next white node, `Take` (with `Descend`, `CloseCycle` and
`Skip`) the next edge of the node on top, `Back` finishes a node, `Finish` the
search. `DagCheck` is the same without a search: `Accept` if there is no cycle,
`Refuse` with any cycle.

`SensorMap` adds where edges come from and what a verdict is for. A commit is a
set of paths. `Pairs` are the pairs of specs that enough commits touch together,
`Weigh` takes the heaviest one and leaves it out if it would close a cycle;
`Paste` is the user, who puts the proposal in the place of the map's edges or
below them; `Pick` is the choice of the backend, after the verdict.

### Evaluators

State: what of the repository matters (who owns which file, what the tests look
like, the report of cargo-mutants), the log, the specs whose belief is above the
threshold, the review queue, and for each process its verb and what it has
loaded. `evaluate` and `lint` load the map, gather (`RunMutants`,
`GatherReport`, `GatherSmells`) and then append one event at a time (`Emit`);
`doctor` loads the posterior, compares it with the log (`Query`), reads the
queue and writes it back longer (`WriteQueue`). A queue that cannot be read counts as
empty (`ReadQueue`). `Die` is a kill anywhere, also
in the middle of that write, which truncates the file first. Beside them the
repository changes, a filter run changes the beliefs, an outcome is recorded,
and a reviewer writes into the queue.

The rest is what the readers compute: `Caught`, `Missed`, `SmellKeys` and
`Quality` (`Calibration::from_evidence`), `Trust` (the same reduced by flaky
clusters, for `filter run`), `Suspicious` (doctor) and `Fit` (`motion_fit`).
Fractions are exact. `Judgement` and `Owner` say which spec an outcome counts
for.

`cut`, `judged`, `smelt`, `linted` and `stale` are history variables: verbs cut
short, the maps and reports that were evaluated together, smells that a lint
has seen and those of lints that ended, and the doctors whose copy of the queue
is out of date.

## Runs

| Run | Instance | Shows |
|---|---|---|
| `filter_run` | 2 runs, 2 specs, 2 timestamps, together 2 events and unlinked locks, fairness | `TypeOK`, `NoStaleWork`, `NeverBlank`, `FoldedInOrder`, `CursorCovers`, `LostOnlyIfLate`, `Refinement` of `PosteriorLog`, `CursorNeverBack`, `QueuedRunFinishes` |
| `filter_late` | 2 runs, log up to 2 | violated: `EveryEventConsumed` |
| `events` | HTTP batch of 2, gRPC event, 2 queries, 2 tries, 2 torn appends, history of 2 | `TypeOK`, `MirrorBehindStore`, `AckedReachesFilter`, `TornAppendCostsOne`, `ImportAllOrNothing` |
| `events_history` | 3 clients, 1 query, no failures of the file system | violated: `HistoryImportedOnce` |
| `units` | 2 processes, 3 commands, filter-state with 2 files, a deployed skill, 1 edited content, 3 steps of the user, symmetry | `TypeOK`, `NeverClaimsEdits`, `CleanRoundTrip`, `EditsKept` |
| `units_adopted` | 1 process, 3 commands, 2 steps of the user | violated: `RemoveKeepsEdits` |
| `harness` | 2 processes, 2 files, 3 verbs, 2 commits, symmetry | `TypeOK`, `GraphCloses`, `ClustersAgree`, `ReadableUnlessShared`, `RepeatsAgree`, `EnrichmentsAdd` |
| `fences` | 4 units, 3 kinds of repository (one of them also with the branch), 2 workflow spans, 1 edit, kill or cut write | `TypeOK`, `InstalledThere`, `NothingLeft`, `RoundTrip`, `HooksPlaced`, `NoDanglingPointer`, `UserLinesKept`, `BranchesKept` |
| `fences_keys` | the same, without edits and kills | violated: `NoReflow` |
| `sensors` | 3 specs, every map of up to 3 edges, every history of up to 2 commits over 3 paths | `VerdictRight`, `ProposalRight`, `BackendFits`, `Implements` (`DagCheck`), `EveryLoadEnds` |
| `sensors_cluster` | the same | violated: `ClusterEscapes` |
| `evaluators` | 2 processes, 3 verbs, 1 change around them, 2 specs, 2 maps, 2 reports, 2 suites, symmetry | `RateRepeats`, `TrustEarned`, `QueueKept` |

Why the bounds are enough. Two runs give every overlap of a run with another
one, and each can come back any number of times. Two timestamps give an older,
an equal and a younger event; two events in the log give a first batch and then
a late event or a second batch, and what a third one could add is covered by the
proofs, which have no bound. The two specs share the cases: one stays in the map,
the other comes and goes; an event concerns the first, both or none. One unlink
gives two lock files, and leaves room for one event; with liveness checked in the
same run there is no room for more. A batch of two has a
first event that is stored and a second that fails; two tries give one repeat;
two torn appends give a torn line on top of a torn line. Two processes give every
overlap of two commands, three commands a repetition or a third one after them; a
unit of two files gives the middle of a unit, and a unit of each family every
case of `Spared` and `Kept`. Three steps of the user are a file that is there at
first being edited, one edited right under a command, and a manifest deleted. That
two edits differ from each other only matters to the comparison of an adopted file
with its digest, which the proofs cover. For the harness, two files
are the least that have a pair, two processes give every overlap, and three
verbs a scan, one enrichment and a second one upon or beside it; with the two
files, two coverage directories whose overlaps differ, and a test history that is
long enough and one that is not. Two commits are enough for a pair that is
associated (one of both files, one of neither).

For `fences`, the units come and go without a bound; the bound is on the user's
edits, kills and cut writes, of which there is one. A write is cut short in the
tidy repository only, where every file has lines of the user's to lose, and
SpecKit comes only to the other two: with both in one repository the pieces of the
files would multiply with SpecKit's states, and the run would not end in time.
What SpecKit does to a file in pieces is therefore left to the theorems. The
repository in which the branch is the user's has no edits, because files and
branches have nothing to do with each other. The three repositories have no shared
files, tidy ones, and loose ones (double blank lines, no newline at the end, an
empty hook key, lists in another order). Two workflow spans stand for the 13
that the code installs: one lies below the key of ears-linter and one below a
key that only spans use. For `sensors`, three specs give self-loops, doubled
edges, a diamond's half, a chain, two-cycles, three-cycles and parts that do not
touch; the proofs are for any number. Two commits over three paths give pairs
with equal and with different counts. For `evaluators`, two processes and three
verbs give each overlap of two verbs and a repetition after it; the two reports
hold every summary between them, the two suites every smell, and the maps move a
file from one spec to the other.

`MaxLog`, `MaxSweeps`, `MaxTries`, `MaxTears`, `MaxCommits`, `MaxTrouble` and
`MaxEdits` only stop the environment; no action of the program is guarded by
them, except that a kill, inside a write or between steps, is part of the
environment. `MaxVerbs` and `MaxCommands` do guard the start of a verb or command.
Deadlock is checked in every run but `evaluators`, `units` and `units_adopted`,
where verbs or commands, and changes, run out; everywhere else something can
always go on.

Symmetry is used in `events` (queries), `units` (commands), `harness` and
`evaluators` (processes); these check invariants and action properties that do
not tell processes apart, and no liveness.

The five violations are disagreements between the code and its own
documentation, quoted in `PROJECT.json`:

- An event that arrives with a timestamp not greater than the cursor is never
  folded. In the shortest trace two events share a timestamp and the second is
  appended between the two reads of one run: it counts in the calibration and
  is then behind the cursor. What does hold is `LostOnlyIfLate`.
- One record before the first query, and the history in the mirror is never
  imported. What does hold is `ImportAllOrNothing`.
- A deployed skill that was edited and adopted is deleted by `remove`, because
  adopting moves the digest to the edited content. What does hold is
  `EditsKept`, which names this case and no other deletion of a file that nobody
  touched since the command looked at it.
- `remove claude-code-deploy` sweeps every hook key whose next line is no entry.
  The block of `ears-linter` starts with its marker, a comment: the key goes, the
  hook stays and lies in whatever list is above it, or in none. What does hold is
  `HooksPlaced`.
- A cluster for the particle filter does not help a map with a cycle, although the
  comment in `main.rs`, that of `coupling.rs` and a test's say that it is the
  escape for such maps: the map is refused while it is loaded, before the RBPF
  branch is reached. None of the tests in `fr_p4_rbpf_cli_routing.rs` has a cyclic
  map. What does hold is `BackendFits`.

Other things that the models show and that contradict no promise, or only one
that was not thought of this way:

- `remove filter-state` unlinks a held lock file, and the next run is not
  excluded. `SerialisedWhileIntact` says what holds; `FoldedInOrder` and
  `CursorCovers` hold even then.
- An append that succeeds behind a torn one is not a line: `TornAppendCostsOne`.
- A pair of files can have two co-modification edges after `history`, a commit
  and `history` again: the verb pushes onto the edges it loaded, and `dedup()`
  drops only equal ones. Both weigh in the clusters until the next scan.
- Of overlapping harness verbs the later rename wins and the other's enrichment
  is lost; a verb whose `.tmp` was renamed away fails; in the worst case two
  writes meet in one file and the graph does not parse until the next scan.
  `EnrichmentsAdd` and `ReadableUnlessShared` state the condition (`alone`,
  `unshared`) under which none of this happens, `GraphCloses` and
  `ClustersAgree` what is true even so.
- The cycle filter of `calibrate` never drops anything, because every pair is
  directed from the lower id to the higher one (`ProposalRight`). Pasted below
  edges of the user's own the proposal may close a cycle.
- filter-state reads a file back that it has just written and records what it
  finds as its own: an event that `observe record` stores, or an edit, between the
  two counts as specere's, and the next `remove` deletes it. `NeverClaimsEdits`
  and `EditsKept` say that this needs an edit right under a command (`raced`).
- The shared files are written in place, although
  `contracts/extensions-mutation.md:42` asks for a temporary file and a rename. A
  kill inside the write loses the lines behind the cut, the user's and those of
  units that have nothing to do with the command. A block that lost its end marker
  counts as there for the next `add`, and makes `remove` fail (`Torn` in the
  proofs). `UserLinesKept`, `HooksPlaced` and `NothingLeft` say what commands do to
  such a file; `InstalledThere` speaks of the other files, and `RoundTrip` of
  histories without one.
- An add that cannot read a shared file takes it for an absent one and writes over
  it, with the user's lines in it, although `tasks.md:87` asks for `ParseFailure`;
  a remove refuses it. `UserLinesKept` speaks of files that can be read.
- `contracts/extensions-mutation.md:60` says that after add and remove a file
  matches its former state byte by byte. The code does not take out `hooks:`, the
  key of ears-linter, or a file that it made; it tidies blank lines and sweeps
  empty keys of the user's. `Neat` names the files for which the promise holds.
- `remove speckit --delete-branch` wipes SpecKit's files, and refuses for the
  branch's sake only after that (`DropBranch`); it stays in the manifest.
- `remove speckit` deletes the blocks of other units with `extensions.yml`, and
  the manifest still lists them. `InstalledThere` excludes files that were taken
  as a whole.
- `clean_orphans` that fails, or is killed, after the feature directory leaves a
  pointer to nothing that `detect` does not find any more; `NoDanglingPointer`
  speaks of those that ended.
- An evaluation that was cut short and is repeated weighs its first outcomes
  twice; an `outcomes.json` left by an older run is taken when cargo-mutants
  fails; a smell that was fixed counts for ever. `RateRepeats` and `TrustEarned`
  state what is left.
- `motion_fit` counts the outcomes of tests in the kill rate that its comment
  calls a subset of the mutations; `doctor` leaves out the flaky clusters, so it
  flags fewer specs than `filter run` distrusts, never more.
- `doctor` loses a reviewer's line that is written between its read and its
  write, truncates the queue if it is killed in between, and writes over all of it
  if it cannot read it; `QueueKept` says that nothing else is lost.

### Fairness

`QueuedRunFinishes` needs weak fairness of a process's own steps: the operating
system schedules it. Strong fairness of `Acquire` says that the kernel, which
queues blocked `flock` callers, does not pass over one of them forever while the
lock keeps being released. `EveryLoadEnds` needs weak fairness of the search
(`SearchMap`): a process that has loaded a map goes on. Nothing makes anybody
start a run, load a map, append an event, edit the map or die; in particular
progress does not rely on crashes.

## Proofs

The proof modules are checked by TLAPS without any assumption beyond the
`ASSUME`s of `EventFold` (timestamps are positive naturals, the two special
targets are no spec ids), `FilterRun` (the model values differ, the bounds are
naturals), `EventStore` (garbage is no event, a request is not empty, no event
is in two requests or in a request and the history, the bounds are naturals),
`UnitLifecycle` (each unit has a file, no file has two units, the skeleton is no
edit, the model values differ), `HarnessGraph` (finitely many
files, thresholds are naturals and ratios with a denominator above zero, inputs
are about files, the marks for a missing, truncated or garbled file are no
graphs), `CouplingDag` (a number of specs, maps are sequences of edges between
them), `SensorMap` (the files of a spec are paths, a history is a sequence of sets of
paths, the threshold is a natural) and `Evaluators` (spec ids, reports and suites
are sequences, the mark for no spec is no spec and the mark for no report no
report, counts of a test are naturals, the log holds test outcomes at first, a
flakiness is a percentage, finitely many processes) and `Scaffold` (the marks for
no file and for a refusal are no files, the workflow spans are a sequence of keys,
and the files that the repository has at first, and those of SpecKit, can be read
and hold no line of a unit's block: the markers carry the units' names). TLC evaluates all of these in
the runs of the modules.

About `FilterRun`:

| Theorem | Statement |
|---|---|
| `TypeCorrect` | `Spec => []TypeOK` |
| `NothingFoldedTwice` | `Spec => []FoldedInOrder` |
| `CursorIsRight` | `Spec => []CursorCovers` |
| `LossIsLateness` | `Spec => []LostOnlyIfLate` |
| `SerialisedWhileIntact` | `Spec => [](LockIntact => RunsSerialised)` |
| `WorkIsFresh` | `Spec => []NoStaleWork` |
| `PosteriorIsWhole` | `Spec => []NeverBlank` |
| `Implements` | `Spec => Refinement` |
| `IntactImplements` | `Spec /\ []LockIntact => Abstract!PSpec` |
| `CursorMonotone` | `Spec => CursorNeverBack` |

The argument has three layers.

1. *Posteriors are sound whoever holds the lock.* `Sound`
   says of one posterior and one log that the batches of every belief are in
   order, that the cursor covers them, and that only late events are missing.
   `EmptySound`, `SoundOnGrownLog` and `SoundAdvance` show that the empty
   posterior is sound, that a growing log keeps a sound posterior sound, and
   that a run makes a sound posterior of a sound one. The inductive invariant
   `SoundInv` says that every posterior anywhere is sound: on disk, in the
   `.tmp` file and in every process's memory. The last two are why the
   invariants of the runs are not inductive by themselves. No lock appears in
   it, which is the reason why overlapping runs can lose each other's work but
   never fold an event twice.
2. *The lock is held.* `LockInv`: while the lock file is the first one, a
   process past `Acquire` is the holder of its lock; so there is one at most.
3. *So work is fresh.* `FreshInv` adds `NoStaleWork` and `NeverBlank`: what a
   process is about to write is one run's step from what is on disk now. From
   it a rename is a step of `PosteriorLog` (`StepRefines`, `Implements`) and
   the cursor cannot go back (`CursorMonotone`). `Refinement` says it step by step,
   for as long as the lock file is intact; where it always is, FilterRun implements
   the abstract specification (`IntactImplements`).

About `UnitLifecycle`:

| Theorem | Statement |
|---|---|
| `TypeCorrect` | `Spec => []TypeOK` |
| `ClaimsNoEdits` | `Spec => []NeverClaimsEdits` |
| `KeepsEdits` | `Spec => EditsKept` |
| `RoundTripIsClean` | `Spec => []CleanRoundTrip` |

`TypeOK` says that a manifest on disk lists each unit wholly or not at all. It
is not inductive: what is saved comes from a command's memory, and in the middle
of a unit's files that memory is neither. `Working` says how far such a command
is (`Pending`: of its unit, the files still to do are just those not listed yet,
or, for a remove, still listed). `Watched` says what a command may rely on between
two steps on one file: if a cautious unit is about to write it, or has written it,
and it holds what a user wrote, then the user wrote it just then (`raced`); and so
for a file that is about to be deleted, unless its unit deletes what was adopted.
`UnitInv`, which is `TypeOK`, `Working`, `Watched` and `NeverClaimsEdits`, is
inductive (`StepKeepsInv`). `Watched` is why an install that reads back a user's
content has been raced, and with it `NeverClaimsEdits` holds of the record;
`EditsKept` follows for each step that writes or deletes. `CleanRoundTrip` speaks
of idle times only; `Undisturbed` extends it to the middle of the one command that
works, but for the file that it has in hand.

About `HarnessGraph`:

| Theorem | Statement |
|---|---|
| `HarnessInvariant` | `Spec => []Inv`, on which the others rest |
| `HarnessTypeCorrect` | `Spec => []TypeOK` |
| `GraphStaysClosed` | `Spec => []GraphCloses` |
| `ClustersStayAgreed` | `Spec => []ClustersAgree` |
| `GraphStaysReadable` | `Spec => []ReadableUnlessShared` |
| `LoneVerbsOnlyAdd` | `Spec => EnrichmentsAdd` |
| `RepeatsStayAgreed` | `Spec => []RepeatsAgree` |

The inductive invariant `Inv` is `TypeOK` with two parts. `Shapes` extends
`GraphCloses` and `ClustersAgree` from the graph on disk to the `.tmp` file and
to every process's memory, because any of them may become the graph. `Protocol`
says what a lone verb relies on: nobody else is active, the `.tmp` file is empty
or holds its own work, and that work extends the graph on disk. The lemmas before
it say that each verb's computation yields a graph that extends the one it
started from (`HistoryEnriches`, `CoverageEnriches`, `FlakinessEnriches`) and that
this keeps a graph well formed (`EnrichedIsWellFormed`). `RepeatsAgree` rests on
`AddedOnce`: pushing the same edges twice in a row adds nothing, and what a verb
computes depends on nothing that it changes.

About `EventStore`:

| Theorem | Statement |
|---|---|
| `StoreTypeCorrect` | `Spec => []TypeOK` |
| `MirrorStaysBehind` | `Spec => []MirrorBehindStore` |
| `AckedIsMirrored` | `Spec => []AckedReachesFilter` |
| `TearsCostOne` | `Spec => []TornAppendCostsOne` |
| `ImportIsWhole` | `Spec => []ImportAllOrNothing` |

`TypeOK` is inductive; each of the others is the part that survives of what holds
in the middle of a batch. `Stored`: what precedes the current event of a batch is
in the table, and so is the event itself once it goes to the mirror. `Mirrored`:
without torn appends it is in the mirror too, unless the request came over HTTP.
`Slack`: the count of readable lines has a margin (`Owed`) as long as the last
line is unfinished, because the next append may turn one readable line and one
success into garbage. `Intact`: the mirror, and what a reader has read of it,
begins with the history, whose events occur nowhere else in it; so an import adds
each of them as often as any other.

About `CouplingDag` and `SensorMap`:

| Theorem | Statement |
|---|---|
| `SearchInvariant` | `Spec => []IInv`, on which the others rest |
| `SearchTypeOK` | `Spec => []TypeOK` |
| `VerdictIsRight` | `Spec => []VerdictRight` |
| `SearchImplements` | `Spec => Implements` |
| `MapInvariant` | `MapSpec => []MapInv`, on which the next four rest |
| `EveryVerdictIsRight` | `MapSpec => []VerdictRight` |
| `ProposalIsRight` | `MapSpec => []ProposalRight` |
| `BackendIsFit` | `MapSpec => []BackendFits` |
| `MapImplements` | `MapSpec => Implements` |

The verdict alone is not inductive. `IInv` says that the stack is a path of edges
(`StackIsPath`) and its nodes are just the gray ones (`GrayOnStack`); that the
edges which they have taken lead to black nodes, but for the one to the node
above (`TakenAreDone`); that no edge leaves the black nodes (`BlackClosed`); and
that every set of black nodes has one without an edge into the set
(`BlackHasSinks`), which is acyclicity without any induction over paths. A node
becomes black when all its edges lead to black nodes, so it is a sink of whatever
set it joins (`BackInv`); when no node is white all are black (`FinishInv`); and
an edge to a gray node closes the path (`ClosedChain`), which refutes acyclicity
(`CycleRefutes`).

`MapInv` adds to it that the proposal goes from lower ids to higher ones
(`PairsAscend`), which makes any part of it acyclic, because of any set of nodes
the highest has no edge into the set (`AscendingIsAcyclic`). So the filter of
`calibrate` finds no cycle, and, `IInv` being true of every loaded map, a proposal
that is loaded as it is is not refused. `BackendFits` rests on the order of the
steps: a backend is picked after the verdict (`NextInv` is used for the search,
`MapNextInv` has one case per step around it).

About `Scaffold`:

| Theorem | Statement |
|---|---|
| `Invariant` | `Spec => []IInv`, on which the others rest |
| `BranchStays` | `Spec => BranchesKept` |
| `PointerNames` | `Spec => []NoDanglingPointer` |
| `FilesInvariant` | `Spec => [](IInv /\ FInv)`, on which the following rest |
| `TypesHold` | `Spec => []TypeOK` |
| `InstalledBlocks` | `Spec => []InstalledThere` |
| `RemovedBlocks` | `Spec => []NothingLeft` |
| `HooksStay` | `Spec => []HooksPlaced` |
| `UsersKeepLines` | `Spec => UserLinesKept` |
| `IntactInvariant` | `Spec => [](IInv /\ FInv /\ RInv)`, on which the next one rests |
| `FilesReturn` | `Spec => []RoundTrip` |

The first two properties rest on the order of the steps that are left (`JobOK`), whatever
files and hooks there are: `specs/` goes right after `.specify` (`InOrder`), a
command on a unit ends with the manifest (`Saves`), and a clean-up takes the
feature directory, then the pointer, then the runs. `ClaimOK` says that the
manifest claims no branch of the user's, and that no add is about to. `PointerOK`
extends `NoDanglingPointer` to the middle of commands: only a clean-up breaks it
on its way, and only one that is cut short leaves it broken; a removal of SpecKit
never does, because the pointer and the runs are gone when `specs/` goes. The
lemma about a step with more to come (`AdvanceJob`) and that about a command that
ends early (`GiveUpKeeps`) do most of the cases.

The others are about the lines of files, and hold for any number of workflow spans
and any lines, wherever the user adds them. The invariant `FInv` has two halves.

- What every file is, between any two writes, pieces included. `FilesOK`: every
  marked line is of a block that the units have in the file (`Declared`), and each
  block is torn (its begin is there without its end, `Torn`) or lies there once
  with its three lines together, or not at all (`Whole`); this is `Sane`. In a file
  that no write has cut short and that could always be read no block is torn
  (`Unhurt`). `PlaceOK`: a hook lies below the key it was added for. Neither
  `InstalledThere` nor `HooksPlaced` is inductive without `Whole`: a removal takes
  what lies between two markers, so it takes one block only because no marker lies
  inside another's. And `NothingLeft` needs `Led`, no body or end without its
  begin: a cut write leaves the first lines of a file, so what it leaves of a block
  has the begin (`PrefixSane`, `PiecesSane`), and then the block counts as there:
  an add leaves it as it is, and a remove fails on it (`TornFails`), so that the
  unit stays late.
- What a unit's command still has to do. `StepsOK`: the manifest comes last.
  `AddOK`, `RemoveOK`: a block that is not there yet is one that a step to go puts
  there, and one that is still there is one that a step to go takes. `InstallOK`,
  `AbsentOK` are the two block properties while other units' commands run.

The functions of `MarkerBlocks` come in by what they leave. A file is thinned
(`Thins`: some positions stay, in their order) or spliced (`Splices`: lines come in
at one position). That a block comes in whole and cuts no other is `Gains`
(`AppendGains`, `UpsertGains`, `YamlAddFences`: `yaml_block_fence::add` in its three
cases, the list found, the key missing, `hooks:` missing); that one goes, with its
three lines, and nothing else but blank lines and empty keys is `Loses`
(`RemoveLoses`, `StripLoses`, `SweepAlike`). `UserLinesKept` follows from the same facts,
because neither side touches a line of the user's. All of them are stated for the
blocks that are whole; to what else is in the file, torn blocks too, nothing happens
(`SaneKept`). Hooks added one
by one are an induction over the spans (`WithSpansGrows`, `WithoutShrinks`). Then one
lemma for each kind of step says which blocks it puts or takes, in one of three
ways (`Tried`): it writes (`Wrote`), fails before (`Wrong`) or is cut short
(`InPieces`); and the blocks of the other units stay (`RestKeeps`), but for those in
a file that is cut short. A file that could not be read counts as cut short from
then on: `Garble` marks it in `touched`.

`RoundTrip` speaks of the time when no unit is left, but units come and go in any
order in between, so `RInv` says what a file is while some are there and none was
cut short or unreadable (`Intact`; `Untouched` brings it back to whole blocks):
all that units add can be told from what the user had, and blank lines are where
that is hard.

- `.gitignore` and `CLAUDE.md` only grow at their end (`TailOK`): the user's lines,
  then blank lines and lines of blocks, and no blank line last (`Extends`). What a
  remove tidies up lies behind the user's lines, because the user's own are tidy
  (`CollapseExtends`, `TrimExtends`), and with no block left there is nothing behind
  them (`ExtendsDone`).
- In extensions.yml blocks come in between the user's lines. `HooksOK`: without the
  lines that only units write, the file is what it was (`Tame`). That a remove's
  sweep of empty keys leaves this so needs two more facts, which no block must upset:
  each key of the user's has an entry of the user's right below it (`Fed`), so that
  it is not swept; and below a key that claude-code-deploy brought no entry of the
  user's follows (`Shut`), so that it is swept once its blocks are gone. A key is
  put right behind `hooks:` and a block at the end of its key's list, which is why
  both stay true (`TameSplice`, `ListEndSnug`). `SweepTame`: after the sweep all keys
  are the user's.
- `KeysOK`: while a key that is not the user's is there, claude-code-deploy is
  installed, late, or at work, and its remove has the sweep still to do. `HookFirst`
  keeps the spans behind the hook of claude-code-deploy, so that they find the
  file in shape.

The proof corrected the model: `Neat`, the files that the round trip promises to
restore, once took in an extensions.yml with the key of ears-linter and no `hooks:`
line. There claude-code-deploy makes that line for its spans, and no remove takes it
out (TLC confirms it on such a file). So `Neat` asks for `hooks:`, too.

About `Evaluators`:

| Theorem | Statement |
|---|---|
| `QueueStaysKept` | `Spec => QueueKept` |
| `TrustIsEarned` | `Spec => []TrustEarned` |
| `RateStaysRepeatable` | `Spec => []RateRepeats` |

None of these is inductive, because each speaks of files, and what goes into them
comes from the memory of processes. `Typed` says what a verb has there at each point
of its way (`OnItsWay`). Three invariants add what each property needs.

- `QueueRead`: a doctor about to write has read the queue that is there, unless it
  could not or the queue was changed since (`stale`); then its write is an append
  (`QueueStep`).
- `SmellsRecorded`: what a lint found is in the log or still to be recorded, what
  ended lints found is in the log, and nothing is in the log or to come but what
  some lint found. With the order of the penalties (`PenaltyFalls`) this bounds the
  blame on both sides. That clusters never add trust is arithmetic (`TrustIsLess`):
  what is left of a quality is a fraction of it, before and after clamping.
- `Balanced`: as long as no evaluation was cut short and all evaluated one report,
  for each spec and each side of the rate the verdicts in the log and those still
  to be recorded are together the report's, times a positive number. Only the sum is
  invariant, since overlapping evaluations record in any order. What is to come is
  counted from the end of what a process has (`Waiting`), so that recording the
  first element takes one out and moves none (`WaitingShrinks`); it is as
  much as the report holds when an evaluation begins (`JudgementsCount`). Once nobody
  records, the log alone has the multiple, and its rate is the report's
  (`RatesFollow`). For the motion fit, the matrices hold every consecutive pair once
  (`PairsCounted`), and without test outcomes its counts are the same
  (`FitCountsHits`).

`SequenceLemmas` proves by induction what filters and flattened sequences are:
`LeastNumber` is the library's well-foundedness of the naturals, `Induction` and
`Recursion` follow from it for sets of numbers, and `OnlyEnumerates` says that
`Only` lists the positions it keeps in ascending order, from which types and counts
follow (`OnlyType`, `EnumerationCounts`). From it follow, too, the lemmas about what
is thinned and spliced.

Model-checked only: `QueuedRunFinishes` and `EveryLoadEnds`, because liveness is out
of TLAPS's reach here. Every other property of a passing run is a theorem.

## Not modelled

- Belief arithmetic (floats), report and output formats, command-line parsing.
- Directory walks, and everything that only looks: the harness's classifier by
  path and syntax tree, its terminal view, `lint ears`, plain `doctor`, `verify`
  and dry runs. They change nothing that another part reads.
- `specere-core`: context, error and record types without behaviour.
- Loss of power between a write and its reaching the disk (nothing is synced).
- WAL checkpointing, the endpoints' configuration and the graceful shutdown of
  the receiver; the HTTP log handler, which acknowledges and stores nothing.
- Of the unit lifecycle: the service files of `otel-collector`, directories and
  their removal, overlapping commands on one shared file (the later write wins, as
  with the harness graph, but nothing more is promised), the bytes of overlapping
  writes mixed in the manifest or in a unit's file, and a user who deletes the
  feature branch that specere created and makes one of the same name: `remove
  --delete-branch` goes by the name.
- Of the shared files: a user who edits one while a command is between its read
  and its write of it (the edit is lost); a file that can be read at one step of a
  command and not at the next.
- Of the marker blocks: carriage returns, and the text of a block's body.
- Of the harness: which partition Louvain finds, what a fact says, rounding, the
  read of the input apart from the read of the graph, a live coverage run.
- Of the evaluators: how cargo-mutants names its files, and what the linter takes
  for a mock or a tautology; a test is what the linter sees of it.

## Plan

In order of importance; the first nine are done.

1. `EventFold`, `PosteriorLog`, `FilterRun`, and the proofs about them. Done.
2. `EventStore`, its runs, and the proofs about it. Done.
3. `UnitLifecycle`, its runs, and the proofs about it. Done.
4. `HarnessGraph`, its runs, and the proofs about it. Done, with Louvain's
   partition left open.
5. `DagCheck`, `CouplingDag`, `SensorMap`, and the proofs about the search. Done.
6. `MarkerBlocks` and `Scaffold`. Done, for one command at a time.
7. `Evaluators`. Done, with the tests and reports as given data.
8. Proofs about the lifecycle part of `Scaffold` (branches, orphans, claims),
   which needs no fact about lines. Done.
9. Proofs about its files: the functions of `MarkerBlocks`, blocks, hooks and the
   user's lines, and the round trip. Done.
10. Louvain's passes over a small weighted graph, with integer weights: that the
   numbering has no gaps and that modularity never falls.
11. Two commands of `Scaffold` at a time, and `lint ears` in `Evaluators`.
