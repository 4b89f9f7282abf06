---------------------------- MODULE FilterRun ----------------------------
(***************************************************************************)
(* `specere filter run`, as concurrent processes over shared files:        *)
(* .specere/events.jsonl (log), sensor-map.toml (specMap), posterior.toml  *)
(* and its .tmp sibling, and the advisory lock .specere/filter.lock.       *)
(*                                                                         *)
(* One action per step between which another process can interfere:        *)
(*   Start          load [specs], open (or create) the lock file           *)
(*   Acquire        flock(LOCK_EX) on the opened inode                     *)
(*   LoadPosterior  read posterior.toml                                    *)
(*   ReadEvents     read the log, keep what is past the cursor             *)
(*   Fold           second read of the log for the calibration; fold       *)
(*   TruncateTmp, FillTmp   fs::write of posterior.toml.tmp                *)
(*   Rename         rename over posterior.toml; the lock goes with the     *)
(*                  file handle                                            *)
(* A process may be killed between any two of them.                        *)
(*                                                                         *)
(* Simplifications: steps that touch only the process's own memory are     *)
(* folded into their neighbour; the backend (HMM, BP, RBPF) is not         *)
(* distinguished, all three keep one belief per spec and are driven by the *)
(* same loop; once the lock file has been unlinked and two processes write *)
(* the same .tmp file, their writes are whole-file, not interleaved bytes. *)
(***************************************************************************)
EXTENDS EventFold

CONSTANTS
  Runner,     \* processes that run `specere filter run`
  NoRunner,
  NoFile,     \* content of a file that does not exist
  Blank,      \* a file opened with O_TRUNC and not written yet: zero bytes
  MaxLog,     \* bound: events appended
  MaxSweeps   \* bound: times `specere remove filter-state` unlinks the lock

ASSUME FilterRunAssumption ==
  /\ NoRunner \notin Runner
  /\ Blank \notin Posterior
  /\ NoFile \notin Posterior
  /\ Blank # NoFile
  /\ MaxLog \in Nat
  /\ MaxSweeps \in Nat

VARIABLES
  log,        \* readable lines of .specere/events.jsonl, in file order
  specMap,    \* ids under [specs] in .specere/sensor-map.toml
  posterior,  \* content of .specere/posterior.toml
  tmp,        \* content of .specere/posterior.toml.tmp
  lockInode,  \* inode that the path .specere/filter.lock names
  holder,     \* holder[i]: process holding the flock of inode i
  pc,         \* pc[r]: what r does next
  specs,      \* specs[r]: the ids r loaded from the sensor map
  inode,      \* inode[r]: the lock inode r opened
  work,       \* work[r]: the posterior r holds in memory
  seen,       \* seen[r]: how many lines r read as events
  unmapped    \* history: specs that were at some time missing from the map

fileVars == <<log, specMap, posterior, tmp, lockInode, holder>>
runVars  == <<pc, specs, inode, work, seen>>
vars     == <<fileVars, runVars, unmapped>>

Inode == 0..MaxSweeps

\* What a process does next; "idle" is no process at all.
Step == {"idle", "acquire", "load", "read", "fold",
         "truncate", "fill", "rename"}

Critical(r) == pc[r] \notin {"idle", "acquire"}

TypeOK ==
  /\ log \in Seq(Event)
  /\ specMap \subseteq SpecId
  /\ posterior \in Posterior \cup {Blank}
  /\ tmp \in Posterior \cup {Blank, NoFile}
  /\ lockInode \in Inode
  /\ holder \in [Inode -> Runner \cup {NoRunner}]
  /\ pc \in [Runner -> Step]
  /\ specs \in [Runner -> SUBSET SpecId]
  /\ inode \in [Runner -> Inode]
  /\ work \in [Runner -> Posterior]
  /\ seen \in [Runner -> Nat]
  /\ unmapped \subseteq SpecId

Init ==
  /\ log = << >>
  /\ specMap \in SUBSET SpecId
  /\ posterior = EmptyPosterior
  /\ tmp = NoFile
  /\ lockInode = 0
  /\ holder = [i \in Inode |-> NoRunner]
  /\ pc = [r \in Runner |-> "idle"]
  /\ specs = [r \in Runner |-> {}]
  /\ inode = [r \in Runner |-> 0]
  /\ work = [r \in Runner |-> EmptyPosterior]
  /\ seen = [r \in Runner |-> 0]
  /\ unmapped = SpecId \ specMap

----------------------------------------------------------------------------
(* The rest of the system.                                                 *)

\* Any event producer appends one line: event_store::append.  Timestamps come
\* from the producer (an OTLP span's start time, a clock), so they need not grow.
AppendEvent(e) ==
  /\ Len(log) < MaxLog
  /\ log' = Append(log, e)
  /\ UNCHANGED <<specMap, posterior, tmp, lockInode, holder, runVars, unmapped>>

\* The user edits [specs].
EditMap(S) ==
  /\ S # specMap
  /\ specMap' = S
  /\ unmapped' = unmapped \cup (SpecId \ S)
  /\ UNCHANGED <<log, posterior, tmp, lockInode, holder, runVars>>

\* `specere remove filter-state` unlinks .specere/filter.lock, held or not; the
\* next process to open the path creates a new inode.  It also deletes
\* posterior.toml and sensor-map.toml where they still are the installed
\* skeletons: the posterior then loads as the empty one that it was, and the
\* map has no specs left, like the skeleton.
SweepLock ==
  /\ lockInode < MaxSweeps
  /\ lockInode' = lockInode + 1
  /\ UNCHANGED <<log, specMap, posterior, tmp, holder, runVars, unmapped>>

----------------------------------------------------------------------------
(* Mutants.                                                                *)

AcquireUnlocked(r) ==
  /\ pc[r] = "acquire"
  /\ holder' = [holder EXCEPT ![inode[r]] = r]
  /\ pc' = [pc EXCEPT ![r] = "load"]
  /\ UNCHANGED <<log, specMap, posterior, tmp, lockInode,
                 specs, inode, work, seen, unmapped>>

ExitKeepingLock(r) ==
  /\ pc' = [pc EXCEPT ![r] = "idle"]
  /\ holder' = holder
  /\ specs' = [specs EXCEPT ![r] = {}]
  /\ inode' = [inode EXCEPT ![r] = 0]
  /\ work' = [work EXCEPT ![r] = EmptyPosterior]
  /\ seen' = [seen EXCEPT ![r] = 0]

TruncateInPlace(r) ==
  /\ pc[r] = "truncate"
  /\ tmp' = Blank
  /\ posterior' = Blank
  /\ pc' = [pc EXCEPT ![r] = "fill"]
  /\ UNCHANGED <<log, specMap, lockInode, holder,
                 specs, inode, work, seen, unmapped>>

----------------------------------------------------------------------------
(* The process.                                                            *)

\* Posterior::load_or_default.  Every field of the file has a default, so zero
\* bytes are a valid file: they load as the posterior of an absent file.
Loaded(file) == IF file = Blank THEN EmptyPosterior ELSE file

\* Process r is over: its file handle and with it its lock are gone.
Exit(r) ==
  /\ pc' = [pc EXCEPT ![r] = "idle"]
  /\ holder' = [i \in Inode |-> IF holder[i] = r THEN NoRunner ELSE holder[i]]
  /\ specs' = [specs EXCEPT ![r] = {}]
  /\ inode' = [inode EXCEPT ![r] = 0]
  /\ work' = [work EXCEPT ![r] = EmptyPosterior]
  /\ seen' = [seen EXCEPT ![r] = 0]

\* load_specs refuses an empty [specs]; it reads the map before any lock.
Start(r) ==
  /\ pc[r] = "idle"
  /\ specMap # {}
  /\ pc' = [pc EXCEPT ![r] = "acquire"]
  /\ specs' = [specs EXCEPT ![r] = specMap]
  /\ inode' = [inode EXCEPT ![r] = lockInode]
  /\ UNCHANGED <<fileVars, work, seen, unmapped>>

Acquire(r) ==
  /\ pc[r] = "acquire"
  /\ holder[inode[r]] = NoRunner
  /\ holder' = [holder EXCEPT ![inode[r]] = r]
  /\ pc' = [pc EXCEPT ![r] = "load"]
  /\ UNCHANGED <<log, specMap, posterior, tmp, lockInode,
                 specs, inode, work, seen, unmapped>>

LoadPosterior(r) ==
  /\ pc[r] = "load"
  /\ work' = [work EXCEPT ![r] = Loaded(posterior)]
  /\ pc' = [pc EXCEPT ![r] = "read"]
  /\ UNCHANGED <<fileVars, specs, inode, seen, unmapped>>

\* Nothing past the cursor: the loaded posterior itself is written back.
ReadEvents(r) ==
  /\ pc[r] = "read"
  /\ LET new == PastCursor(log, Len(log), work[r].cursor)
     IN  pc' = [pc EXCEPT ![r] = IF new = {} THEN "truncate" ELSE "fold"]
  /\ seen' = [seen EXCEPT ![r] = Len(log)]
  /\ UNCHANGED <<fileVars, specs, inode, work, unmapped>>

\* The calibration reads the log a second time: it may be longer by now.
Fold(r) ==
  /\ pc[r] = "fold"
  /\ \E t \in Ts :
       /\ IsLatest(t, log, PastCursor(log, seen[r], work[r].cursor))
       /\ work' = [work EXCEPT
                     ![r] = Advance(work[r], specs[r], t, seen[r], Len(log))]
  /\ pc' = [pc EXCEPT ![r] = "truncate"]
  /\ UNCHANGED <<fileVars, specs, inode, seen, unmapped>>

TruncateTmp(r) ==
  /\ pc[r] = "truncate"
  /\ tmp' = Blank
  /\ pc' = [pc EXCEPT ![r] = "fill"]
  /\ UNCHANGED <<log, specMap, posterior, lockInode, holder,
                 specs, inode, work, seen, unmapped>>

FillTmp(r) ==
  /\ pc[r] = "fill"
  /\ tmp' = work[r]
  /\ pc' = [pc EXCEPT ![r] = "rename"]
  /\ UNCHANGED <<log, specMap, posterior, lockInode, holder,
                 specs, inode, work, seen, unmapped>>

Rename(r) ==
  /\ pc[r] = "rename"
  /\ tmp # NoFile
  /\ posterior' = tmp
  /\ tmp' = NoFile
  /\ Exit(r)
  /\ UNCHANGED <<log, specMap, lockInode, unmapped>>

\* The run ends with an error: the .tmp file is not there to be renamed.
Fail(r) ==
  /\ pc[r] = "rename"
  /\ tmp = NoFile
  /\ Exit(r)
  /\ UNCHANGED <<log, specMap, posterior, tmp, lockInode, unmapped>>

\* The process is killed, or an I/O or parse error ends it where it stands.
Crash(r) ==
  /\ pc[r] # "idle"
  /\ Exit(r)
  /\ UNCHANGED <<log, specMap, posterior, tmp, lockInode, unmapped>>

Proceed(r) ==
  \/ LoadPosterior(r) \/ ReadEvents(r) \/ Fold(r)
  \/ TruncateTmp(r) \/ FillTmp(r) \/ Rename(r) \/ Fail(r)

Next ==
  \/ \E e \in Event : AppendEvent(e)
  \/ \E S \in SUBSET SpecId : EditMap(S)
  \/ SweepLock
  \/ \E r \in Runner : Start(r) \/ Acquire(r) \/ Proceed(r) \/ Crash(r)

Spec == Init /\ [][Next]_vars

\* A process that can run is scheduled, and the kernel hands a lock that keeps
\* being released to each waiter in turn.  Nobody has to start a run, append an
\* event, edit the map or die.
Fairness ==
  \A r \in Runner : SF_vars(Acquire(r)) /\ WF_vars(Proceed(r))

FairSpec == Spec /\ Fairness

----------------------------------------------------------------------------
(* Properties.                                                             *)

\* The lock file that processes open is still the first one.
LockIntact == lockInode = 0

\* No run works on a stale posterior: as long as nobody unlinked the lock file,
\* what a run is about to write is what one run makes of the posterior that is
\* on disk now, however long ago the run loaded it.  The lock has to cover the
\* load, both reads of the log and the rename.
NoStaleWork ==
  LockIntact =>
    \A r \in Runner :
      /\ pc[r] \in {"read", "fold"} => work[r] = posterior
      /\ pc[r] \in {"truncate", "fill", "rename"} =>
           IsRunOf(work[r], posterior, log, specs[r])

\* A run killed between truncating and renaming never leaves an empty
\* posterior.toml, which would load as "no history" without any error; nor can
\* a run rename a .tmp file that is not its own.
NeverBlank ==
  LockIntact =>
    /\ posterior # Blank
    /\ \A r \in Runner : pc[r] = "rename" => tmp = work[r]

\* A posterior file that has been read back, or Blank's default.
Persisted == Loaded(posterior)

\* Across runs a spec's events are folded in timestamp order, so none is folded
\* twice: whatever a later run folded is younger than all an earlier one did.
\* Holds even when runs overlap, because each starts from one whole file.
FoldedInOrder == FoldsInOrder(Persisted, log)

\* The persisted cursor is the time of an event of the log, and no event in
\* the persisted beliefs is past it: the next run folds none of them again.
CursorCovers == Covers(Persisted, log)

\* An event behind the cursor is in the belief of every spec that it concerns
\* and that never left the sensor map, unless it was late: appended after an
\* event at least as young.
LostOnlyIfLate == SkipsOnlyLate(Persisted, log, SpecId \ unmapped)

\* "An advisory exclusive file lock serialises concurrent filter run
\* invocations": at most one of them is past the lock.  `remove filter-state`
\* unlinks a lock file that is held, and then it is not so; the proofs show it
\* for as long as the lock file is intact.
RunsSerialised ==
  \A q, r \in Runner : Critical(q) /\ Critical(r) => q = r

\* As long as nobody unlinks the lock file, runs behave as if each happened in
\* one instant: every step that leaves the lock file intact is a step of
\* PosteriorLog, or none.
Abstract == INSTANCE PosteriorLog WITH log <- log, posterior <- posterior
Refinement ==
  /\ Abstract!PInit
  /\ [][LockIntact' => [Abstract!PNext]_(Abstract!pvars)]_vars

\* The cursor in posterior.toml never moves back: late events, concurrent runs
\* and kills included.
CursorNeverBack ==
  [][LockIntact' => Loaded(posterior').cursor >= Persisted.cursor]_vars

\* A run that waits for the lock comes to an end: it is never starved by others
\* that come and go, and a dead process never keeps the lock.
QueuedRunFinishes ==
  \A r \in Runner : pc[r] = "acquire" ~> pc[r] = "idle"

----------------------------------------------------------------------------
(* Said of the code, and not so.                                           *)

\* "Consumes every event past the last-processed cursor", and out-of-order
\* appends "are handled correctly": an event behind the cursor has been folded.
EveryEventConsumed ==
  \A s \in SpecId \ unmapped : \A i \in DOMAIN log :
    Behind(Persisted, log, s, i) => IsFolded(Persisted, log, s, i)
==========================================================================
