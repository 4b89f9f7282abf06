--------------------------- MODULE PosteriorLog ---------------------------
(***************************************************************************)
(* What `specere filter` promises, without locks, snapshots or files: an   *)
(* append-only event log and a posterior that a run replaces in one step   *)
(* by the fold of some prefix of the log.  A run that dies changes         *)
(* nothing.  FilterRun implements this specification as long as nobody     *)
(* unlinks the lock file.                                                  *)
(***************************************************************************)
EXTENDS EventFold

VARIABLES
  log,        \* the readable lines of .specere/events.jsonl, in file order
  posterior   \* .specere/posterior.toml

pvars == <<log, posterior>>

PInit ==
  /\ log = << >>
  /\ posterior = EmptyPosterior

\* Somebody appends an event.
PAppend ==
  /\ \E e \in Event : log' = Append(log, e)
  /\ UNCHANGED posterior

\* A run with the specs S takes effect.
PRun(S) ==
  /\ IsRunOf(posterior', posterior, log, S)
  /\ UNCHANGED log

PNext == PAppend \/ \E S \in SUBSET SpecId : PRun(S)

PSpec == PInit /\ [][PNext]_pvars
==========================================================================
