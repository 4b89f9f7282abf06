---------------------------- MODULE EventFold ----------------------------
(***************************************************************************)
(* What one `specere filter run` computes from the event log: which events *)
(* it consumes, where it leaves the cursor and which beliefs it carries    *)
(* over.  No state machine here, only the operators that the detailed      *)
(* FilterRun and the abstract PosteriorLog share.                          *)
(*                                                                         *)
(* Beliefs are floats in the code.  Here a belief is its own history: the  *)
(* sequence of batches folded into it since it was last uniform.  A batch  *)
(* is what one run folds: the events among the first `upto` lines of the   *)
(* log whose timestamp is past the cursor `after`, in file order, weighted *)
(* by the calibration computed from the first `calib` lines.  Two runs     *)
(* leave equal floats whenever they leave equal histories, and what the    *)
(* properties ask (was an event folded, once, in order, was a history      *)
(* thrown away) is a question about the history.                           *)
(***************************************************************************)
EXTENDS Naturals, Sequences

CONSTANTS
  SpecId,     \* requirement ids that can appear under [specs]
  Ts,         \* timestamps, ranked in the order `>` gives their strings
  AllSpecs,   \* target of a files_touched event: predict moves every belief
  NoSpec      \* target of an event of any other kind: counted as skipped

ASSUME EventFoldAssumption ==
  /\ Ts \subseteq Nat \ {0}
  /\ AllSpecs \notin SpecId
  /\ NoSpec \notin SpecId
  /\ AllSpecs # NoSpec

Event == [ts : Ts, spec : SpecId \cup {AllSpecs, NoSpec}]

\* `cursor: None`: every timestamp is past it.
NoCursor == 0

Cursor == Ts \cup {NoCursor}

Batch == [after : Cursor, upto : Nat, calib : Nat]

Posterior == [cursor : Cursor, belief : [SpecId -> Seq(Batch)]]

\* Posterior::default(), what an absent file loads as: uniform beliefs.
EmptyPosterior ==
  [cursor |-> NoCursor, belief |-> [s \in SpecId |-> << >>]]

\* Does folding e move the belief of s?
Affects(e, s) == e.spec \in {s, AllSpecs}

----------------------------------------------------------------------------
(* Mutants: how a plausible slip in the code would change a definition.    *)

PastOrAtCursor(l, n, c) == {i \in 1..n : l[i].ts >= c}

LastIterated(t, l, I) == \E i \in I : l[i].ts = t /\ \A j \in I : j <= i

RestartedBelief(p, S, t, n, m) ==
  [cursor |-> t,
   belief |-> [s \in SpecId |->
                 IF s \in S
                   THEN <<[after |-> p.cursor, upto |-> n, calib |-> m]>>
                   ELSE << >>]]

CursorOneTooFar(p, S, t, n, m) ==
  [cursor |-> t + 1,
   belief |-> [s \in SpecId |->
                 IF s \in S
                   THEN Append(p.belief[s],
                               [after |-> p.cursor, upto |-> n, calib |-> m])
                   ELSE << >>]]

----------------------------------------------------------------------------
\* The positions a run consumes: it read the first n lines of the log l and
\* found the cursor c in the posterior.
PastCursor(l, n, c) == {i \in 1..n : l[i].ts > c}

\* `latest_ts` after the loop over the consumed events I.
IsLatest(t, l, I) ==
  /\ \E i \in I : l[i].ts = t
  /\ \A i \in I : l[i].ts <= t

\* The posterior a run over a non-empty batch writes.  Beliefs of the specs S
\* of the run's own copy of the sensor map resume from the persisted entry; an
\* entry of any other spec is dropped.
Advance(p, S, t, n, m) ==
  [cursor |-> t,
   belief |-> [s \in SpecId |->
                 IF s \in S
                   THEN Append(p.belief[s],
                               [after |-> p.cursor, upto |-> n, calib |-> m])
                   ELSE << >>]]

\* q is what one run makes of p: p itself when there was nothing new.
IsRunOf(q, p, l, S) ==
  \/ q = p
  \/ \E n \in 1..Len(l), t \in Ts :
       /\ IsLatest(t, l, PastCursor(l, n, p.cursor))
       /\ \E m \in n..Len(l) : q = Advance(p, S, t, n, m)

----------------------------------------------------------------------------
(* What makes a posterior p a right summary of the log l.                  *)

\* The positions folded by batch b.
Folded(l, b) == PastCursor(l, b.upto, b.after)

Behind(p, l, s, i) == Affects(l[i], s) /\ l[i].ts <= p.cursor

IsFolded(p, l, s, i) ==
  \E k \in DOMAIN p.belief[s] : i \in Folded(l, p.belief[s][k])

\* Position i came after an event that is at least as young.
Late(l, i) == \E j \in 1..(i - 1) : l[j].ts >= l[i].ts

\* What a later batch folded is younger than all that an earlier one did.
FoldsInOrder(p, l) ==
  \A s \in SpecId : \A k \in DOMAIN p.belief[s] : \A j \in 1..(k - 1) :
    \A later \in Folded(l, p.belief[s][k]),
       earlier \in Folded(l, p.belief[s][j]) :
      l[earlier].ts < l[later].ts

\* The cursor is the time of an event, and nothing folded is past it.
Covers(p, l) ==
  /\ p.cursor = NoCursor \/ \E i \in DOMAIN l : l[i].ts = p.cursor
  /\ \A s \in SpecId : \A k \in DOMAIN p.belief[s] :
       \A i \in Folded(l, p.belief[s][k]) : l[i].ts <= p.cursor

\* Of the events behind the cursor, only late ones are missing from the beliefs
\* of the specs M.
SkipsOnlyLate(p, l, M) ==
  \A s \in M : \A i \in DOMAIN l :
    Behind(p, l, s, i) => IsFolded(p, l, s, i) \/ Late(l, i)
==========================================================================
