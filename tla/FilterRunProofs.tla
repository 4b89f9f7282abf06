------------------------- MODULE FilterRunProofs -------------------------
(***************************************************************************)
(* Theorems about FilterRun for every number of runners, specs, timestamps *)
(* and events.  Two independent lines of argument:                         *)
(*   - every posterior in sight (on disk, in the .tmp file, in a process)  *)
(*     is a right summary of the log; this needs no lock;                  *)
(*   - while the lock file is intact the lock serialises the processes, so *)
(*     what a run works on is never stale, and the runs implement          *)
(*     PosteriorLog.                                                       *)
(***************************************************************************)
EXTENDS FilterRun, SequenceTheorems, TLAPS

----------------------------------------------------------------------------
(* What a run's fold preserves.  The persisted floats carry no trace of it, *)
(* so the argument is over the histories: `Sound` is the invariant of a     *)
(* posterior under the growth of the log and under one more run.            *)

\* A batch remembers how far the log reached and where the cursor stood; the
\* cursors of successive batches separate what they folded.
Separated(p, l) ==
  \A s \in SpecId : \A k \in DOMAIN p.belief[s] :
    /\ p.belief[s][k].upto <= Len(l)
    /\ \A j \in 1..(k - 1) : \A i \in Folded(l, p.belief[s][j]) :
         l[i].ts <= p.belief[s][k].after

Sound(p, l, M) ==
  /\ Covers(p, l)
  /\ Separated(p, l)
  /\ SkipsOnlyLate(p, l, M)

LEMMA CursorNat == Cursor \subseteq Nat /\ Ts \subseteq Nat
<1>1. Ts \subseteq Nat
  BY EventFoldAssumption
<1>2. QED
  BY <1>1 DEF Cursor, NoCursor

\* Timestamps are positive numbers.
LEMMA Times ==
  ASSUME NEW l \in Seq(Event), NEW i \in DOMAIN l
  PROVE  l[i].ts \in Ts /\ l[i].ts \in Nat /\ l[i].ts > 0
<1>1. l[i] \in Event
  OBVIOUS
<1>2. l[i].ts \in Ts
  BY <1>1 DEF Event
<1>3. l[i].ts \in Nat \ {0}
  BY <1>2, EventFoldAssumption
<1>4. QED
  BY <1>2, <1>3

\* Appending an event changes nothing a run that read n lines has consumed.
LEMMA PastCursorStable ==
  ASSUME NEW l \in Seq(Event), NEW e \in Event,
         NEW n \in Nat, n <= Len(l), NEW c
  PROVE  /\ PastCursor(Append(l, e), n, c) = PastCursor(l, n, c)
         /\ \A i \in 1..n : Append(l, e)[i] = l[i]
<1>1. \A i \in 1..n : Append(l, e)[i] = l[i]
  OBVIOUS
<1>2. QED
  BY <1>1 DEF PastCursor

LEMMA AppendedLog ==
  ASSUME NEW l \in Seq(Event), NEW e \in Event
  PROVE  /\ Append(l, e) \in Seq(Event)
         /\ Len(l) \in Nat
         /\ Len(Append(l, e)) = Len(l) + 1
         /\ DOMAIN l = 1..Len(l)
         /\ DOMAIN Append(l, e) = 1..(Len(l) + 1)
         /\ Append(l, e)[Len(l) + 1] = e
         /\ \A i \in 1..Len(l) : Append(l, e)[i] = l[i]
  OBVIOUS

\* What one run makes of a posterior it still makes of it when the log grows.
LEMMA RunOfGrownLog ==
  ASSUME NEW p \in Posterior, NEW q, NEW S, NEW l \in Seq(Event),
         NEW e \in Event, IsRunOf(q, p, l, S)
  PROVE  IsRunOf(q, p, Append(l, e), S)
<1> DEFINE g == Append(l, e)
<1>1. CASE q = p
  BY <1>1 DEF IsRunOf
<1>2. CASE q # p
  <2>1. PICK n \in 1..Len(l), t \in Ts :
             /\ IsLatest(t, l, PastCursor(l, n, p.cursor))
             /\ \E m \in n..Len(l) : q = Advance(p, S, t, n, m)
    BY <1>2 DEF IsRunOf
  <2>2. n \in Nat /\ n <= Len(l) /\ n \in 1..Len(g) /\ Len(g) = Len(l) + 1
    BY AppendedLog
  <2>3. /\ PastCursor(g, n, p.cursor) = PastCursor(l, n, p.cursor)
        /\ \A i \in 1..n : g[i] = l[i]
    BY <2>2, PastCursorStable
  <2>4. IsLatest(t, g, PastCursor(g, n, p.cursor))
    BY <2>1, <2>3 DEF IsLatest, PastCursor
  <2>5. \E m \in n..Len(g) : q = Advance(p, S, t, n, m)
    BY <2>1, <2>2
  <2>6. QED
    BY <2>2, <2>4, <2>5 DEF IsRunOf
<1>3. QED
  BY <1>1, <1>2

LEMMA EmptyPosteriorType == EmptyPosterior \in Posterior
  BY DEF EmptyPosterior, Posterior, Cursor, NoCursor

LEMMA AdvanceType ==
  ASSUME NEW p \in Posterior, NEW S, NEW t \in Ts, NEW n \in Nat, NEW m \in Nat
  PROVE  Advance(p, S, t, n, m) \in Posterior
<1>1. [after |-> p.cursor, upto |-> n, calib |-> m] \in Batch
  BY DEF Posterior, Batch
<1>2. \A s \in SpecId : p.belief[s] \in Seq(Batch)
  BY DEF Posterior
<1>3. QED
  BY <1>1, <1>2 DEF Advance, Posterior, Cursor

\* The uniform posterior is a right summary: its cursor is behind every event.
LEMMA EmptySound ==
  ASSUME NEW l \in Seq(Event), NEW M \in SUBSET SpecId
  PROVE  Sound(EmptyPosterior, l, M)
<1>2. \A i \in DOMAIN l : l[i].ts \in Nat /\ l[i].ts > 0
  BY Times
<1>3. SkipsOnlyLate(EmptyPosterior, l, M)
  BY <1>2 DEF SkipsOnlyLate, Behind, EmptyPosterior, NoCursor
<1>4. \A s \in SpecId : DOMAIN EmptyPosterior.belief[s] = {}
  BY DEF EmptyPosterior
<1>5. Covers(EmptyPosterior, l) /\ Separated(EmptyPosterior, l)
  BY <1>4 DEF Covers, Separated, EmptyPosterior
<1>6. QED
  BY <1>3, <1>5 DEF Sound

LEMMA SoundForFewer ==
  ASSUME NEW p, NEW l, NEW M, NEW L \in SUBSET M, Sound(p, l, M)
  PROVE  Sound(p, l, L)
  BY DEF Sound, SkipsOnlyLate

\* A posterior that was right stays right when an event is appended: an event
\* behind its cursor is late by definition.
LEMMA SoundOnGrownLog ==
  ASSUME NEW p \in Posterior, NEW M \in SUBSET SpecId, NEW l \in Seq(Event),
         NEW e \in Event, Sound(p, l, M)
  PROVE  Sound(p, Append(l, e), M)
<1> DEFINE g == Append(l, e)
<1>1. /\ Len(l) \in Nat
      /\ DOMAIN l = 1..Len(l) /\ DOMAIN g = 1..(Len(l) + 1)
      /\ Len(g) = Len(l) + 1
      /\ \A i \in 1..Len(l) : g[i] = l[i]
  BY AppendedLog
<1>2. /\ Covers(p, l) /\ Separated(p, l) /\ SkipsOnlyLate(p, l, M)
  BY DEF Sound
<1>3. ASSUME NEW s \in SpecId, NEW k \in DOMAIN p.belief[s]
      PROVE  /\ p.belief[s][k].upto \in Nat
             /\ p.belief[s][k].upto <= Len(l)
             /\ Folded(g, p.belief[s][k]) = Folded(l, p.belief[s][k])
             /\ \A i \in Folded(l, p.belief[s][k]) :
                  i \in 1..Len(l) /\ g[i] = l[i]
  <2>1. p.belief[s] \in Seq(Batch)
    BY DEF Posterior
  <2>2. p.belief[s][k] \in Batch
    BY <2>1
  <2>3. p.belief[s][k].upto \in Nat /\ p.belief[s][k].upto <= Len(l)
    BY <1>2, <2>2 DEF Batch, Separated
  <2>4. QED
    BY <1>1, <2>3, PastCursorStable DEF Folded, PastCursor
<1>4. Covers(p, g)
  <2>1. p.cursor = NoCursor \/ \E i \in DOMAIN g : g[i].ts = p.cursor
    BY <1>1, <1>2 DEF Covers
  <2>2. QED
    BY <1>2, <1>3, <2>1 DEF Covers
<1>5. Separated(p, g)
  <2> SUFFICES ASSUME NEW s \in SpecId, NEW k \in DOMAIN p.belief[s]
               PROVE  /\ p.belief[s][k].upto <= Len(g)
                      /\ \A j \in 1..(k - 1) :
                           \A i \in Folded(g, p.belief[s][j]) :
                             g[i].ts <= p.belief[s][k].after
    BY DEF Separated
  <2>1. p.belief[s][k].upto <= Len(g)
    BY <1>1, <1>3
  <2>2. ASSUME NEW j \in 1..(k - 1), NEW i \in Folded(g, p.belief[s][j])
        PROVE  g[i].ts <= p.belief[s][k].after
    <3>1. j \in DOMAIN p.belief[s]
      BY DEF Posterior
    <3>2. QED
      BY <1>2, <1>3, <3>1 DEF Separated
  <2>3. QED
    BY <2>1, <2>2
<1>6. SkipsOnlyLate(p, g, M)
  <2> SUFFICES ASSUME NEW s \in M, NEW i \in DOMAIN g, Behind(p, g, s, i)
               PROVE  IsFolded(p, g, s, i) \/ Late(g, i)
    BY DEF SkipsOnlyLate
  <2>1. CASE i = Len(l) + 1
    <3>1. g[i] = e /\ e.ts \in Nat \ {0}
      BY <2>1, AppendedLog, EventFoldAssumption DEF Event
    <3>2. p.cursor # NoCursor
      BY <3>1 DEF Behind, NoCursor
    <3>3. PICK j \in DOMAIN l : l[j].ts = p.cursor
      BY <1>2, <3>2 DEF Covers
    <3>4. j \in 1..(i - 1) /\ g[j] = l[j]
      BY <1>1, <2>1, <3>3
    <3>5. Late(g, i)
      <4>1. g[j].ts \in Nat
        BY <3>3, <3>4, Times
      <4>2. QED
        BY <3>1, <3>3, <3>4, <4>1 DEF Late, Behind
    <3>6. QED
      BY <3>5
  <2>2. CASE i \in DOMAIN l
    <3>1. Behind(p, l, s, i)
      BY <1>1, <2>2 DEF Behind
    <3>2. CASE IsFolded(p, l, s, i)
      BY <1>3, <3>2 DEF IsFolded
    <3>3. CASE Late(l, i)
      BY <1>1, <2>2, <3>3 DEF Late
    <3>4. QED
      BY <1>2, <2>2, <3>1, <3>2, <3>3 DEF SkipsOnlyLate
  <2>3. QED
    BY <1>1, <2>1, <2>2
<1>7. QED
  BY <1>4, <1>5, <1>6 DEF Sound

\* The fold itself.  t is the youngest of the events past the cursor among the
\* first n lines, S holds every spec of M: what was right stays right.
LEMMA SoundAdvance ==
  ASSUME NEW p \in Posterior, NEW M \in SUBSET SpecId, NEW S \in SUBSET SpecId,
         M \subseteq S, NEW l \in Seq(Event), NEW t \in Ts,
         NEW n \in 0..Len(l), NEW m \in Nat,
         IsLatest(t, l, PastCursor(l, n, p.cursor)), Sound(p, l, M)
  PROVE  Sound(Advance(p, S, t, n, m), l, M)
<1> DEFINE q == Advance(p, S, t, n, m)
           last == [after |-> p.cursor, upto |-> n, calib |-> m]
<1>1. /\ Len(l) \in Nat /\ DOMAIN l = 1..Len(l)
      /\ \A i \in DOMAIN l : l[i].ts \in Nat
      /\ t \in Nat /\ p.cursor \in Nat /\ p.cursor < t
  <2>1. t \in Nat /\ p.cursor \in Nat
    BY CursorNat DEF Posterior
  <2>2. Len(l) \in Nat /\ DOMAIN l = 1..Len(l)
    OBVIOUS
  <2>3. QED
    BY <2>1, <2>2, Times DEF IsLatest, PastCursor
<1>2. /\ Covers(p, l) /\ Separated(p, l) /\ SkipsOnlyLate(p, l, M)
  BY DEF Sound
<1>3. q.cursor = t
  BY DEF Advance
<1>4. last \in Batch
  BY DEF Batch, Posterior
<1>5. ASSUME NEW s \in S
      PROVE  /\ p.belief[s] \in Seq(Batch)
             /\ q.belief[s] = Append(p.belief[s], last)
             /\ Len(p.belief[s]) \in Nat
             /\ DOMAIN p.belief[s] = 1..Len(p.belief[s])
             /\ DOMAIN q.belief[s] = 1..(Len(p.belief[s]) + 1)
             /\ q.belief[s][Len(p.belief[s]) + 1] = last
             /\ \A k \in DOMAIN p.belief[s] : q.belief[s][k] = p.belief[s][k]
  <2>1. p.belief[s] \in Seq(Batch)
    BY DEF Posterior
  <2>2. q.belief[s] = Append(p.belief[s], last)
    BY DEF Advance
  <2>3. QED
    BY <1>4, <2>1, <2>2, SMTT(20)
<1>6. \A s \in SpecId \ S : DOMAIN q.belief[s] = {}
  BY DEF Advance
<1>7. \A i \in Folded(l, last) : l[i].ts <= t
  BY DEF Folded, IsLatest
<1>8. Covers(q, l)
  <2>1. \E i \in DOMAIN l : l[i].ts = q.cursor
    BY <1>1, <1>3 DEF IsLatest, PastCursor
  <2>2. ASSUME NEW s \in SpecId, NEW k \in DOMAIN q.belief[s],
               NEW i \in Folded(l, q.belief[s][k])
        PROVE  l[i].ts <= t
    <3>1. s \in S
      BY <1>6
    <3>2. CASE k = Len(p.belief[s]) + 1
      BY <1>5, <1>7, <3>1, <3>2
    <3>3. CASE k \in DOMAIN p.belief[s]
      <4>1. q.belief[s][k] = p.belief[s][k]
        BY <1>5, <3>1, <3>3
      <4>2. i \in Folded(l, p.belief[s][k])
        BY <4>1
      <4>3. l[i].ts <= p.cursor
        BY <1>2, <3>3, <4>2 DEF Covers
      <4>4. p.belief[s][k].upto \in Nat /\ p.belief[s][k].upto <= Len(l)
        <5>1. p.belief[s][k] \in Batch
          BY <1>5, <3>1, <3>3
        <5>2. QED
          BY <1>2, <3>3, <5>1 DEF Batch, Separated
      <4>5. l[i].ts \in Nat
        BY <1>1, <4>2, <4>4 DEF Folded, PastCursor
      <4>6. QED
        BY <1>1, <4>3, <4>5
    <3>4. QED
      BY <1>5, <3>1, <3>2, <3>3
  <2>3. QED
    BY <1>3, <2>1, <2>2 DEF Covers
<1>9. Separated(q, l)
  <2> SUFFICES ASSUME NEW s \in SpecId, NEW k \in DOMAIN q.belief[s]
               PROVE  /\ q.belief[s][k].upto <= Len(l)
                      /\ \A j \in 1..(k - 1) :
                           \A i \in Folded(l, q.belief[s][j]) :
                             l[i].ts <= q.belief[s][k].after
    BY DEF Separated
  <2>1. s \in S
    BY <1>6
  <2>2. CASE k = Len(p.belief[s]) + 1
    <3>1. q.belief[s][k] = last /\ last.after = p.cursor /\ last.upto = n
      BY <1>5, <2>1, <2>2
    <3>2. \A j \in 1..(k - 1) : /\ j \in DOMAIN p.belief[s]
                                /\ q.belief[s][j] = p.belief[s][j]
      BY <1>5, <2>1, <2>2
    <3>3. QED
      BY <1>2, <3>1, <3>2 DEF Covers
  <2>3. CASE k \in DOMAIN p.belief[s]
    <3>1. \A j \in 1..k : /\ j \in DOMAIN p.belief[s]
                          /\ q.belief[s][j] = p.belief[s][j]
      BY <1>5, <2>1, <2>3, SMTT(20)
    <3>2. k \in 1..k /\ \A j \in 1..(k - 1) : j \in 1..k
      BY <1>5, <2>1, <2>3
    <3>3. QED
      BY <1>2, <2>3, <3>1, <3>2 DEF Separated
  <2>4. QED
    BY <1>5, <2>1, <2>2, <2>3, SMTT(20)
<1>10. SkipsOnlyLate(q, l, M)
  <2> SUFFICES ASSUME NEW s \in M, NEW i \in DOMAIN l, Behind(q, l, s, i)
               PROVE  IsFolded(q, l, s, i) \/ Late(l, i)
    BY DEF SkipsOnlyLate
  <2>1. s \in S /\ l[i].ts <= t
    BY <1>3 DEF Behind
  <2>2. CASE l[i].ts <= p.cursor
    <3>1. Behind(p, l, s, i)
      BY <2>2 DEF Behind
    <3>2. ASSUME IsFolded(p, l, s, i)
          PROVE  IsFolded(q, l, s, i)
      <4>1. PICK k \in DOMAIN p.belief[s] : i \in Folded(l, p.belief[s][k])
        BY <3>2 DEF IsFolded
      <4>2. k \in DOMAIN q.belief[s] /\ q.belief[s][k] = p.belief[s][k]
        BY <1>5, <2>1
      <4> QED BY <4>1, <4>2 DEF IsFolded
    <3>3. QED
      BY <1>2, <3>1, <3>2 DEF SkipsOnlyLate
  <2>3. CASE l[i].ts > p.cursor /\ i <= n
    <3>1. i \in Folded(l, last)
      BY <1>1, <2>3 DEF Folded, PastCursor
    <3>2. QED
      BY <1>5, <2>1, <3>1 DEF IsFolded
  <2>4. CASE l[i].ts > p.cursor /\ i > n
    <3>1. PICK j \in PastCursor(l, n, p.cursor) : l[j].ts = t
      BY DEF IsLatest
    <3>2. j \in 1..(i - 1)
      BY <1>1, <2>4, <3>1 DEF PastCursor
    <3>3. QED
      BY <1>1, <2>1, <3>1, <3>2 DEF Late
  <2>5. QED
    BY <1>1, <2>2, <2>3, <2>4
<1>11. QED
  BY <1>8, <1>9, <1>10 DEF Sound

\* Separated batches are folded in order.
LEMMA SoundFoldsInOrder ==
  ASSUME NEW p \in Posterior, NEW l \in Seq(Event), NEW M, Sound(p, l, M)
  PROVE  FoldsInOrder(p, l)
<1> SUFFICES ASSUME NEW s \in SpecId, NEW k \in DOMAIN p.belief[s],
                    NEW j \in 1..(k - 1),
                    NEW later \in Folded(l, p.belief[s][k]),
                    NEW earlier \in Folded(l, p.belief[s][j])
             PROVE  l[earlier].ts < l[later].ts
  BY DEF FoldsInOrder
<1>1. Separated(p, l)
  BY DEF Sound
<1>2. p.belief[s] \in Seq(Batch)
  BY DEF Posterior
<1>3. /\ j \in DOMAIN p.belief[s]
      /\ p.belief[s][j] \in Batch /\ p.belief[s][k] \in Batch
  BY <1>2
<1>4. /\ p.belief[s][k].upto \in Nat /\ p.belief[s][k].upto <= Len(l)
      /\ p.belief[s][j].upto \in Nat /\ p.belief[s][j].upto <= Len(l)
  BY <1>1, <1>3 DEF Batch, Separated
<1>5. later \in DOMAIN l /\ earlier \in DOMAIN l
  BY <1>4 DEF Folded, PastCursor
<1>6. /\ l[earlier].ts <= p.belief[s][k].after
      /\ l[later].ts > p.belief[s][k].after
  BY <1>1 DEF Separated, Folded, PastCursor
<1>7. p.belief[s][k].after \in Nat
  BY <1>3, CursorNat DEF Batch
<1>8. QED
  BY <1>5, <1>6, <1>7, Times

----------------------------------------------------------------------------

Mapped == SpecId \ unmapped

----------------------------------------------------------------------------
(* Types.                                                                  *)

LEMMA LoadedType ==
  ASSUME NEW file \in Posterior \cup {Blank}
  PROVE  Loaded(file) \in Posterior
  BY EmptyPosteriorType DEF Loaded

LEMMA ExitType ==
  ASSUME TypeOK, NEW r \in Runner, Exit(r)
  PROVE  /\ pc' \in [Runner -> Step]
         /\ holder' \in [Inode -> Runner \cup {NoRunner}]
         /\ specs' \in [Runner -> SUBSET SpecId]
         /\ inode' \in [Runner -> Inode]
         /\ work' \in [Runner -> Posterior]
         /\ seen' \in [Runner -> Nat]
<1>1. 0 \in Inode
  BY FilterRunAssumption DEF Inode
<1>2. QED
  BY <1>1, EmptyPosteriorType DEF TypeOK, Exit, Step

LEMMA TypeInit == Init => TypeOK
<1>1. 0 \in Inode
  BY FilterRunAssumption DEF Inode
<1>2. << >> \in Seq(Event)
  OBVIOUS
<1>3. QED
  BY <1>1, <1>2, EmptyPosteriorType DEF Init, TypeOK, Step

LEMMA TypeNext == TypeOK /\ [Next]_vars => TypeOK'
<1> SUFFICES ASSUME TypeOK, [Next]_vars PROVE TypeOK'
  OBVIOUS
<1> USE DEF fileVars, runVars
<1>1. CASE \E e \in Event : AppendEvent(e)
  <2>1. PICK e \in Event : AppendEvent(e)
    BY <1>1
  <2>2. log' \in Seq(Event)
    BY <2>1 DEF TypeOK, AppendEvent
  <2>3. QED
    BY <2>1, <2>2 DEF TypeOK, AppendEvent
<1>2. CASE \E S \in SUBSET SpecId : EditMap(S)
  BY <1>2 DEF TypeOK, EditMap
<1>3. CASE SweepLock
  <2>1. lockInode' \in Inode
    BY <1>3, FilterRunAssumption DEF TypeOK, SweepLock, Inode
  <2>2. QED
    BY <1>3, <2>1 DEF TypeOK, SweepLock
<1>4. ASSUME NEW r \in Runner, Start(r) PROVE TypeOK'
  BY <1>4 DEF TypeOK, Start, Step
<1>5. ASSUME NEW r \in Runner, Acquire(r) PROVE TypeOK'
  BY <1>5 DEF TypeOK, Acquire, Step
<1>6. ASSUME NEW r \in Runner, LoadPosterior(r) PROVE TypeOK'
  <2>1. Loaded(posterior) \in Posterior
    BY LoadedType DEF TypeOK
  <2>2. QED
    BY <1>6, <2>1 DEF TypeOK, LoadPosterior, Step
<1>7. ASSUME NEW r \in Runner, ReadEvents(r) PROVE TypeOK'
  <2>1. Len(log) \in Nat
    BY DEF TypeOK
  <2>2. QED
    BY <1>7, <2>1 DEF TypeOK, ReadEvents, Step
<1>8. ASSUME NEW r \in Runner, Fold(r) PROVE TypeOK'
  <2>1. PICK t \in Ts :
          work' = [work EXCEPT
                     ![r] = Advance(work[r], specs[r], t, seen[r], Len(log))]
    BY <1>8 DEF Fold
  <2>2. /\ work[r] \in Posterior /\ seen[r] \in Nat /\ Len(log) \in Nat
    BY DEF TypeOK
  <2>3. Advance(work[r], specs[r], t, seen[r], Len(log)) \in Posterior
    BY <2>2, AdvanceType
  <2>4. QED
    BY <1>8, <2>1, <2>3 DEF TypeOK, Fold, Step
<1>9. ASSUME NEW r \in Runner, TruncateTmp(r) PROVE TypeOK'
  BY <1>9 DEF TypeOK, TruncateTmp, Step
<1>10. ASSUME NEW r \in Runner, FillTmp(r) PROVE TypeOK'
  BY <1>10 DEF TypeOK, FillTmp, Step
<1>11. ASSUME NEW r \in Runner, Rename(r) PROVE TypeOK'
  BY <1>11, ExitType DEF TypeOK, Rename
<1>12. ASSUME NEW r \in Runner, Fail(r) \/ Crash(r) PROVE TypeOK'
  BY <1>12, ExitType DEF TypeOK, Fail, Crash
<1>13. CASE UNCHANGED vars
  BY <1>13 DEF TypeOK, vars
<1>14. QED
  BY <1>1, <1>2, <1>3, <1>4, <1>5, <1>6, <1>7, <1>8, <1>9, <1>10, <1>11,
     <1>12, <1>13 DEF Next, Proceed

\* Type correctness: `specere filter run` keeps its files and its memory well
\* formed whatever is appended, edited, swept or killed.
THEOREM TypeCorrect == Spec => []TypeOK
  BY TypeInit, TypeNext, PTL DEF Spec

----------------------------------------------------------------------------
(* What posteriors are, whoever holds the lock.                            *)

\* A spec that never left the map is in the map of every run.
AlwaysMapped ==
  /\ Mapped \subseteq specMap
  /\ \A r \in Runner : pc[r] # "idle" => Mapped \subseteq specs[r]

\* Every posterior that a run could resume from or persist is a right summary.
AllSound ==
  /\ Sound(Loaded(posterior), log, Mapped)
  /\ tmp # NoFile => Sound(Loaded(tmp), log, Mapped)
  /\ \A r \in Runner : Sound(work[r], log, Mapped) /\ seen[r] <= Len(log)

SoundInv == TypeOK /\ AlwaysMapped /\ AllSound

LEMMA MappedSubset == Mapped \in SUBSET SpecId
  BY DEF Mapped

LEMMA BlankSound == TypeOK => Sound(Loaded(Blank), log, Mapped)
  BY EmptySound, MappedSubset DEF TypeOK, Loaded

\* What a process leaves behind in memory is sound: nothing.
LEMMA ExitSound ==
  ASSUME SoundInv, TypeOK', NEW r \in Runner, Exit(r), log' = log,
         unmapped' = unmapped
  PROVE  \A q \in Runner :
           /\ Sound(work[q]', log', Mapped') /\ seen[q]' <= Len(log')
           /\ pc[q]' # "idle" => Mapped' \subseteq specs[q]'
<1>1. Mapped' = Mapped
  BY DEF Mapped
<1>2. Sound(EmptyPosterior, log, Mapped)
  BY EmptySound, MappedSubset DEF SoundInv, TypeOK
<1>3. Len(log) \in Nat
  BY DEF SoundInv, TypeOK
<1>4. QED
  BY <1>1, <1>2, <1>3 DEF SoundInv, TypeOK, AlwaysMapped, AllSound, Exit

LEMMA SoundInit == Init => SoundInv
<1> SUFFICES ASSUME Init PROVE SoundInv
  OBVIOUS
<1>1. TypeOK
  BY TypeInit
<1>2. AlwaysMapped
  BY DEF Init, AlwaysMapped, Mapped
<1>3. Sound(EmptyPosterior, log, Mapped)
  BY <1>1, EmptySound, MappedSubset DEF TypeOK
<1>4. Loaded(posterior) = EmptyPosterior
  BY DEF Init, Loaded
<1>5. AllSound
  BY <1>3, <1>4 DEF Init, AllSound
<1>6. QED
  BY <1>1, <1>2, <1>5 DEF SoundInv

LEMMA SoundNext == SoundInv /\ [Next]_vars => SoundInv'
<1> SUFFICES ASSUME SoundInv, [Next]_vars PROVE SoundInv'
  OBVIOUS
<1> USE DEF fileVars, runVars
<1>0. /\ TypeOK /\ AlwaysMapped /\ AllSound /\ TypeOK'
      /\ Len(log) \in Nat
  BY TypeNext DEF SoundInv, TypeOK
<1>1. CASE \E e \in Event : AppendEvent(e)
  <2>1. PICK e \in Event : AppendEvent(e)
    BY <1>1
  <2>2. /\ log \in Seq(Event) /\ log' = Append(log, e) /\ Mapped' = Mapped
        /\ UNCHANGED <<posterior, tmp, work, seen>>
    BY <1>0, <2>1 DEF TypeOK, AppendEvent, Mapped
  <2>3. \A p \in Posterior :
          Sound(p, log, Mapped) => Sound(p, log', Mapped')
    BY <2>2, SoundOnGrownLog, MappedSubset
  <2>4. Sound(Loaded(posterior'), log', Mapped')
    BY <1>0, <2>2, <2>3, LoadedType DEF TypeOK, AllSound
  <2>5. tmp' # NoFile => Sound(Loaded(tmp'), log', Mapped')
    <3> SUFFICES ASSUME tmp # NoFile PROVE Sound(Loaded(tmp), log', Mapped')
      BY <2>2
    <3>1. Loaded(tmp) \in Posterior /\ Sound(Loaded(tmp), log, Mapped)
      BY <1>0, LoadedType DEF TypeOK, AllSound
    <3>2. QED
      BY <2>3, <3>1
  <2>6. \A r \in Runner : Sound(work'[r], log', Mapped') /\ seen'[r] <= Len(log')
    <3>1. \A r \in Runner : work[r] \in Posterior /\ seen[r] \in Nat
      BY <1>0 DEF TypeOK
    <3>2. Len(log') = Len(log) + 1
      BY <2>2
    <3>3. QED
      BY <1>0, <2>2, <2>3, <3>1, <3>2 DEF AllSound
  <2>7. AlwaysMapped'
    BY <1>0, <2>1, <2>2 DEF AlwaysMapped, AppendEvent
  <2>8. QED
    BY <1>0, <2>4, <2>5, <2>6, <2>7 DEF SoundInv, AllSound
<1>2. CASE \E S \in SUBSET SpecId : EditMap(S)
  <2>1. /\ Mapped' \in SUBSET Mapped /\ Mapped' \subseteq specMap'
        /\ UNCHANGED <<log, posterior, tmp, pc, specs, work, seen>>
    BY <1>2 DEF EditMap, Mapped
  <2>2. \A p : Sound(p, log, Mapped) => Sound(p, log', Mapped')
    BY <2>1, SoundForFewer
  <2>3. AllSound'
    BY <1>0, <2>1, <2>2 DEF AllSound
  <2>4. QED
    BY <1>0, <2>1, <2>3 DEF SoundInv, AlwaysMapped
<1>3. CASE SweepLock \/ UNCHANGED vars
  <2>1. UNCHANGED <<log, specMap, unmapped, posterior, tmp, pc, specs, work, seen>>
    BY <1>3 DEF SweepLock, vars
  <2>2. QED
    BY <1>0, <2>1 DEF SoundInv, AlwaysMapped, AllSound, Mapped
<1>4. ASSUME NEW r \in Runner, Start(r) PROVE SoundInv'
  BY <1>0, <1>4 DEF TypeOK, Start, SoundInv, AlwaysMapped, AllSound, Mapped
<1>5. ASSUME NEW r \in Runner, Acquire(r) PROVE SoundInv'
  BY <1>0, <1>5 DEF TypeOK, Acquire, SoundInv, AlwaysMapped, AllSound, Mapped
<1>6. ASSUME NEW r \in Runner, LoadPosterior(r) PROVE SoundInv'
  BY <1>0, <1>6 DEF TypeOK, LoadPosterior, SoundInv, AlwaysMapped, AllSound, Mapped
<1>7. ASSUME NEW r \in Runner, ReadEvents(r) PROVE SoundInv'
  <2>1. \A q \in Runner : seen'[q] <= Len(log')
    BY <1>0, <1>7 DEF TypeOK, ReadEvents, AllSound
  <2>2. QED
    BY <1>0, <1>7, <2>1
    DEF TypeOK, ReadEvents, SoundInv, AlwaysMapped, AllSound, Mapped
<1>8. ASSUME NEW r \in Runner, Fold(r) PROVE SoundInv'
  <2>1. PICK t \in Ts :
          /\ IsLatest(t, log, PastCursor(log, seen[r], work[r].cursor))
          /\ work' = [work EXCEPT
                        ![r] = Advance(work[r], specs[r], t, seen[r], Len(log))]
    BY <1>8 DEF Fold
  <2>2. /\ work[r] \in Posterior /\ specs[r] \in SUBSET SpecId
        /\ seen[r] \in 0..Len(log) /\ log \in Seq(Event)
        /\ Mapped \subseteq specs[r] /\ Sound(work[r], log, Mapped)
    BY <1>0, <1>8, SMTT(20) DEF TypeOK, AllSound, AlwaysMapped, Fold
  <2>3. Sound(Advance(work[r], specs[r], t, seen[r], Len(log)), log, Mapped)
    BY <1>0, <2>1, <2>2, SoundAdvance, MappedSubset
  <2>4. /\ UNCHANGED <<log, specMap, unmapped, posterior, tmp, specs, seen>>
        /\ Mapped' = Mapped
        /\ \A q \in Runner : pc'[q] # "idle" => pc[q] # "idle"
    BY <1>0, <1>8 DEF Fold, Mapped, TypeOK
  <2>5. \A q \in Runner : Sound(work'[q], log, Mapped)
    BY <1>0, <2>1, <2>3 DEF TypeOK, AllSound
  <2>6. QED
    BY <1>0, <2>4, <2>5 DEF SoundInv, AlwaysMapped, AllSound
<1>9. ASSUME NEW r \in Runner, TruncateTmp(r) PROVE SoundInv'
  BY <1>0, <1>9, BlankSound
  DEF TypeOK, TruncateTmp, SoundInv, AlwaysMapped, AllSound, Mapped
<1>10. ASSUME NEW r \in Runner, FillTmp(r) PROVE SoundInv'
  <2>1. Loaded(work[r]) = work[r]
    BY <1>0, FilterRunAssumption DEF TypeOK, Loaded
  <2>2. QED
    BY <1>0, <1>10, <2>1
    DEF TypeOK, FillTmp, SoundInv, AlwaysMapped, AllSound, Mapped
<1>11. ASSUME NEW r \in Runner, Rename(r) PROVE SoundInv'
  BY <1>0, <1>11, ExitSound
  DEF Rename, SoundInv, AlwaysMapped, AllSound, Mapped
<1>12. ASSUME NEW r \in Runner, Fail(r) \/ Crash(r) PROVE SoundInv'
  BY <1>0, <1>12, ExitSound
  DEF Fail, Crash, SoundInv, AlwaysMapped, AllSound, Mapped
<1>13. QED
  BY <1>1, <1>2, <1>3, <1>4, <1>5, <1>6, <1>7, <1>8, <1>9, <1>10, <1>11,
     <1>12 DEF Next, Proceed

LEMMA SoundAlways == Spec => []SoundInv
  BY SoundInit, SoundNext, PTL DEF Spec

\* No event is folded twice and later runs fold younger events, even when the
\* lock is lost, runs overlap, processes die or the sensor map changes.
THEOREM NothingFoldedTwice == Spec => []FoldedInOrder
<1>1. SoundInv => FoldedInOrder
  BY LoadedType, SoundFoldsInOrder
  DEF SoundInv, AllSound, TypeOK, FoldedInOrder, Persisted
<1>2. QED
  BY <1>1, SoundAlways, PTL

\* The persisted cursor is an event's and covers all that was folded.
THEOREM CursorIsRight == Spec => []CursorCovers
<1>1. SoundInv => CursorCovers
  BY DEF SoundInv, AllSound, Sound, CursorCovers, Persisted
<1>2. QED
  BY <1>1, SoundAlways, PTL

\* The only events behind the cursor that a spec's belief can miss are those
\* appended after an event at least as young.
THEOREM LossIsLateness == Spec => []LostOnlyIfLate
<1>1. SoundInv => LostOnlyIfLate
  BY DEF SoundInv, AllSound, Sound, LostOnlyIfLate, Persisted, Mapped
<1>2. QED
  BY <1>1, SoundAlways, PTL

----------------------------------------------------------------------------
(* The lock.                                                               *)

\* Whoever is past the lock holds the flock of the inode it opened, and no
\* process opened an inode that the path has not named yet.
LockHeld ==
  \A r \in Runner :
    /\ inode[r] <= lockInode
    /\ Critical(r) => holder[inode[r]] = r

LockInv == TypeOK /\ LockHeld

LEMMA LockInit == Init => LockInv
  BY TypeInit DEF Init, LockInv, LockHeld, Critical

LEMMA ExitLock ==
  ASSUME LockInv, NEW r \in Runner, Exit(r), lockInode' = lockInode
  PROVE  LockHeld'
<1>1. lockInode \in Nat
  BY FilterRunAssumption DEF LockInv, TypeOK, Inode
<1>2. \A q \in Runner : inode'[q] <= lockInode'
  BY <1>1 DEF LockInv, TypeOK, LockHeld, Exit
<1>3. ASSUME NEW q \in Runner, Critical(q)'
      PROVE  holder'[inode'[q]] = q
  <2>1. q # r /\ Critical(q) /\ inode'[q] = inode[q]
    BY <1>3 DEF LockInv, TypeOK, Critical, Exit
  <2>2. holder[inode[q]] = q /\ inode[q] \in Inode
    BY <2>1 DEF LockInv, LockHeld, TypeOK
  <2>3. QED
    BY <2>1, <2>2 DEF Exit
<1>4. QED
  BY <1>2, <1>3 DEF LockHeld

LEMMA LockNext == LockInv /\ [Next]_vars => LockInv'
<1> SUFFICES ASSUME LockInv, [Next]_vars PROVE LockInv'
  OBVIOUS
<1> USE DEF fileVars, runVars
<1>0. TypeOK /\ LockHeld /\ TypeOK' /\ lockInode \in Nat
  BY TypeNext, FilterRunAssumption DEF LockInv, TypeOK, Inode
<1>1. ASSUME UNCHANGED <<pc, holder, inode, lockInode>> PROVE LockInv'
  BY <1>0, <1>1 DEF LockInv, LockHeld, Critical
<1>2. CASE SweepLock
  <2>1. \A r \in Runner : inode[r] \in Nat
    BY <1>0, FilterRunAssumption DEF TypeOK, Inode
  <2>2. QED
    BY <1>0, <1>2, <2>1 DEF SweepLock, LockInv, LockHeld, Critical
<1>3. ASSUME NEW r \in Runner, Start(r) PROVE LockInv'
  BY <1>0, <1>3 DEF Start, LockInv, LockHeld, Critical, TypeOK
<1>4. ASSUME NEW r \in Runner, Acquire(r) PROVE LockInv'
  <2>1. inode' = inode /\ lockInode' = lockInode /\ inode[r] \in Inode
    BY <1>0, <1>4 DEF Acquire, TypeOK
  <2>2. ASSUME NEW q \in Runner, Critical(q)'
        PROVE  holder'[inode[q]] = q
    <3>1. CASE q = r
      BY <1>0, <1>4, <2>1, <3>1 DEF Acquire, TypeOK
    <3>2. CASE q # r
      <4>1. Critical(q)
        BY <1>0, <1>4, <2>2, <3>2 DEF Acquire, Critical, TypeOK
      <4>2. holder[inode[q]] = q /\ inode[q] # inode[r]
        BY <1>0, <1>4, <4>1, FilterRunAssumption DEF Acquire, LockHeld
      <4>3. QED
        BY <1>0, <1>4, <4>2 DEF Acquire, TypeOK
    <3>3. QED
      BY <3>1, <3>2
  <2>3. QED
    BY <1>0, <2>1, <2>2 DEF LockInv, LockHeld
<1>5. ASSUME NEW r \in Runner,
             \/ LoadPosterior(r) \/ ReadEvents(r) \/ Fold(r)
             \/ TruncateTmp(r) \/ FillTmp(r)
      PROVE  LockInv'
  <2>1. UNCHANGED <<holder, inode, lockInode>> /\ Critical(r)
    BY <1>5 DEF LoadPosterior, ReadEvents, Fold, TruncateTmp, FillTmp, Critical
  <2>2. \A q \in Runner : q # r => pc'[q] = pc[q]
    BY <1>0, <1>5
    DEF LoadPosterior, ReadEvents, Fold, TruncateTmp, FillTmp, TypeOK
  <2>3. QED
    BY <1>0, <2>1, <2>2 DEF LockInv, LockHeld, Critical
<1>6. ASSUME NEW r \in Runner, Rename(r) \/ Fail(r) \/ Crash(r) PROVE LockInv'
  BY <1>0, <1>6, ExitLock DEF Rename, Fail, Crash, LockInv
<1>7. ASSUME \/ \E e \in Event : AppendEvent(e)
             \/ \E S \in SUBSET SpecId : EditMap(S)
             \/ UNCHANGED vars
      PROVE  LockInv'
  BY <1>1, <1>7 DEF AppendEvent, EditMap, vars
<1>8. QED
  BY <1>2, <1>3, <1>4, <1>5, <1>6, <1>7 DEF Next, Proceed

\* While the lock file is the first one, all processes lock the same inode.
LEMMA OneAtATime ==
  ASSUME LockInv, LockIntact
  PROVE  RunsSerialised
<1> SUFFICES ASSUME NEW q \in Runner, NEW r \in Runner, Critical(q), Critical(r)
             PROVE  q = r
  BY DEF RunsSerialised
<1>1. inode[q] = 0 /\ inode[r] = 0
  BY FilterRunAssumption DEF LockInv, LockHeld, LockIntact, TypeOK, Inode
<1>2. QED
  BY <1>1 DEF LockInv, LockHeld

\* "An advisory exclusive file lock serialises concurrent invocations": so it
\* does as long as nobody unlinks the lock file.
THEOREM SerialisedWhileIntact == Spec => [](LockIntact => RunsSerialised)
<1>1. LockInv => (LockIntact => RunsSerialised)
  BY OneAtATime
<1>2. QED
  BY <1>1, LockInit, LockNext, PTL DEF Spec

----------------------------------------------------------------------------
(* What the lock is for.                                                   *)

FreshInv == LockInv /\ SoundInv /\ NoStaleWork /\ NeverBlank

LEMMA FreshInit == Init => FreshInv
  BY LockInit, SoundInit, FilterRunAssumption, EmptyPosteriorType
  DEF Init, FreshInv, NoStaleWork, NeverBlank

\* A step of one process leaves the others' claims alone: they are not past the
\* lock.
LEMMA FreshNext == FreshInv /\ [Next]_vars => FreshInv'
<1> SUFFICES ASSUME FreshInv, [Next]_vars PROVE FreshInv'
  OBVIOUS
<1> USE DEF fileVars, runVars
<1>0. /\ LockInv /\ SoundInv /\ TypeOK /\ LockInv' /\ SoundInv'
      /\ NoStaleWork /\ NeverBlank
  BY LockNext, SoundNext DEF FreshInv, LockInv
<1>a. SUFFICES ASSUME LockIntact' PROVE NoStaleWork' /\ NeverBlank'
  BY <1>0 DEF FreshInv, NoStaleWork, NeverBlank
<1>b. LockIntact /\ lockInode' = lockInode
  <2>1. lockInode \in Nat
    BY <1>0, FilterRunAssumption DEF TypeOK, Inode
  <2>2. ~ SweepLock
    BY <1>a, <2>1 DEF LockIntact, SweepLock
  <2>3. QED
    BY <1>a, <2>2 DEF LockIntact, Next, Proceed, AppendEvent, EditMap, Start,
       Acquire, LoadPosterior, ReadEvents, Fold, TruncateTmp, FillTmp, Rename,
       Fail, Crash, vars
<1>c. \A q, r \in Runner : Critical(q) /\ Critical(r) => q = r
  BY <1>0, <1>b, OneAtATime DEF RunsSerialised
<1>d. /\ posterior # Blank
      /\ \A r \in Runner :
           /\ pc[r] = "rename" => tmp = work[r]
           /\ pc[r] \in {"read", "fold"} => work[r] = posterior
           /\ pc[r] \in {"truncate", "fill", "rename"} =>
                IsRunOf(work[r], posterior, log, specs[r])
  BY <1>0, <1>b DEF NoStaleWork, NeverBlank
<1>1. CASE \E e \in Event : AppendEvent(e)
  <2>1. PICK e \in Event : AppendEvent(e)
    BY <1>1
  <2>2. log \in Seq(Event) /\ log' = Append(log, e) /\ posterior \in Posterior
    BY <1>0, <1>d, <2>1 DEF TypeOK, AppendEvent
  <2>3. \A r \in Runner : IsRunOf(work[r], posterior, log, specs[r])
                            => IsRunOf(work[r], posterior, log', specs[r])
    BY <2>2, RunOfGrownLog
  <2>4. QED
    BY <1>d, <2>1, <2>3 DEF AppendEvent, NoStaleWork, NeverBlank
<1>2. CASE (\E S \in SUBSET SpecId : EditMap(S)) \/ UNCHANGED vars
  <2>1. UNCHANGED <<log, posterior, tmp, pc, specs, work>>
    BY <1>2 DEF EditMap, vars
  <2>2. QED
    BY <1>d, <2>1 DEF NoStaleWork, NeverBlank
<1>3. CASE SweepLock
  BY <1>0, <1>b, <1>3, FilterRunAssumption DEF SweepLock, TypeOK, Inode
<1>4. ASSUME NEW r \in Runner, Start(r) PROVE NoStaleWork' /\ NeverBlank'
  BY <1>0, <1>d, <1>4 DEF Start, TypeOK, NoStaleWork, NeverBlank
<1>5. ASSUME NEW r \in Runner, Acquire(r) PROVE NoStaleWork' /\ NeverBlank'
  BY <1>0, <1>d, <1>5 DEF Acquire, TypeOK, NoStaleWork, NeverBlank
<1>6. ASSUME NEW r \in Runner, LoadPosterior(r) PROVE NoStaleWork' /\ NeverBlank'
  BY <1>0, <1>d, <1>6 DEF LoadPosterior, Loaded, TypeOK, NoStaleWork, NeverBlank
<1>7. ASSUME NEW r \in Runner, ReadEvents(r) PROVE NoStaleWork' /\ NeverBlank'
  BY <1>0, <1>d, <1>7 DEF ReadEvents, TypeOK, IsRunOf, NoStaleWork, NeverBlank
<1>8. ASSUME NEW r \in Runner, Fold(r) PROVE NoStaleWork' /\ NeverBlank'
  <2>1. PICK t \in Ts :
          /\ IsLatest(t, log, PastCursor(log, seen[r], work[r].cursor))
          /\ work' = [work EXCEPT
                        ![r] = Advance(work[r], specs[r], t, seen[r], Len(log))]
    BY <1>8 DEF Fold
  <2>2. /\ seen[r] \in Nat /\ seen[r] <= Len(log) /\ Len(log) \in Nat
        /\ work[r] = posterior
        /\ UNCHANGED <<log, posterior, tmp, specs>>
    BY <1>0, <1>d, <1>8 DEF Fold, TypeOK, SoundInv, AllSound
  <2>3. seen[r] \in 1..Len(log) /\ Len(log) \in seen[r]..Len(log)
    BY <2>1, <2>2 DEF IsLatest, PastCursor
  <2>4. IsRunOf(work'[r], posterior, log, specs[r])
    BY <1>0, <2>1, <2>2, <2>3 DEF IsRunOf, TypeOK
  <2>5. QED
    BY <1>0, <1>d, <1>8, <2>1, <2>2, <2>4
    DEF Fold, TypeOK, NoStaleWork, NeverBlank
<1>9. ASSUME NEW r \in Runner, TruncateTmp(r) PROVE NoStaleWork' /\ NeverBlank'
  <2>1. \A q \in Runner : pc'[q] # "rename"
    BY <1>0, <1>c, <1>9 DEF TruncateTmp, TypeOK, Critical
  <2>2. QED
    BY <1>0, <1>d, <1>9, <2>1 DEF TruncateTmp, TypeOK, NoStaleWork, NeverBlank
<1>10. ASSUME NEW r \in Runner, FillTmp(r) PROVE NoStaleWork' /\ NeverBlank'
  <2>1. \A q \in Runner : q # r => pc'[q] # "rename"
    BY <1>0, <1>c, <1>10 DEF FillTmp, TypeOK, Critical
  <2>2. QED
    BY <1>0, <1>d, <1>10, <2>1 DEF FillTmp, TypeOK, NoStaleWork, NeverBlank
<1>11. ASSUME NEW r \in Runner, Rename(r) PROVE NoStaleWork' /\ NeverBlank'
  <2>1. \A q \in Runner : pc'[q] \in {"idle", "acquire"}
    BY <1>0, <1>c, <1>11 DEF Rename, Exit, TypeOK, Critical
  <2>2. posterior' # Blank
    BY <1>0, <1>d, <1>11, FilterRunAssumption DEF Rename, TypeOK
  <2>3. QED
    BY <2>1, <2>2 DEF NoStaleWork, NeverBlank
<1>12. ASSUME NEW r \in Runner, Fail(r) \/ Crash(r)
       PROVE  NoStaleWork' /\ NeverBlank'
  <2>1. /\ \A q \in Runner : q # r => pc'[q] = pc[q] /\ work'[q] = work[q]
                                     /\ specs'[q] = specs[q]
        /\ pc'[r] = "idle"
        /\ UNCHANGED <<log, posterior, tmp>>
    BY <1>0, <1>12 DEF Fail, Crash, Exit, TypeOK
  <2>2. QED
    BY <1>d, <2>1 DEF NoStaleWork, NeverBlank
<1>13. QED
  BY <1>1, <1>2, <1>3, <1>4, <1>5, <1>6, <1>7, <1>8, <1>9, <1>10, <1>11,
     <1>12 DEF Next, Proceed

LEMMA FreshAlways == Spec => []FreshInv
  BY FreshInit, FreshNext, PTL DEF Spec

\* No lost update: what a run is about to write is one run's worth of work on
\* the posterior that is on disk.
THEOREM WorkIsFresh == Spec => []NoStaleWork
  BY FreshAlways, PTL DEF FreshInv

\* A killed run never leaves an empty posterior behind.
THEOREM PosteriorIsWhole == Spec => []NeverBlank
  BY FreshAlways, PTL DEF FreshInv

----------------------------------------------------------------------------
(* Refinement.                                                             *)

LEMMA StepRefines ==
  FreshInv /\ [Next]_vars /\ LockIntact' => [Abstract!PNext]_(Abstract!pvars)
<1> SUFFICES ASSUME FreshInv, [Next]_vars, LockIntact'
             PROVE  [Abstract!PNext]_(Abstract!pvars)
  OBVIOUS
<1> USE DEF fileVars, runVars
<1>1. TypeOK /\ NoStaleWork /\ NeverBlank
  BY DEF FreshInv, LockInv
<1>2. CASE \E e \in Event : AppendEvent(e)
  BY <1>2 DEF AppendEvent, Abstract!PNext, Abstract!PAppend, Abstract!Event, Event
<1>3. ASSUME NEW r \in Runner, Rename(r) PROVE Abstract!PNext
  <2>1. LockIntact
    BY <1>3 DEF Rename, LockIntact
  <2>2. /\ IsRunOf(posterior', posterior, log, specs[r])
        /\ specs[r] \in SUBSET SpecId /\ UNCHANGED log
    BY <1>1, <1>3, <2>1 DEF Rename, NoStaleWork, NeverBlank, TypeOK
  <2>3. Abstract!PRun(specs[r])
    BY <2>2 DEF Abstract!PRun, Abstract!IsRunOf, IsRunOf, Abstract!IsLatest,
       IsLatest, Abstract!PastCursor, PastCursor, Abstract!Advance, Advance
  <2>4. QED
    BY <2>2, <2>3 DEF Abstract!PNext
<1>4. ASSUME UNCHANGED <<log, posterior>> PROVE UNCHANGED Abstract!pvars
  BY <1>4 DEF Abstract!pvars
<1>5. QED
  BY <1>2, <1>3, <1>4 DEF Next, Proceed, EditMap, SweepLock, Start, Acquire,
     LoadPosterior, ReadEvents, Fold, TruncateTmp, FillTmp, Fail, Crash, vars

\* Each step of any behaviour that leaves the lock file intact is a step of
\* PosteriorLog or none: runs take effect one at a time, each on the result of
\* the one before.
THEOREM Implements == Spec => Refinement
<1>1. Init => Abstract!PInit
  BY DEF Init, Abstract!PInit, EmptyPosterior, Abstract!EmptyPosterior,
     NoCursor, Abstract!NoCursor
<1>2. FreshInv /\ [Next]_vars => [LockIntact' => [Abstract!PNext]_(Abstract!pvars)]_vars
  BY StepRefines
<1>3. QED
  BY <1>1, <1>2, FreshAlways, PTL DEF Spec, Refinement

\* So a behaviour in which nobody unlinks the lock file implements PosteriorLog.
THEOREM IntactImplements == Spec /\ []LockIntact => Abstract!PSpec
<1>1. Init => Abstract!PInit
  BY DEF Init, Abstract!PInit, EmptyPosterior, Abstract!EmptyPosterior,
     NoCursor, Abstract!NoCursor
<1>2. QED
  BY <1>1, FreshAlways, StepRefines, PTL DEF Spec, Abstract!PSpec

----------------------------------------------------------------------------
(* The cursor.                                                             *)

LEMMA RunMovesForward ==
  ASSUME NEW p \in Posterior, NEW q, NEW S, NEW l \in Seq(Event),
         IsRunOf(q, p, l, S)
  PROVE  q.cursor >= p.cursor
<1>1. p.cursor \in Nat
  BY CursorNat DEF Posterior
<1>2. CASE q = p
  BY <1>1, <1>2
<1>3. CASE q # p
  <2>1. PICK n \in 1..Len(l), t \in Ts :
             /\ IsLatest(t, l, PastCursor(l, n, p.cursor))
             /\ \E m \in n..Len(l) : q = Advance(p, S, t, n, m)
    BY <1>3 DEF IsRunOf
  <2>2. q.cursor = t /\ t \in Nat
    BY <2>1, CursorNat DEF Advance
  <2>3. t > p.cursor
    BY <2>1 DEF IsLatest, PastCursor
  <2>4. QED
    BY <1>1, <2>2, <2>3
<1>4. QED
  BY <1>2, <1>3

\* The cursor never moves back: neither a late event nor a concurrent or killed
\* run makes the next run consume an event again.
THEOREM CursorMonotone == Spec => CursorNeverBack
<1>1. FreshInv /\ [Next]_vars
        => [LockIntact' => Loaded(posterior').cursor >= Persisted.cursor]_vars
  <2> SUFFICES ASSUME FreshInv, [Next]_vars, LockIntact'
               PROVE  Loaded(posterior').cursor >= Loaded(posterior).cursor
    BY DEF Persisted
  <2> USE DEF fileVars, runVars
  <2>1. TypeOK /\ NoStaleWork /\ NeverBlank /\ NeverBlank'
    BY FreshNext DEF FreshInv, LockInv
  <2>2. ASSUME posterior' = posterior
        PROVE  Loaded(posterior').cursor >= Loaded(posterior).cursor
    <3>1. Loaded(posterior) \in Posterior
      BY <2>1, LoadedType DEF TypeOK
    <3>2. Loaded(posterior).cursor \in Nat
      BY <3>1, CursorNat DEF Posterior
    <3>3. QED
      BY <2>2, <3>2
  <2>3. ASSUME NEW r \in Runner, Rename(r)
        PROVE  Loaded(posterior').cursor >= Loaded(posterior).cursor
    <3>1. LockIntact /\ LockIntact'
      BY <2>3 DEF Rename, LockIntact
    <3>2. /\ IsRunOf(posterior', posterior, log, specs[r])
          /\ posterior # Blank /\ posterior' # Blank
      BY <2>1, <2>3, <3>1 DEF Rename, NoStaleWork, NeverBlank
    <3>3. posterior'.cursor >= posterior.cursor
      BY <2>1, <3>2, RunMovesForward DEF TypeOK
    <3>4. QED
      BY <3>2, <3>3 DEF Loaded
  <2>4. QED
    BY <2>2, <2>3 DEF Next, Proceed, AppendEvent, EditMap, SweepLock, Start,
       Acquire, LoadPosterior, ReadEvents, Fold, TruncateTmp, FillTmp, Fail,
       Crash, vars
<1>2. QED
  BY <1>1, FreshAlways, PTL DEF Spec, CursorNeverBack

==========================================================================
