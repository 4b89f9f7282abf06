--------------------------- MODULE MCFilterRun ---------------------------
(***************************************************************************)
(* A small instance of FilterRun: two runs over two specs.  The properties *)
(* speak of each spec on its own, so the specs can share the cases between *)
(* them: s1 stays in the map, s2 comes and goes; an event concerns s1, all *)
(* specs or none, so that s2 sees those that concern it and those that do  *)
(* not.  Together, events and unlinked locks are at most MaxLog.           *)
(***************************************************************************)
EXTENDS FilterRun

CONSTANTS r1, r2, s1, s2

MCEvent == {e \in Event : e.spec # s2}

Changes == Len(log) + lockInode

MCInit == Init /\ s1 \in specMap

MCNext ==
  \/ Changes < MaxLog /\ \E e \in MCEvent : AppendEvent(e)
  \/ \E S \in {{s1}, {s1, s2}} : EditMap(S)
  \/ Changes < MaxLog /\ SweepLock
  \/ \E r \in Runner : Start(r) \/ Acquire(r) \/ Proceed(r) \/ Crash(r)

MCSpec == MCInit /\ [][MCNext]_vars /\ Fairness
==========================================================================
