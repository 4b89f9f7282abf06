--------------------------- MODULE MCEvaluators ---------------------------
(***************************************************************************)
(* A small instance of Evaluators: two files, two specs that share one of  *)
(* them, and two maps that differ in who owns the other; a report with     *)
(* every summary but one and a report with that one; a suite of a test     *)
(* with two tautologies and one without assertions, and another with a     *)
(* test of mocks; one spec with flaky clusters and one with none.          *)
(***************************************************************************)
EXTENDS Evaluators, TLC

CONSTANTS s1, s2, f1, f2, w1, w2

MCSpecIds == <<s1, s2>>

MCMaps == {s1 :> {f1} @@ s2 :> {f1, f2}, s1 :> {} @@ s2 :> {f1, f2}}

Outcome(s, f) == [summary |-> s, file |-> f]

MCReports ==
  {<<Outcome("success", f1), Outcome("caught", f1), Outcome("unviable", f1)>>,
   <<Outcome("timeout", f1), Outcome("missed", f2)>>}

MCEarlier == <<[kind |-> "test_outcome", spec |-> s2, what |-> "pass"]>>

Test(n, f, a, t, c, m) ==
  [fn |-> n, file |-> f, asserts |-> a, tautologies |-> t, calls |-> c, mocks |-> m]

MCSuites ==
  {<<Test("a", f1, 3, 2, 1, 0)>>,
   <<Test("a", f2, 0, 0, 3, 3)>>}

MCClusters == s1 :> <<40, 80>> @@ s2 :> << >>

Workers == Permutations({w1, w2})
===========================================================================
