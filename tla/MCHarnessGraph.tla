-------------------------- MODULE MCHarnessGraph --------------------------
(***************************************************************************)
(* A small instance of HarnessGraph: two test files.                       *)
(***************************************************************************)
EXTENDS HarnessGraph, TLC

CONSTANTS f1, f2, p1, p2

\* No build, and one in which f1 uses f2.
MCDepInfo == {{}, {<<f1, f2>>}}

\* Coverage of both files, with one or both of two lines in common.
MCLcov == {f1 :> {1} @@ f2 :> {1, 2}, f1 :> {1, 2} @@ f2 :> {1, 2}}

Failed(S, known) == [ran |-> {f1, f2}, fails |-> S, changed |-> known]

\* A run too few, and the two tests failing together in one run of two.
MCMatrix == {<< Failed({f1, f2}, FALSE) >>,
             << Failed({f1, f2}, TRUE), Failed({}, FALSE) >>}

Tenth == <<1, 10>>
Hundredth == <<1, 100>>

Symmetric == Permutations({p1, p2})
==========================================================================
