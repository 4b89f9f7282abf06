--------------------------- MODULE Subsequences ---------------------------
(***************************************************************************)
(* What is left of a sequence when only some of its positions are kept.    *)
(***************************************************************************)
EXTENDS Naturals, Sequences

\* The elements of s at the positions in P, in their order.
Only(s, P) ==
  LET upto[i \in 0..Len(s)] ==
        IF i = 0 THEN << >>
        ELSE IF i \in P THEN Append(upto[i - 1], s[i]) ELSE upto[i - 1]
  IN  upto[Len(s)]
===========================================================================
