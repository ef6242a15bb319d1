-------------------------------- MODULE Sums --------------------------------
(***************************************************************************)
(* Sums over finite sets.                                                  *)
(***************************************************************************)
EXTENDS Integers, FiniteSets

\* The sum of f(s) over s \in S, as the size of a disjoint union.  (A fold
\* would need induction over S wherever a sum is reasoned about.)
SumOver(S, f(_)) == Cardinality(UNION {{s} \X (1..f(s)) : s \in S})
=============================================================================
