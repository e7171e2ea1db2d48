----------------------------- MODULE MCPortfolios -----------------------------
(* Instances of Portfolios for TLC: two requests at a time, which may be    *)
(* exchanged.                                                               *)
EXTENDS Portfolios, TLC

CONSTANTS ra, rb

TwoRequests == {ra, rb}
Symmetry    == Permutations(TwoRequests)
=============================================================================
