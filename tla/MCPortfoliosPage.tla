-------------------------- MODULE MCPortfoliosPage --------------------------
(* Instance of PortfoliosPage for TLC: two portfolios, and one to be made.*)
EXTENDS PortfoliosPage, TLC

CONSTANTS p1, p2, p3, h1, h2, h3

AllPortfolios == {p1, p2, p3}
AllHoldings   == {h1, h2, h3}
AtStart       == <<p1, p2>>
AtHome        == [p \in AllPortfolios |-> IF p = p1 THEN <<h1, h2, h3>> ELSE <<>>]
OnlyFirst     == {h1}
=============================================================================
