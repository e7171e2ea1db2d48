--------------------------- MODULE MCOverviewPage ---------------------------
(* Instance of OverviewPage for TLC: two modules, one of them delayed, and *)
(* a group of the global market.                                          *)
EXTENDS OverviewPage, TLC

CONSTANTS indices, hotStocks, g1

InOrder   == <<indices, hotStocks>>
Later     == {hotStocks}
AllGroups == {g1}
=============================================================================
