------------------------ MODULE MCGlobalMarketRefresh ------------------------
(* Instances of GlobalMarketRefresh for TLC: the loop and one manual        *)
(* request, which is sent again whenever it has been answered.              *)
EXTENDS GlobalMarketRefresh

CONSTANTS loop, manual, page

TwoJobs == {loop, manual}
OnePage == {page}
NoPage  == {}
=============================================================================
