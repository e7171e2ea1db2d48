----------------------------- MODULE MCSourceCache -----------------------------
(* Instances of SourceCache for TLC: a module of the overview (locked, with *)
(* a last success, found by the scan) next to the index quotes (not locked, *)
(* deleted by name), and the valuations, which no invalidation knows.       *)
EXTENDS SourceCache, TLC

CONSTANTS overview, quotes, valuations, la, lb, ca

TwoKeys      == {overview, quotes}
OverviewOnly == {overview}
QuotesOnly   == {quotes}
Valuations   == {valuations}
Nothing      == {}
TwoLoads     == {la, lb}
OneChange    == {ca}
=============================================================================
