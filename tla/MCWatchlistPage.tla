--------------------------- MODULE MCWatchlistPage ---------------------------
(* Instance: three rows stored, two that may be added, two rows on a page.   *)
EXTENDS WatchlistPage

CONSTANTS a, b, c, d, e

MCRows     == {a, b, c, d, e}
MCStart    == <<a, b, c>>
MCSlots    == {"create", "delete", "batch", "reorder", "device"}
MCMatching == {b, c, d, e}

\* Rows that may be added are alike.
Additions == Permutations({d, e})

=============================================================================
