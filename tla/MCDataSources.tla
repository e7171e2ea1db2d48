---------------------------- MODULE MCDataSources ----------------------------
(* Instances of DataSources for TLC: two sources of the calendar family, of *)
(* which one is an OAuth source, and two requests at a time.                *)
EXTENDS DataSources, TLC

CONSTANTS keyed, oauth, calendar, u1, u2, c1, c2, ra, rb

TwoSources  == {keyed, oauth}
OneOAuth    == {oauth}
OneFamily   == {calendar}
InOneFamily == [s \in TwoSources |-> calendar]
OneUrl      == {u1}
TwoUrls     == {u1, u2}
TwoCreds    == {c1, c2}
TwoRequests == {ra, rb}

(* Addresses, credentials and requests are interchangeable, and every       *)
(* property checked with the symmetry is a safety property.                 *)
Symmetry == Permutations(TwoUrls) \cup Permutations(TwoCreds)
              \cup Permutations(TwoRequests)
=============================================================================
