------------------------------ MODULE MCSession ------------------------------
(* Instance of Session for TLC: two accounts, two sessions. *)
EXTENDS Session, TLC

CONSTANTS ann, ben, s1, s2

OneUser       == {ann}
TwoUsers      == {ann, ben}
TwoSessions   == {s1, s2}
=============================================================================
