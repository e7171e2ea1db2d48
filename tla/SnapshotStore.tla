---------------------------- MODULE SnapshotStore ----------------------------
(***************************************************************************)
(* What one global-market group promises to its readers, with nothing said *)
(* about locks, refresh jobs or Valkey: two cells, the snapshot published  *)
(* now and the last good one.  GlobalMarketRefresh is shown to implement   *)
(* this specification while its refresh lock outlives a refresh and Valkey *)
(* answers every command.                                                  *)
(***************************************************************************)
EXTENDS Naturals

VARIABLES current, lastSuccess

vars == <<current, lastSuccess>>

Fetched(states) == [state : states, at : Nat]
Unavailable     == [state |-> "unavailable", at |-> 0]
Absent          == [state |-> "absent", at |-> 0]

Init == current = Absent /\ lastSuccess = Absent

(* A good fetch is remembered first; it is newer than all that is held.    *)
Record ==
    /\ lastSuccess' \in Fetched({"good"})
    /\ lastSuccess'.at > lastSuccess.at /\ lastSuccess'.at > current.at
    /\ UNCHANGED current

(* What is published is never older than what it replaces, nor than the    *)
(* last good snapshot.                                                     *)
Publish ==
    /\ current' \in Fetched({"good", "stale"})
    /\ current'.at >= current.at /\ current'.at >= lastSuccess.at
    /\ UNCHANGED lastSuccess

(* "unavailable" is published only when there is no data to fall back to.  *)
PublishUnavailable ==
    /\ current' = Unavailable
    /\ lastSuccess = Absent
    /\ current \in {Absent, Unavailable}
    /\ UNCHANGED lastSuccess

DropCurrent == current' = Absent /\ UNCHANGED lastSuccess
DropLast    == lastSuccess' = Absent /\ UNCHANGED current

Next == Record \/ Publish \/ PublishUnavailable \/ DropCurrent \/ DropLast

Spec == Init /\ [][Next]_vars
=============================================================================
