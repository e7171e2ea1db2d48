------------------------------ MODULE Watchlist ------------------------------
(***************************************************************************)
(* One user's watchlist in the database (backend/app/watchlist/service.py):*)
(* rows with a sort_order, listed by sort_order and then by added_at, the  *)
(* later one first, and the requests that add, delete, and reorder them.   *)
(*                                                                         *)
(* Requests of one user interleave between their statements (READ          *)
(* COMMITTED).  A commit writes only the numbers it changed, and passes    *)
(* over a row that is gone unless it is the only one it writes: of a batch *)
(* of UPDATEs asyncpg reports no row count.  A deletion holds the locks of *)
(* its rows from its flush on; the bulk UPDATE of a creation and the       *)
(* writes of a commit take theirs and end with the COMMIT, so each of the  *)
(* two is one step that waits for the rows another deletion holds.         *)
(*                                                                         *)
(* A row is one entry of the list: an instrument that is added again after *)
(* its deletion is another row.  Notes and quotes are left out.            *)
(***************************************************************************)
EXTENDS Naturals, FiniteSets, SequencesExt

CONSTANTS
    Rows,     \* the entries, stored or to be added
    Start,    \* the rows stored at the beginning, in their order
    Slots     \* requests that can be in flight together

ASSUME WatchlistAssumption == Start \in Seq(Rows) \ {<<>>} /\ IsInjective(Start)

VARIABLES
    rows,     \* sort_order of each stored row
    added,    \* every row ever added, in the order of added_at
    ops,      \* the request of each slot
    arranged  \* history: rows a reordering placed since they were added

stored == <<rows, added, ops, arranged>>

NoRows == [i \in {} |-> 0]
NoOp == [kind |-> "none", phase |-> "idle", items |-> <<>>, loaded |-> NoRows,
         view |-> "all", alone |-> TRUE]

Kinds   == {"create", "delete", "reorder", "none"}
Phases  == {"idle", "sent", "read", "flushed", "ok", "refused"}
\* The numbers of stored rows: a number for each row ever added is enough.
IsOrder(order) ==
    DOMAIN order \subseteq ToSet(added) /\ order \in [DOMAIN order -> 0..(Len(added) - 1)]

StoredOK ==
    /\ IsOrder(rows)
    /\ added \in Seq(Rows) /\ IsInjective(added) /\ arranged \subseteq ToSet(added)
    /\ \A k \in Slots :
          /\ ops[k].kind \in Kinds /\ ops[k].phase \in Phases
          /\ ops[k].items \in Seq(Rows) /\ IsInjective(ops[k].items)
          /\ ops[k].kind = "none" <=> ops[k].phase = "idle"
          /\ ops[k].phase = "flushed" => ops[k].kind = "delete"

Added(i) == CHOOSE n \in 1..Len(added) : added[n] = i

\* ORDER BY sort_order, added_at DESC.  A mutant: the earlier one first.
EarlierFirst(order, i, j) == \/ order[i] < order[j]
                             \/ order[i] = order[j] /\ Added(i) < Added(j)
Before(order, i, j) == \/ order[i] < order[j]
                       \/ order[i] = order[j] /\ Added(i) > Added(j)
Place(order) == [i \in DOMAIN order |-> Cardinality({j \in DOMAIN order : Before(order, j, i)})]
Listing(order) ==
    LET place == Place(order) IN
    [n \in 1..Cardinality(DOMAIN order) |-> CHOOSE i \in DOMAIN order : place[i] = n - 1]
Listed == Listing(rows)

Index(s, i) == CHOOSE n \in 1..Len(s) : s[n] = i

StoredInit ==
    /\ rows = [i \in ToSet(Start) |-> Index(Start, i) - 1]
    /\ added = Start /\ arranged = ToSet(Start)
    /\ ops = [k \in Slots |-> NoOp]

(***************************************************************************)
(* What a request writes.                                                  *)
(***************************************************************************)

\* _renumber.  A mutant: it counts from the number of the first row.
RenumbersFrom(s, order) == [i \in ToSet(s) |-> Index(s, i) - 1 + order[s[1]]]
Renumbered(s, order) == [i \in ToSet(s) |-> Index(s, i) - 1]

\* The bulk UPDATE of a creation: the rows its statement saw.  A mutant: only
\* the first place is freed.
FreesTheFirst(seen) == [i \in DOMAIN rows |-> IF i \in seen /\ rows[i] = 0 THEN 1 ELSE rows[i]]
Shifted(seen) == [i \in DOMAIN rows |-> IF i \in seen THEN rows[i] + 1 ELSE rows[i]]

\* The numbers a deletion or a reordering wants, from what it loaded, and the
\* rows it writes for that.
Wanted(op) ==
    IF op.kind = "reorder" THEN Renumbered(op.items, op.loaded)
    ELSE Renumbered(Listing(op.loaded), op.loaded)

Written(op) ==
    IF op.kind = "create" THEN DOMAIN op.loaded \cap DOMAIN rows
    ELSE {i \in DOMAIN op.loaded : Wanted(op)[i] # op.loaded[i]}

\* The single UPDATE of a commit finds no row (StaleDataError).
Lost(op) == \E i \in DOMAIN op.loaded \ DOMAIN rows : Written(op) = {i}

\* The rows other deletions hold.
Holding(j) == IF ops[j].phase = "flushed" THEN ToSet(ops[j].items) ELSE {}
Awaited(k) == IF ops[k].phase = "read" /\ ops[k].kind = "delete" THEN ToSet(ops[k].items)
              ELSE Written(ops[k])
WaitsFor(k, j) == j # k /\ Awaited(k) \cap Holding(j) # {}
Free(k) == \A j \in Slots : ~WaitsFor(k, j)

(***************************************************************************)
(* The statements of a request.                                            *)
(***************************************************************************)

Running(k) == ops[k].phase \in {"read", "flushed"}
Ends(k, phase) ==
    ops' = [ops EXCEPT ![k] = [NoOp EXCEPT !.kind = ops[k].kind, !.phase = phase,
                                           !.view = ops[k].view]]
Refuse(k) == Ends(k, "refused") /\ UNCHANGED <<rows, added, arranged>>

\* The checks: 409 for a row that exists, 404 for one that does not, 422 for a
\* list that does not name every row.
Accepts(op) ==
    CASE op.kind = "create"  -> ToSet(op.items) \cap DOMAIN rows = {}
      [] op.kind = "delete"  -> ToSet(op.items) \subseteq DOMAIN rows
      [] op.kind = "reorder" -> ToSet(op.items) = DOMAIN rows

\* The first statements.  A request is alone when no other runs with it.
Read(k) ==
    /\ ops[k].phase = "sent"
    /\ IF Accepts(ops[k])
       THEN LET others == \E j \in Slots : Running(j) IN
            ops' = [j \in Slots |->
                IF j = k THEN [ops[k] EXCEPT !.phase = "read", !.loaded = rows, !.alone = ~others]
                ELSE [ops[j] EXCEPT !.alone = @ /\ ~Running(j)]]
       ELSE Ends(k, "refused")
    /\ UNCHANGED <<rows, added, arranged>>

\* delete_watchlist_item(s): DELETE, then _normalize_user_order loads the
\* rest.  A row another request has deleted by then is passed over.
Flush(k) ==
    /\ ops[k].phase = "read" /\ ops[k].kind = "delete" /\ Free(k)
    /\ ops' = [ops EXCEPT ![k].phase = "flushed",
                  ![k].loaded = Restrict(rows, DOMAIN rows \ ToSet(ops[k].items))]
    /\ UNCHANGED <<rows, added, arranged>>

\* The row a creation inserts: a new one for the same instrument if the row
\* it names was deleted after the request was sent.
Inserted(op) == IF Head(op.items) \in ToSet(added) THEN Rows \ ToSet(added) ELSE {Head(op.items)}

CommitCreate(k) ==
    LET seen == DOMAIN ops[k].loaded IN
    /\ ops[k].phase = "read" /\ ops[k].kind = "create" /\ Free(k)
    /\ IF Head(ops[k].items) \in DOMAIN rows THEN Refuse(k)
       ELSE \E i \in Inserted(ops[k]) :
            /\ rows' = [j \in DOMAIN rows \cup {i} |->
                           IF j = i THEN 0 ELSE Shifted(seen)[j]]
            /\ added' = Append(added, i)
            /\ Ends(k, "ok") /\ UNCHANGED arranged

\* The rows left, with the numbers written over the stored ones.
Overwritten(op, left) ==
    [i \in left |-> IF i \in Written(op) THEN Wanted(op)[i] ELSE rows[i]]

CommitDelete(k) ==
    /\ ops[k].phase = "flushed" /\ Free(k)
    /\ IF Lost(ops[k]) THEN Refuse(k)
       ELSE /\ rows' = Overwritten(ops[k], DOMAIN rows \ ToSet(ops[k].items))
            /\ Ends(k, "ok") /\ UNCHANGED <<added, arranged>>

CommitReorder(k) ==
    /\ ops[k].phase = "read" /\ ops[k].kind = "reorder" /\ Free(k)
    /\ IF Lost(ops[k]) THEN Refuse(k)
       ELSE /\ rows' = Overwritten(ops[k], DOMAIN rows)
            /\ arranged' = arranged \cup ToSet(ops[k].items)
            /\ Ends(k, "ok") /\ UNCHANGED added

\* Two deletions that wait for each other: the database ends one.
Deadlock(k) ==
    /\ Running(k) /\ \E j \in Slots : WaitsFor(k, j) /\ WaitsFor(j, k)
    /\ Refuse(k)

Commit(k) == CommitCreate(k) \/ CommitDelete(k) \/ CommitReorder(k) \/ Deadlock(k)

ServeStep == \E k \in Slots : Read(k) \/ Flush(k) \/ Commit(k)

(***************************************************************************)
(* Properties.                                                             *)
(***************************************************************************)

\* The row added last is listed first until a reordering names it, whatever
\* other requests run between the statements of its creation: a deletion that
\* renumbers from what it loaded, or a reordering that did not know the row,
\* does not push it down (PRD 7.3: a new row goes to the top).
NewIsOnTop ==
    Last(added) \in DOMAIN rows \ arranged => Head(Listed) = Last(added)

\* What each request is meant to make of the list it finds.
Intended(op) ==
    CASE op.kind = "create"  -> <<Last(added)>>' \o Listed
      [] op.kind = "delete"  -> Listing(Restrict(rows, DOMAIN rows \ ToSet(op.items)))
      [] op.kind = "reorder" -> op.items

Commits(k) == Running(k) /\ ops'[k].phase = "ok"

\* A request no other one ran together with makes of the list what it was
\* meant to, also when earlier ones left equal numbers or gaps.
AloneDoesWhatItSays ==
    [][\A k \in Slots : Commits(k) /\ ops[k].alone => Listed' = Intended(ops[k])]_stored

Dense == {rows[i] : i \in DOMAIN rows} = 0..(Cardinality(DOMAIN rows) - 1)

\* A deletion or reordering that runs alone leaves no gap and no tie, and a
\* creation makes none (PRD: the order closes up after a deletion).
AloneMendsTheNumbers ==
    [][\A k \in Slots :
          Commits(k) /\ ops[k].alone /\ (ops[k].kind = "create" => Dense) => Dense']_stored

=============================================================================
