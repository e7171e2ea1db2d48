---------------------------- MODULE WatchlistPage ----------------------------
(***************************************************************************)
(* The watchlist page of the frontend over the stored watchlist: its URL   *)
(* (a filter, a sort, a page), the cached list of each filter and the      *)
(* fetch of the one shown, the ticks, and one request of each kind at a    *)
(* time.  Another device of the user may send one of its own.              *)
(*                                                                         *)
(* A confirmation or a dialog is one gesture with the click that opens it: *)
(* Escape closes it also while its request runs, so it keeps the visitor   *)
(* from nothing.  The column sorted by is the one of added_at.             *)
(*                                                                         *)
(* A fetch of the list may fail, for good (its one retry is part of it):   *)
(* the page then shows its error state in place of the rows, until a later *)
(* fetch succeeds.  Hiding the page cancels the fetch, which is not made   *)
(* up for before the page is shown again.                                  *)
(***************************************************************************)
EXTENDS Watchlist

CONSTANTS
    Matching,       \* the rows a filter leaves
    PageSize,       \* WATCHLIST_PAGE_SIZE
    Unknown,        \* a list that was not loaded yet
    MaxGestures,    \* bound: clicks of the visitor and faults together
    MaxFaults       \* bound: lost answers, requests of the other device

ASSUME PageAssumption ==
    /\ Slots = {"create", "delete", "batch", "reorder", "device"}
    /\ Matching \subseteq Rows /\ PageSize \in Nat \ {0} /\ Unknown \notin Seq(Rows)
    /\ MaxGestures \in Nat /\ MaxFaults \in Nat

VARIABLES
    url,               \* view, sort, page
    lists, fetch,      \* the cached lists, the fetch of the one shown
    broken,            \* the views whose last fetch failed
    ticks,             \* selectionState: the view it belongs to, the rows
    gestures, faults,  \* bounds
    ticked,            \* history: what the visitor ticked in each view
    foreign            \* history: stored rows changed behind the page's back

page    == <<url, lists, fetch, broken, ticks>>
counts  == <<gestures, faults>>
history == <<ticked, foreign>>
vars    == <<stored, page, counts, history>>

Views == {"all", "matching"}
Sorts == {"custom", "asc", "desc"}
Blank == [view |-> "all", sort |-> "custom", page |-> 1]
Idle  == [phase |-> "idle", items |-> <<>>]
PageSlots == Slots \ {"device"}

Held  == Seq(ToSet(added))

TypeOK ==
    /\ StoredOK
    /\ url \in [view : Views, sort : Sorts, page : Nat \ {0}]
    /\ lists \in [Views -> Held \cup {Unknown}]
    /\ fetch \in [phase : {"idle", "sent", "served", "cancelled"}, items : Held]
    /\ broken \subseteq Views
    /\ ticks \in [view : Views \cup {"none"}, rows : SUBSET ToSet(added)]
    /\ gestures \in 0..MaxGestures /\ faults \in 0..MaxFaults
    /\ ticked \in [Views -> SUBSET ToSet(added)] /\ foreign \in BOOLEAN

Init ==
    /\ StoredInit
    /\ url = Blank /\ lists = [v \in Views |-> Unknown]
    /\ fetch = [Idle EXCEPT !.phase = "sent"] /\ broken = {}
    /\ ticks = [view |-> "none", rows |-> {}]
    /\ gestures = 0 /\ faults = 0
    /\ ticked = [v \in Views |-> {}] /\ foreign = FALSE

(***************************************************************************)
(* What a render derives.                                                  *)
(***************************************************************************)

\* What the server lists for a filter.
InView(v) == Listing(IF v = "all" THEN rows ELSE Restrict(rows, DOMAIN rows \cap Matching))

Items == IF lists[url.view] = Unknown THEN <<>> ELSE lists[url.view]

\* Rows without numbers are listed by added_at, the last one first.
LatestFirst(S) == Listing([i \in S |-> 0])

\* sortWatchlistItems.
Displayed ==
    CASE url.sort = "custom" -> Items
      [] url.sort = "asc"    -> Reverse(LatestFirst(ToSet(Items)))
      [] url.sort = "desc"   -> LatestFirst(ToSet(Items))

TotalPages == IF Items = <<>> THEN 1 ELSE (Len(Items) + PageSize - 1) \div PageSize
Page       == IF url.page <= TotalPages THEN url.page ELSE TotalPages
InPage     == {Displayed[n] : n \in {m \in 1..Len(Displayed) :
                  (Page - 1) * PageSize < m /\ m <= Page * PageSize}}

FetchIsOn == fetch.phase \in {"sent", "served"}

\* The query is in error: a list that was never loaded is pending again while
\* it is fetched, one that was loaded stays in error until a fetch succeeds.
IsError == url.view \in broken /\ ~(lists[url.view] = Unknown /\ FetchIsOn)
OnPage  == IF IsError THEN {} ELSE InPage

\* selectedIds.  A mutant: the ticks of another view count as well.
TicksOfAnyView == ticks.rows
Ticks == IF ticks.view = url.view THEN ticks.rows ELSE {}

CanDrag == url.view = "all" /\ url.sort = "custom" /\ ops["reorder"].phase = "idle"

Fetching == [Idle EXCEPT !.phase = "sent"]

\* The list of another view is fetched when it is shown, and the fetch of the
\* one no longer shown is cancelled.
GoTo(u) == url' = u /\ fetch' = IF u.view = url.view THEN fetch ELSE Fetching

PageDue == url.page > TotalPages

\* The effect behind a list that has become shorter.
ClampPage ==
    /\ PageDue /\ GoTo([url EXCEPT !.page = TotalPages])
    /\ UNCHANGED <<stored, lists, broken, ticks, counts, history>>

(***************************************************************************)
(* The visitor.                                                            *)
(***************************************************************************)

Bounded == gestures + faults < MaxGestures
Gesture == Bounded /\ ~PageDue /\ gestures' = gestures + 1 /\ UNCHANGED faults

Browse(u) == u # url /\ GoTo(u) /\ UNCHANGED <<stored, lists, broken, ticks, history>>

SetView(v) == v # url.view /\ Browse([url EXCEPT !.view = v, !.page = 1])

\* requestSort: the column again turns the direction.
RequestSort(column) ==
    Browse([url EXCEPT !.page = 1, !.sort = IF ~column THEN "custom"
                                            ELSE IF url.sort = "desc" THEN "asc" ELSE "desc"])

ClearFilters == (url.view # "all" \/ url.sort # "custom") /\ Browse(Blank)

GoToPage(n) == Browse([url EXCEPT !.page = n])

SetTicks(S) ==
    /\ ticks' = [view |-> url.view, rows |-> S]
    /\ UNCHANGED <<stored, url, lists, fetch, broken, foreign>>

\* A tick drawn is taken away, another one added.
ToggleSelected(i) ==
    /\ i \in OnPage
    /\ IF i \in Ticks
       THEN SetTicks(Ticks \ {i}) /\ ticked' = [ticked EXCEPT ![url.view] = @ \ {i}]
       ELSE SetTicks(Ticks \cup {i}) /\ ticked' = [ticked EXCEPT ![url.view] = @ \cup {i}]

ToggleSelectAll ==
    IF OnPage # {} /\ OnPage \subseteq Ticks
    THEN SetTicks(Ticks \ OnPage) /\ ticked' = [ticked EXCEPT ![url.view] = @ \ OnPage]
    ELSE SetTicks(Ticks \cup OnPage) /\ ticked' = [ticked EXCEPT ![url.view] = @ \cup OnPage]

\* A request of each kind at a time: its button is disabled while it runs.
Send(k, kind, items) ==
    /\ ops[k].phase = "idle"
    /\ ops' = [ops EXCEPT ![k] = [NoOp EXCEPT !.kind = kind, !.phase = "sent",
                                              !.items = items,
                                              !.view = IF k = "batch" THEN url.view ELSE "all"]]
    /\ UNCHANGED <<rows, added, arranged, page, history>>

\* What the dialog's search offers: an instrument in no list, which makes a new
\* row, and one that is listed already, which the server refuses.
Offered(i) == i \notin ToSet(added) \/ i \in DOMAIN rows

SubmitCreate(i) == Offered(i) /\ Send("create", "create", <<i>>)

ConfirmDelete(i) == i \in OnPage /\ Send("delete", "delete", <<i>>)

\* The rows of a batch deletion, whose order makes no difference.
Marked == Ticks \cap ToSet(Displayed)
ConfirmBatch == Marked # {} /\ Send("batch", "delete", LatestFirst(Marked))

\* dropRow: row i is dropped on row j.  A mutant: it stays where it was, too.
Copies(i, j) == InsertAt(Items, Index(Items, j), i)
Dropped(i, j) ==
    LET others == RemoveAt(Items, Index(Items, i)) IN InsertAt(others, Index(others, j), i)
DropRow(i, j) == CanDrag /\ {i, j} \subseteq OnPage /\ i # j /\ Send("reorder", "reorder", Dropped(i, j))

\* moveRow: a row changes places with the one below it, or above it.
MoveRow(i, n) ==
    /\ CanDrag /\ i \in OnPage
    /\ LET m == Index(Items, i) IN
       /\ n \in {m - 1, m + 1}
       /\ Send("reorder", "reorder", [Items EXCEPT ![m] = Items[n], ![n] = i])

\* What the components of the page offer.
FiltersPanel == ClearFilters \/ \E v \in Views : SetView(v)
TableHead    == ~IsError /\ (ToggleSelectAll \/ \E column \in BOOLEAN : RequestSort(column))
TableRow(i)  == ToggleSelected(i) \/ ConfirmDelete(i) \/ \E j \in Rows : DropRow(i, j)
Card(i)      == ToggleSelected(i) \/ ConfirmDelete(i) \/ \E n \in 1..Len(Items) : MoveRow(i, n)
Pagination   == ~FetchIsOn /\ ~IsError /\ \E n \in {Page - 1, Page + 1} \cap (1..TotalPages) : GoToPage(n)
AddDialog    == \E i \in Rows : SubmitCreate(i)

Visit ==
    Gesture /\ (\/ FiltersPanel \/ TableHead \/ ConfirmBatch \/ Pagination \/ AddDialog
                \/ \E i \in Rows : TableRow(i) \/ Card(i))

(***************************************************************************)
(* Requests and answers.                                                   *)
(***************************************************************************)

Serve ==
    /\ ServeStep
    /\ foreign' = (foreign \/ (ops["device"].phase # "ok" /\ ops'["device"].phase = "ok"))
    /\ UNCHANGED <<page, counts, ticked>>

\* useInvalidateWatchlist.  A mutant: a fetch on the way is not replaced.
InvalidateJoins == IF FetchIsOn THEN fetch ELSE Fetching
Invalidated == Fetching

\* The ticks are taken away under the view of the click.
Answered(k) ==
    /\ k \in PageSlots /\ ops[k].phase = "ok"
    /\ ops' = [ops EXCEPT ![k] = NoOp] /\ fetch' = Invalidated
    /\ IF k = "batch"
       THEN ticks' = [view |-> ops[k].view, rows |-> {}]
            /\ ticked' = [ticked EXCEPT ![ops[k].view] = {}]
       ELSE UNCHANGED <<ticks, ticked>>
    /\ UNCHANGED <<rows, added, arranged, url, lists, broken, counts, foreign>>

\* The confirmation or the dialog stays; nothing is fetched.
Failed(k) ==
    /\ \/ ops[k].phase = "refused"
       \/ k = "device" /\ ops[k].phase = "ok"
    /\ ops' = [ops EXCEPT ![k] = NoOp]
    /\ UNCHANGED <<rows, added, arranged, page, counts, history>>

Answer == \E k \in Slots : Answered(k) \/ Failed(k)

(***************************************************************************)
(* The query.                                                              *)
(***************************************************************************)

\* refetchInterval, the page shown again, or a button: refresh, try again.
Poll ==
    /\ ~FetchIsOn /\ fetch' = Fetching
    /\ UNCHANGED <<stored, url, lists, broken, ticks, counts, history>>

ServeList ==
    /\ fetch.phase = "sent"
    /\ fetch' = [phase |-> "served", items |-> InView(url.view)]
    /\ foreign' = FALSE
    /\ UNCHANGED <<stored, url, lists, broken, ticks, counts, ticked>>

ReceiveList ==
    /\ fetch.phase = "served"
    /\ lists' = [lists EXCEPT ![url.view] = fetch.items] /\ fetch' = Idle
    /\ broken' = broken \ {url.view}
    /\ UNCHANGED <<stored, url, ticks, counts, history>>

\* The page is hidden: LiveQueryVisibilityManager cancels its fetch.
Hide ==
    /\ FetchIsOn /\ fetch' = [Idle EXCEPT !.phase = "cancelled"]
    /\ UNCHANGED <<stored, url, lists, broken, ticks, counts, history>>

(***************************************************************************)
(* Faults.                                                                 *)
(***************************************************************************)

Fault == Bounded /\ faults < MaxFaults /\ faults' = faults + 1 /\ UNCHANGED gestures

\* A request, or the answer to one that was carried out, is lost.
Lose(k) ==
    /\ k \in PageSlots /\ ops[k].phase \in {"sent", "ok"} /\ Fault
    /\ foreign' = (foreign \/ ops[k].phase = "ok")
    /\ Ends(k, "refused") /\ UNCHANGED <<rows, added, arranged, page, ticked>>

\* The fetch of the list fails, or its answer is lost.
LoseList ==
    /\ FetchIsOn /\ Fault
    /\ fetch' = Idle /\ broken' = broken \cup {url.view}
    /\ UNCHANGED <<stored, url, lists, ticks, history>>

\* The other device, or the radar page of this one.
OtherDevice ==
    /\ Fault
    /\ \/ \E i \in Rows : Offered(i) /\ Send("device", "create", <<i>>)
       \/ \E i \in DOMAIN rows : Send("device", "delete", <<i>>)
       \/ Send("device", "reorder", Reverse(Listed))

Next ==
    \/ ClampPage \/ Visit \/ Serve \/ Answer \/ Poll \/ ServeList \/ ReceiveList \/ Hide
    \/ (\E k \in Slots : Lose(k)) \/ LoseList \/ OtherDevice

Spec == Init /\ [][Next]_vars

(***************************************************************************)
(* Properties.                                                             *)
(***************************************************************************)

\* Once every request of the page is answered and no fetch is on the way, was
\* cancelled or has failed, the list shown is the stored one, unless another
\* device, or a request whose answer was lost, changed it since it was fetched
\* (PRD 11.1: additions, deletions and the order are not overwritten by the
\* polling).
Quiet == fetch.phase = "idle" /\ url.view \notin broken /\ \A k \in PageSlots : ops[k].phase = "idle"
QuietPageShowsWhatIsStored ==
    Quiet /\ ~foreign /\ lists[url.view] # Unknown => Items = InView(url.view)

\* The ticks drawn, which the batch deletion goes by, are ones the visitor made
\* in the view shown: those of another view do not come along (PRD 9.2: rows
\* that were not chosen are not touched).
TicksAreOfThisView == Ticks \subseteq ticked[url.view]

=============================================================================
