--------------------------- MODULE PortfoliosPage ---------------------------
(***************************************************************************)
(* The portfolios page of the frontend: its URL, the list of portfolios    *)
(* with the fallback of the selection, the table of open holdings with its *)
(* filter, sort, pages and dragged order, the dialogs, and the requests    *)
(* these send, against a server that keeps the order of the portfolios,    *)
(* the default one and the open holdings of each.                          *)
(*                                                                         *)
(* The URL holds what the page shows.  Every handler writes the whole URL  *)
(* from the string its render saw, so a handler that awaits an answer      *)
(* writes back the URL of the click (`at' in a request).  The effects of a *)
(* commit run before the visitor's next gesture.                           *)
(*                                                                         *)
(* The table of closed holdings is taken as empty and figures are left     *)
(* out: a sorted table shows its holdings in some order.                   *)
(***************************************************************************)
EXTENDS Naturals, FiniteSets, SequencesExt

CONSTANTS
    Portfolios,     \* the ids the server may hand out
    Holdings,       \* the holdings
    None,           \* no portfolio, no holding
    Unknown,        \* a list that was not loaded yet
    Start,          \* the portfolios stored at the beginning, the default one first
    Home,           \* the open holdings of each portfolio at the beginning
    Matching,       \* the holdings the filter leaves
    PageSize,       \* HOLDINGS_PAGE_SIZE
    MaxGestures,    \* bound: clicks of the visitor
    MaxFaults       \* bound: lost answers, deletions by another device

ASSUME PageAssumption ==
    /\ None \notin Portfolios \cup Holdings /\ Portfolios \cap Holdings = {}
    /\ Unknown \notin Seq(Holdings) /\ Matching \subseteq Holdings
    /\ Start \in Seq(Portfolios) /\ Start # <<>> /\ IsInjective(Start)
    /\ Home \in [Portfolios -> Seq(Holdings)] /\ \A p \in Portfolios : IsInjective(Home[p])
    /\ PageSize \in Nat \ {0} /\ MaxGestures \in Nat /\ MaxFaults \in Nat

VARIABLES
    order, standard, held,  \* server: portfolios, the default one, open holdings
    ever,                   \* server: the ids handed out
    url,                    \* what the page shows
    rail, railFetch,        \* the cached list of portfolios and its fetch
    lists, listFetch,       \* the cached lists of holdings and the fetch of the one shown
    overlay,                \* openOrderIdsByPortfolio
    dialog, asking,         \* the dialog of a new portfolio; what a confirmation is about
    ops,                    \* the request of each kind
    gestures, faults,       \* bounds
    newest, hasty           \* history: see the properties

server == <<order, standard, held, ever>>
cached == <<rail, railFetch, lists, listFetch>>
local  == <<url, overlay, dialog, asking>>
counts == <<gestures, faults>>
past   == <<newest, hasty>>
vars   == <<server, cached, local, ops, counts, past>>

Kinds == {"create", "delete", "default", "move", "reorder", "drop"}
Views == {"all", "matching"}
Keys  == Portfolios \X Views

Blank == [portfolio |-> None, tab |-> "open", filtered |-> FALSE, sort |-> "none", page |-> 1]
NoOp  == [phase |-> "idle", portfolio |-> None, items |-> <<>>, before |-> <<>>,
          flag |-> FALSE, at |-> Blank]
NoRailFetch == [phase |-> "idle", items |-> <<>>, standard |-> None]
NoListFetch == [phase |-> "idle", key |-> None, items |-> Unknown]

Url == [portfolio : Portfolios \cup {None}, tab : {"open", "closed"}, filtered : BOOLEAN,
        sort : {"none", "asc", "desc"}, page : Nat \ {0}]

TypeOK ==
    /\ order \in Seq(ever) /\ IsInjective(order) /\ ever \subseteq Portfolios
    /\ standard \in IF order = <<>> THEN {None} ELSE ToSet(order)
    /\ held \in [Portfolios -> Seq(Holdings)]
    /\ url \in Url
    /\ rail \in [known : BOOLEAN, items : Seq(ever), standard : ever \cup {None}]
    /\ railFetch \in [phase : {"idle", "sent", "served"}, items : Seq(ever),
                      standard : ever \cup {None}]
    /\ lists \in [Keys -> Seq(Holdings) \cup {Unknown}]
    /\ listFetch \in [phase : {"idle", "sent", "served"}, key : Keys \cup {None},
                      items : Seq(Holdings) \cup {Unknown}]
    /\ overlay \in [Portfolios -> Seq(Holdings)] /\ \A p \in Portfolios : IsInjective(overlay[p])
    /\ dialog \in BOOLEAN /\ asking \in ever \cup Holdings \cup {None}
    /\ \A k \in Kinds :
          /\ ops[k].phase \in {"idle", "sent", "ok", "refused"}
          /\ ops[k].portfolio \in ever \cup {None} /\ ops[k].at \in Url
    /\ gestures \in 0..MaxGestures /\ faults \in 0..MaxFaults
    /\ newest \in ever \cup {None} /\ hasty \subseteq {"move", "reorder"}

(***************************************************************************)
(* What the page derives from its state in every render.                   *)
(***************************************************************************)

\* What a filter leaves of a list without repetitions, in the order of it.
Kept(s, S) ==
    LET places == {n \in 1..Len(s) : s[n] \in S} IN
    [m \in 1..Cardinality(places) |->
        s[CHOOSE n \in places : Cardinality({k \in places : k <= n}) = m]]
Without(s, x) == Kept(s, ToSet(s) \ {x})

\* reconcileOrderIds, which applyHoldingOrder then applies.
Reconcile(ids, items) == Kept(ids, ToSet(items)) \o Kept(items, ToSet(items) \ ToSet(ids))

Selected == IF Contains(rail.items, url.portfolio) THEN url.portfolio ELSE None

Key(u)    == <<u.portfolio, IF u.filtered THEN "matching" ELSE "all">>
Wanted(u) == u.portfolio # None /\ u.tab = "open"

Items   == IF Wanted(url) /\ lists[Key(url)] # Unknown THEN lists[Key(url)] ELSE <<>>
Ordered == IF Wanted(url) THEN Reconcile(overlay[url.portfolio], Items) ELSE <<>>

TotalPages == IF Items = <<>> THEN 1 ELSE (Len(Items) + PageSize - 1) \div PageSize
Page       == IF url.page <= TotalPages THEN url.page ELSE TotalPages

\* The rows of the page that is open.
Rows == IF url.sort # "none" THEN ToSet(Items)
        ELSE {Ordered[i] : i \in {j \in 1..Len(Ordered) :
                 (Page - 1) * PageSize < j /\ j <= Page * PageSize}}

CanReorder == /\ Wanted(url) /\ ~url.filtered /\ url.sort = "none"
              /\ Len(Items) > 1 /\ ops["reorder"].phase = "idle"

\* The fetch that goes with a URL: a list is fetched when the page begins to
\* show it, and the fetch of a list no longer shown is cancelled.
Fetching(key) == [phase |-> "sent", key |-> key, items |-> Unknown]
Observed(u) ==
    IF ~Wanted(u) THEN NoListFetch
    ELSE IF Wanted(url) /\ Key(u) = Key(url) THEN listFetch
    ELSE Fetching(Key(u))
GoTo(u) == url' = u /\ listFetch' = Observed(u)

RailFetching == [NoRailFetch EXCEPT !.phase = "sent"]

\* useInvalidatePortfolios; the answer of a fetch begun before is dropped.
InvalidateRail == railFetch' = RailFetching

(***************************************************************************)
(* The effects.                                                            *)
(***************************************************************************)

FirstOf(items) == IF items = <<>> THEN None ELSE Head(items)

Fallback == IF Contains(rail.items, rail.standard) THEN rail.standard ELSE FirstOf(rail.items)

SelectDue == rail.known /\ ~Contains(rail.items, url.portfolio) /\ url.portfolio # Fallback

\* A mutant of Clamped: one page too far.
ClampsBeyond(u) == [u EXCEPT !.page = TotalPages + 1]
Clamped(u) == [u EXCEPT !.page = TotalPages]
PageDue    == url.page > TotalPages

EffectDue == SelectDue \/ PageDue

\* Both effects of a commit start from the same URL, and the later one wins.
RunEffects ==
    /\ EffectDue
    /\ GoTo(IF PageDue THEN Clamped(url) ELSE [url EXCEPT !.portfolio = Fallback])
    /\ UNCHANGED <<server, rail, railFetch, lists, overlay, dialog, asking, ops, counts, past>>

(***************************************************************************)
(* The visitor.                                                            *)
(***************************************************************************)

\* One click; the effects have run by then.
Gesture == gestures < MaxGestures /\ ~EffectDue /\ gestures' = gestures + 1 /\ UNCHANGED faults

\* No dialog covers the page, and a portfolio is shown.
Free  == ~dialog /\ asking = None
Ready == Free /\ Selected # None

Browse(u) ==
    /\ GoTo(u)
    /\ UNCHANGED <<server, rail, railFetch, lists, overlay, dialog, asking, ops, hasty>>

Select(p) ==
    /\ Free /\ Contains(rail.items, p) /\ p # url.portfolio
    /\ Browse([url EXCEPT !.portfolio = p])
    /\ newest' = None

SetTab(t) ==
    /\ Ready /\ t # url.tab
    /\ Browse([url EXCEPT !.tab = t, !.page = 1]) /\ UNCHANGED newest

SetFilter(b) ==
    /\ Ready /\ b # url.filtered
    /\ Browse([url EXCEPT !.filtered = b, !.page = 1]) /\ UNCHANGED newest

\* A click on the heading sorted by, or on another one.
NextSort(same) == IF ~same \/ url.sort = "none" THEN "asc"
                  ELSE IF url.sort = "asc" THEN "desc" ELSE "none"
ToggleSort(same) ==
    /\ Ready
    /\ Browse([url EXCEPT !.sort = NextSort(same), !.page = 1]) /\ UNCHANGED newest

GoToPage(n) ==
    /\ Ready /\ n # url.page /\ n <= TotalPages
    /\ Browse([url EXCEPT !.page = n]) /\ UNCHANGED newest

ResetList ==
    /\ Ready
    /\ GoTo([url EXCEPT !.filtered = FALSE, !.sort = "none", !.page = 1])
    /\ overlay' = [overlay EXCEPT ![url.portfolio] = <<>>]
    /\ UNCHANGED <<server, rail, railFetch, lists, dialog, asking, ops, past>>

\* The button of the rail; Escape closes a dialog also while it saves.
OpenDialog(b) ==
    /\ dialog # b /\ (b => Free) /\ dialog' = b
    /\ UNCHANGED <<server, cached, url, overlay, asking, ops, past>>

\* A confirmation is opened and dismissed.
Ask(x) ==
    /\ IF x = None THEN asking # None ELSE Ready /\ x \in {Selected} \cup Rows
    /\ asking' = x
    /\ UNCHANGED <<server, cached, url, overlay, dialog, ops, past>>

\* A request of each kind at a time: its button is disabled while it runs.  (A
\* dialog closed while it saves and opened again could send a second creation;
\* that is left out.)
Send(k, op) ==
    /\ ops[k].phase = "idle"
    /\ ops' = [ops EXCEPT ![k] = [op EXCEPT !.phase = "sent"]]
    /\ UNCHANGED <<server, cached, url, dialog, asking>>

SubmitCreate(b) ==
    /\ dialog /\ Send("create", [NoOp EXCEPT !.flag = b, !.at = url]) /\ UNCHANGED <<overlay, past>>

ConfirmDelete ==
    /\ asking \in Portfolios
    /\ Send("delete", [NoOp EXCEPT !.portfolio = asking, !.at = url]) /\ UNCHANGED <<overlay, past>>

ConfirmDrop ==
    /\ asking \in Holdings /\ url.portfolio # None
    /\ Send("drop", [NoOp EXCEPT !.portfolio = url.portfolio, !.items = <<asking>>])
    /\ UNCHANGED <<overlay, past>>

SetDefault ==
    /\ Ready /\ Selected # rail.standard
    /\ Send("default", [NoOp EXCEPT !.portfolio = Selected]) /\ UNCHANGED <<overlay, past>>

\* A mutant of Swapped: with the first one.
SwapsWithFirst(s, i) == [s EXCEPT ![1] = s[i], ![i] = s[1]]
Swapped(s, i) == [s EXCEPT ![i - 1] = s[i], ![i] = s[i - 1]]

\* movePortfolio.  hasty: from a list that is about to be replaced.
Move(i) ==
    /\ Free /\ i \in 2..Len(rail.items)
    /\ Send("move", [NoOp EXCEPT !.items = Swapped(rail.items, i)])
    /\ hasty' = IF railFetch.phase = "idle" THEN hasty ELSE hasty \cup {"move"}
    /\ UNCHANGED <<overlay, newest>>

\* The refresh button, which is disabled while a fetch is on the way, or the
\* focus of the window, which leaves such a fetch alone and fetches the
\* portfolios only if they are stale.
Refresh ==
    /\ UNCHANGED railFetch \/ (railFetch.phase = "idle" /\ InvalidateRail)
    /\ listFetch' = IF Wanted(url) /\ listFetch.phase = "idle" THEN Fetching(Key(url)) ELSE listFetch
    /\ UNCHANGED <<server, rail, lists, local, ops, past>>

Position(s, h) == CHOOSE n \in 1..Len(s) : s[n] = h
\* A mutant of Dragged: the row stays where it was, too.
Copied(s, h, g) == InsertAt(s, Position(s, g), h)
Dragged(s, h, g) == InsertAt(Without(s, h), Position(s, g), h)

\* reorderOpenHoldings: row h is dropped on row g.  hasty: from the order of a
\* list that is about to be replaced.
Drag(h, g) ==
    /\ Ready /\ CanReorder /\ {h, g} \subseteq Rows /\ h # g
    /\ Send("reorder", [NoOp EXCEPT !.portfolio = url.portfolio, !.before = Ordered,
                                    !.items = Dragged(Ordered, h, g)])
    /\ overlay' = [overlay EXCEPT ![url.portfolio] = Dragged(Ordered, h, g)]
    /\ hasty' = IF overlay[url.portfolio] # <<>> \/ listFetch.phase = "idle" THEN hasty
                ELSE hasty \cup {"reorder"}
    /\ UNCHANGED newest

(***************************************************************************)
(* The server: one commit per request, or a refusal.                       *)
(***************************************************************************)

Finish(k, phase) == ops' = [ops EXCEPT ![k].phase = phase]
Refuse(k) == Finish(k, "refused") /\ UNCHANGED server

ServeCreate ==
    \/ \E p \in Portfolios \ ever :
          /\ ever' = ever \cup {p} /\ order' = Append(order, p)
          /\ standard' = IF ops["create"].flag \/ order = <<>> THEN p ELSE standard
          /\ ops' = [ops EXCEPT !["create"].phase = "ok", !["create"].portfolio = p]
          /\ UNCHANGED held
    \/ Refuse("create")

Removed(p) ==
    /\ order' = Without(order, p)
    /\ standard' = IF standard = p THEN FirstOf(Without(order, p)) ELSE standard
    /\ held' = [held EXCEPT ![p] = <<>>]
    /\ UNCHANGED ever

ServeDelete ==
    IF Contains(order, ops["delete"].portfolio)
    THEN Removed(ops["delete"].portfolio) /\ Finish("delete", "ok")
    ELSE Refuse("delete")

ServeDefault ==
    IF Contains(order, ops["default"].portfolio)
    THEN standard' = ops["default"].portfolio /\ Finish("default", "ok")
         /\ UNCHANGED <<order, held, ever>>
    ELSE Refuse("default")

\* The submitted list must name every portfolio, or every open holding.
ServeMove ==
    IF ToSet(ops["move"].items) = ToSet(order)
    THEN order' = ops["move"].items /\ Finish("move", "ok") /\ UNCHANGED <<standard, held, ever>>
    ELSE Refuse("move")

ServeReorder ==
    LET op == ops["reorder"] IN
    IF ToSet(op.items) = ToSet(held[op.portfolio]) /\ Contains(order, op.portfolio)
    THEN held' = [held EXCEPT ![op.portfolio] = op.items] /\ Finish("reorder", "ok")
         /\ UNCHANGED <<order, standard, ever>>
    ELSE Refuse("reorder")

ServeDrop ==
    LET op == ops["drop"] IN
    IF Contains(held[op.portfolio], Head(op.items))
    THEN held' = [held EXCEPT ![op.portfolio] = Without(@, Head(op.items))] /\ Finish("drop", "ok")
         /\ UNCHANGED <<order, standard, ever>>
    ELSE Refuse("drop")

Served(k) ==
    CASE k = "create" -> ServeCreate [] k = "delete" -> ServeDelete
      [] k = "default" -> ServeDefault [] k = "move" -> ServeMove
      [] k = "reorder" -> ServeReorder [] k = "drop" -> ServeDrop

Serve(k) ==
    /\ ops[k].phase = "sent" /\ Served(k)
    /\ UNCHANGED <<cached, local, counts, past>>

(***************************************************************************)
(* The answers.                                                            *)
(***************************************************************************)

\* useInvalidateHoldings, and the onSuccess of the reordering.
InvalidateLists(p) ==
    listFetch' = IF Wanted(url) /\ url.portfolio = p THEN Fetching(Key(url)) ELSE listFetch

\* A mutant of Forgotten: deleted portfolios stay in the cache.
Remembered(p) == lists
Forgotten(p) == [k \in Keys |-> IF k[1] = p THEN Unknown ELSE lists[k]]

\* A mutant of RolledBack: the dragged order stays.
StaysDragged(op) == overlay
RolledBack(op) == [overlay EXCEPT ![op.portfolio] = op.before]

Answered(k, phase) == ops[k].phase = phase /\ ops' = [ops EXCEPT ![k] = NoOp]

\* onCreated selects the new portfolio, in the URL of the submission.
CreateAnswered ==
    LET op == ops["create"] IN
    /\ Answered("create", "ok")
    /\ GoTo([op.at EXCEPT !.portfolio = op.portfolio])
    /\ InvalidateRail /\ dialog' = FALSE /\ newest' = op.portfolio
    /\ UNCHANGED <<server, rail, lists, overlay, asking, counts, hasty>>

\* The cached lists of the deleted portfolio are removed with their fetch.
DeleteAnswered ==
    LET op == ops["delete"] IN
    /\ Answered("delete", "ok")
    /\ GoTo([op.at EXCEPT !.portfolio = None])
    /\ InvalidateRail /\ lists' = Forgotten(op.portfolio)
    /\ asking' = IF asking \in Portfolios THEN None ELSE asking
    /\ UNCHANGED <<server, rail, overlay, dialog, counts, past>>

\* The new default portfolio, or the new order of the portfolios.
RailAnswered(k) ==
    /\ k \in {"default", "move"} /\ Answered(k, "ok") /\ InvalidateRail
    /\ UNCHANGED <<server, rail, lists, listFetch, local, counts, past>>

\* The options of a mutation follow the render: its answer invalidates the
\* portfolio shown by then.
ReorderAnswered ==
    /\ Answered("reorder", "ok") /\ InvalidateLists(url.portfolio)
    /\ UNCHANGED <<server, rail, railFetch, lists, local, counts, past>>

DropAnswered ==
    /\ Answered("drop", "ok") /\ InvalidateLists(url.portfolio) /\ InvalidateRail
    /\ asking' = IF asking \in Holdings THEN None ELSE asking
    /\ UNCHANGED <<server, rail, lists, url, overlay, dialog, counts, past>>

\* An error leaves the dialog or the confirmation open.
Failed(k) ==
    /\ Answered(k, "refused")
    /\ overlay' = IF k = "reorder" THEN RolledBack(ops[k]) ELSE overlay
    /\ UNCHANGED <<server, cached, url, dialog, asking, counts, past>>

(***************************************************************************)
(* The queries.                                                            *)
(***************************************************************************)

ServeRail ==
    /\ railFetch.phase = "sent"
    /\ railFetch' = [phase |-> "served", items |-> order, standard |-> standard]
    /\ UNCHANGED <<server, rail, lists, listFetch, local, ops, counts, past>>

ServeList ==
    /\ listFetch.phase = "sent"
    /\ LET p == listFetch.key[1] IN
       listFetch' = [listFetch EXCEPT !.phase = "served", !.items =
           IF ~Contains(order, p) THEN Unknown
           ELSE IF listFetch.key[2] = "all" THEN held[p]
           ELSE Kept(held[p], Matching)]
    /\ UNCHANGED <<server, rail, railFetch, lists, local, ops, counts, past>>

ReceiveRail ==
    /\ railFetch.phase = "served"
    /\ rail' = [known |-> TRUE, items |-> railFetch.items, standard |-> railFetch.standard]
    /\ railFetch' = NoRailFetch
    /\ UNCHANGED <<server, lists, listFetch, local, ops, counts, past>>

\* A 404 for a deleted portfolio leaves what is cached.
ReceiveList ==
    /\ listFetch.phase = "served"
    /\ lists' = IF listFetch.items = Unknown THEN lists
                ELSE [lists EXCEPT ![listFetch.key] = listFetch.items]
    /\ listFetch' = NoListFetch
    /\ UNCHANGED <<server, rail, railFetch, local, ops, counts, past>>

(***************************************************************************)
(* Faults.                                                                 *)
(***************************************************************************)

Fault == faults < MaxFaults /\ faults' = faults + 1 /\ UNCHANGED gestures

\* A request, or the answer to a request that was carried out, is lost.
Lose(k) ==
    /\ ops[k].phase \in {"sent", "ok"} /\ Fault /\ Finish(k, "refused")
    /\ UNCHANGED <<server, cached, local, past>>

LoseFetches ==
    /\ railFetch.phase # "idle" \/ listFetch.phase # "idle"
    /\ Fault /\ railFetch' = NoRailFetch /\ listFetch' = NoListFetch
    /\ UNCHANGED <<server, rail, lists, local, ops, past>>

DeleteElsewhere(p) ==
    /\ Contains(order, p) /\ Fault /\ Removed(p)
    /\ UNCHANGED <<cached, local, ops, past>>

Init ==
    /\ order = Start /\ standard = Head(Start) /\ ever = ToSet(Start)
    /\ held = Home
    /\ url = Blank
    /\ rail = [known |-> FALSE, items |-> <<>>, standard |-> None]
    /\ railFetch = RailFetching
    /\ lists = [k \in Keys |-> Unknown] /\ listFetch = NoListFetch
    /\ overlay = [p \in Portfolios |-> <<>>]
    /\ dialog = FALSE /\ asking = None
    /\ ops = [k \in Kinds |-> NoOp]
    /\ gestures = 0 /\ faults = 0 /\ newest = None /\ hasty = {}

\* What the components of the page offer.
Rail      == OpenDialog(TRUE) \/ (\E p \in Portfolios : Select(p))
                \/ \E i \in 1..Len(rail.items) : Move(i)
Header    == SetDefault \/ Refresh \/ Ask(Selected)
Filters   == ResetList \/ \E b \in BOOLEAN : SetFilter(b)
Workspace == \/ Filters \/ \E t \in {"open", "closed"} : SetTab(t)
             \/ \E n \in {Page - 1, Page + 1} \cap (1..TotalPages) : GoToPage(n)
Headings  == \E same \in BOOLEAN : ToggleSort(same)
TableRows == \E h \in Holdings : Ask(h) \/ \E g \in Holdings : Drag(h, g)
Dialog    == OpenDialog(FALSE) \/ \E b \in BOOLEAN : SubmitCreate(b)
Confirm   == Ask(None) \/ ConfirmDelete \/ ConfirmDrop

Visit == Gesture /\ (Rail \/ Header \/ Workspace \/ Headings \/ TableRows \/ Dialog \/ Confirm)

Answer ==
    \/ CreateAnswered \/ DeleteAnswered \/ ReorderAnswered \/ DropAnswered
    \/ \E k \in Kinds : RailAnswered(k) \/ Failed(k)

Query == ServeRail \/ ServeList \/ ReceiveRail \/ ReceiveList

Next ==
    \/ RunEffects \/ Visit \/ Answer \/ Query \/ LoseFetches
    \/ \E k \in Kinds : Serve(k) \/ Lose(k)
    \/ \E p \in Portfolios : DeleteElsewhere(p)

Spec == Init /\ [][Next]_vars

\* React runs the effects of every commit.
FairSpec == Spec /\ WF_vars(RunEffects)

(***************************************************************************)
(* Properties.                                                             *)
(***************************************************************************)

\* Nothing is in flight and nothing is left to render.
Quiet ==
    /\ rail.known /\ railFetch.phase = "idle" /\ listFetch.phase = "idle" /\ ~EffectDue
    /\ \A k \in Kinds : ops[k].phase = "idle"

\* Once the answers are in, the page shows what the server stores: the
\* portfolios in their order with the default one, one of them selected, and
\* the open holdings in the order the visitor dragged them to, unless that
\* was refused (invalidations, fallback of the selection, optimistic order
\* and rollback in use-portfolios-controller.ts).  The order of the holdings
\* is that of the server only if none was dragged in a list about to be
\* replaced: the rollback of a refused drag brings back the list it began
\* with, however old.
QuietPageShowsWhatIsStored ==
    Quiet /\ faults = 0 =>
        /\ rail.items = order /\ rail.standard = standard
        /\ IF order = <<>> THEN url.portfolio = None ELSE Contains(order, url.portfolio)
        /\ Wanted(url) /\ ~url.filtered =>
              IF "reorder" \in hasty THEN ToSet(Ordered) = ToSet(held[url.portfolio])
              ELSE Ordered = held[url.portfolio]

\* Nothing of a portfolio deleted here stays in the cache, whatever was in
\* flight (useDeletePortfolioMutation).
DeletedIsForgotten ==
    faults = 0 /\ ops["delete"].phase = "idle" =>
        \A k \in Keys : k[1] \in ever \ ToSet(order) => lists[k] = Unknown

\* A move exchanges two neighbours and keeps what earlier moves did, unless
\* it was sent before the list of the earlier one had arrived (movePortfolio
\* computes the whole order from the cached list).
OneSwapAtATime ==
    []["move" \notin hasty /\ faults = 0 /\ order' # order /\ ToSet(order') = ToSet(order) =>
          \E i \in 2..Len(order) : order' = [order EXCEPT ![i - 1] = order[i], ![i] = order[i - 1]]
      ]_order

\* The effects, each of which writes back the URL of its own, come to an end.
EffectsEnd == EffectDue ~> ~EffectDue

\* A portfolio created on the page becomes the one selected
\* (Dibobo-Portfolio-Management-PRD.md:155).
NewIsSelected == Quiet /\ newest # None /\ faults = 0 => url.portfolio = newest
=============================================================================
