---------------------------- MODULE OverviewPage ----------------------------
(***************************************************************************)
(* The market overview of the frontend: five A-share modules and the       *)
(* panel of the global market, each a live query; the manager that         *)
(* refreshes live queries when the page is shown again; the button that    *)
(* refreshes every module one after the other; and the buttons that make   *)
(* the server collect one group of the global market.                      *)
(*                                                                         *)
(* A query has one fetch at a time: every refresh here joins a fetch that  *)
(* is under way (cancelRefetch: false).  A fetch that failed is tried once *)
(* more, and waits for that while the page is hidden.                      *)
(*                                                                         *)
(* Of an A-share module only whether it has data is kept; of the global    *)
(* market the number of each group's snapshot and whether it was being     *)
(* collected when it was read.                                             *)
(***************************************************************************)
EXTENDS Naturals, SequencesExt

CONSTANTS
    Modules,        \* the A-share modules, in the order of the page
    Delayed,        \* those whose first fetch is delayed
    Global,         \* the query of the global market
    Groups,         \* the groups of the global market
    None,           \* no query
    MaxGestures,    \* bound: clicks, and changes of focus and visibility
    MaxFaults       \* bound: lost requests, collections by the scheduler

ASSUME OverviewAssumption ==
    /\ Modules \in Seq(ToSet(Modules)) /\ IsInjective(Modules)
    /\ Delayed \subseteq ToSet(Modules)
    /\ {Global, None} \cap ToSet(Modules) = {} /\ Global # None
    /\ MaxGestures \in Nat /\ MaxFaults \in Nat

VARIABLES
    snap, refreshing,       \* server: the snapshot of each group; groups being collected
    visible, recent,        \* the document is shown; lastRefreshAt is under a second ago
    timers,                 \* scheduledRefreshes
    tab, elapsed,           \* activeTab; modules whose delay has elapsed
    fetch,                  \* the fetch of each query
    known, panel,           \* queries with data; the cached global market
    sweep,                  \* refreshAll
    sync,                   \* refreshGlobalMarketGroup, per group
    gestures, faults,       \* bounds
    owed                    \* history: queries not answered since the page was shown

server  == <<snap, refreshing>>
manager == <<visible, recent, timers>>
page    == <<tab, elapsed>>
cached  == <<known, panel>>
running == <<fetch, sweep, sync>>
counts  == <<gestures, faults>>
vars    == <<server, manager, page, running, cached, counts, owed>>

ModuleSet == ToSet(Modules)
Queries   == ModuleSet \cup {Global}

Panel   == [snap : [Groups -> Nat], busy : SUBSET Groups]
Blank   == [snap |-> [g \in Groups |-> 0], busy |-> {}]
Fetch   == [phase : {"idle", "sent", "failed", "resent", "served"}, read : Panel]
Sweep   == [on : BOOLEAN, current : ModuleSet \cup {None}, rest : SUBSET ModuleSet]
Sync    == [phase : {"idle", "sent", "working", "answered", "reading"},
            promised : Nat, joined : BOOLEAN]
NoFetch == [phase |-> "idle", read |-> Blank]
NoSweep == [on |-> FALSE, current |-> None, rest |-> {}]
NoSync  == [phase |-> "idle", promised |-> 0, joined |-> FALSE]

TypeOK ==
    /\ snap \in [Groups -> Nat] /\ refreshing \subseteq Groups
    /\ visible \in BOOLEAN /\ recent \in BOOLEAN
    /\ timers \subseteq Queries /\ (timers # {} => visible)
    /\ tab \in {"a-share", "global"} /\ elapsed \subseteq ModuleSet
    /\ fetch \in [Queries -> Fetch] /\ known \subseteq Queries /\ panel \in Panel
    /\ sweep \in Sweep /\ (sweep.on <=> sweep.current \in ModuleSet)
    /\ sweep.current \notin sweep.rest
    /\ sweep.on => fetch[sweep.current].phase # "idle"
    /\ sync \in [Groups -> Sync]
    /\ \A g \in Groups : sync[g].phase = "reading" => fetch[Global].phase # "idle"
    /\ gestures \in 0..MaxGestures /\ faults \in 0..MaxFaults
    /\ owed \subseteq Queries

(***************************************************************************)
(* Queries.                                                                *)
(***************************************************************************)

\* The queries the page observes and may fetch of itself.
Enabled(t, e) == IF t = "global" THEN {Global} ELSE e
Active == Enabled(tab, elapsed)

\* Queries begin to fetch, or join the fetch under way.
Begun(f, qs) == [q \in Queries |->
    IF q \in qs /\ f[q].phase = "idle" THEN [NoFetch EXCEPT !.phase = "sent"] ELSE f[q]]

Begin(qs) == fetch' = Begun(fetch, qs) /\ UNCHANGED <<sweep, sync>>

\* A mutant of Woken: the promise of a failed or cancelled fetch stays open.
OnlyAnswered(qs) == {q \in qs : fetch[q].phase = "served"}
\* The queries whose refetch resolves when fetches end, in whatever way.
Woken(qs) == qs

\* refreshAll takes modules in the order of the page.
First(S) == Modules[Min({i \in DOMAIN Modules : Modules[i] \in S})]
Swept(S) == [on |-> TRUE, current |-> First(S), rest |-> S \ {First(S)}]

\* It goes on with the next module, or is over.
Following == IF sweep.rest = {} THEN NoSweep ELSE Swept(sweep.rest)

\* The fetches of queries end, and whoever awaited them goes on: refreshAll
\* and the groups that read after their collection.
Settle(qs) ==
    LET ended == [q \in Queries |-> IF q \in qs THEN NoFetch ELSE fetch[q]] IN
    /\ IF sweep.on /\ sweep.current \in Woken(qs)
       THEN sweep' = Following /\ fetch' = Begun(ended, {Following.current})
       ELSE UNCHANGED sweep /\ fetch' = ended
    /\ sync' = [g \in Groups |->
          IF Global \in Woken(qs) /\ sync[g].phase = "reading" THEN NoSync ELSE sync[g]]

\* GET of the global market, here in one step: the published snapshots.
ServeGlobal ==
    /\ fetch[Global].phase \in {"sent", "resent"}
    /\ fetch' = [fetch EXCEPT ![Global] =
          [phase |-> "served", read |-> [snap |-> snap, busy |-> refreshing]]]
    /\ UNCHANGED <<server, manager, page, sweep, sync, cached, counts, owed>>

\* When a module was read makes no difference here.
Receive(q) ==
    /\ fetch[q].phase \in IF q = Global THEN {"served"} ELSE {"sent", "resent"}
    /\ known' = known \cup {q}
    /\ panel' = IF q = Global THEN fetch[q].read ELSE panel
    /\ Settle({q}) /\ owed' = owed \ {q}
    /\ UNCHANGED <<server, manager, page, counts>>

Fault == faults < MaxFaults /\ faults' = faults + 1 /\ UNCHANGED gestures

\* The first failure is followed by a second attempt.
Fail(q) ==
    /\ fetch[q].phase = "sent" /\ Fault
    /\ fetch' = [fetch EXCEPT ![q].phase = "failed"]
    /\ UNCHANGED <<server, manager, page, sweep, sync, cached, owed>>

FailAgain(q) ==
    /\ fetch[q].phase = "resent" /\ Settle({q}) /\ owed' = owed \ {q}
    /\ UNCHANGED <<server, manager, page, cached, counts>>

Retry(q) ==
    /\ fetch[q].phase = "failed" /\ visible
    /\ fetch' = [fetch EXCEPT ![q].phase = "resent"]
    /\ UNCHANGED <<server, manager, page, sweep, sync, cached, counts, owed>>

\* A mutant of Polled: a panel that calls a group busy is not polled.
PolledWhenDone == {q \in Active \cap known : q = Global => panel.busy = {}}
\* refetchInterval: it takes the period from the data.
Polled == Active \cap known

\* In a page that is shown.
Poll(q) ==
    /\ visible /\ q \in Polled /\ fetch[q].phase = "idle" /\ Begin({q})
    /\ UNCHANGED <<server, manager, page, cached, counts, owed>>

\* useStaggeredEnabled.
Elapse(q) ==
    /\ tab = "a-share" /\ q \in ModuleSet \ elapsed
    /\ elapsed' = elapsed \cup {q} /\ Begin({q})
    /\ UNCHANGED <<server, manager, tab, cached, counts, owed>>

(***************************************************************************)
(* LiveQueryVisibilityManager.                                             *)
(***************************************************************************)

Gesture == gestures < MaxGestures /\ gestures' = gestures + 1 /\ UNCHANGED faults

\* At most once a second; earlier timers give way to new ones.
ScheduleLiveQueryRefresh ==
    IF recent THEN UNCHANGED <<recent, timers>> ELSE recent' = TRUE /\ timers' = Active

Focus ==
    /\ visible /\ Gesture /\ ScheduleLiveQueryRefresh
    /\ UNCHANGED <<server, visible, page, running, cached, owed>>

SecondPasses ==
    /\ recent /\ recent' = FALSE
    /\ UNCHANGED <<server, visible, timers, page, running, cached, counts, owed>>

\* A mutant of Forgets: the throttle outlives the hiding.
KeepsThrottle == recent
Forgets == FALSE

\* Nothing is fetched for a hidden page: timers and fetches are cancelled.
Hide ==
    /\ visible /\ Gesture /\ visible' = FALSE /\ recent' = Forgets /\ timers' = {}
    /\ Settle({q \in Active : fetch[q].phase # "idle"}) /\ owed' = {}
    /\ UNCHANGED <<server, page, cached>>

Show ==
    /\ ~visible /\ Gesture /\ visible' = TRUE /\ ScheduleLiveQueryRefresh
    /\ owed' = Active
    /\ UNCHANGED <<server, page, running, cached>>

\* A timer refetches its query if that is active still.
FireTimer(q) ==
    /\ q \in timers /\ timers' = timers \ {q} /\ Begin(Active \cap {q})
    /\ UNCHANGED <<server, visible, recent, page, cached, counts, owed>>

(***************************************************************************)
(* The page.                                                               *)
(***************************************************************************)

Click == visible /\ Gesture

\* Queries that become enabled are fetched; the others are observed no more.
SwitchTab(t) ==
    /\ Click /\ t # tab /\ tab' = t /\ Begin(Enabled(t, elapsed))
    /\ owed' = {}
    /\ UNCHANGED <<server, manager, elapsed, cached>>

\* The button of the indices, disabled while it works.
RefreshButton == tab = "a-share" /\ ~sweep.on

\* refreshAll: the modules that are not being fetched at the click.
RefreshAll ==
    /\ Click /\ RefreshButton
    /\ LET due == {q \in ModuleSet : fetch[q].phase = "idle"} IN
       /\ due # {}
       /\ sweep' = Swept(due) /\ fetch' = Begun(fetch, {First(due)})
    /\ UNCHANGED <<server, manager, page, sync, cached, owed>>

\* The button of a group, disabled while it works or the panel calls it busy.
GroupButton(g) == tab = "global" /\ sync[g].phase = "idle" /\ g \notin panel.busy

ClickGroup(g) ==
    /\ Click /\ GroupButton(g)
    /\ sync' = [sync EXCEPT ![g].phase = "sent"]
    /\ UNCHANGED <<server, manager, page, fetch, sweep, cached, owed>>

\* A mutant of ReadAfter: the panel is read while the group is collected.
ReadsAtOnce(g) == sync[g].phase = "working"
ReadAfter(g)   == sync[g].phase = "answered"

\* The group was collected: the panel is read again, by the fetch under way
\* if there is one.
SyncAnswered(g) ==
    /\ ReadAfter(g)
    /\ fetch' = Begun(fetch, {Global})
    /\ sync' = [sync EXCEPT ![g].phase = "reading", ![g].joined = fetch[Global].phase # "idle"]
    /\ UNCHANGED <<server, manager, page, sweep, cached, counts, owed>>

SyncLost(g) ==
    /\ sync[g].phase \in {"sent", "working", "answered"} /\ Fault
    /\ sync' = [sync EXCEPT ![g] = NoSync]
    /\ UNCHANGED <<server, manager, page, fetch, sweep, cached, owed>>

(***************************************************************************)
(* The server: one collection of a group at a time (GlobalMarketRefresh).  *)
(***************************************************************************)

\* POST: collects the group, or answers at once that it is being collected.
ServeSync(g) ==
    /\ sync[g].phase = "sent"
    /\ IF g \in refreshing
       THEN sync' = [sync EXCEPT ![g].phase = "answered", ![g].promised = snap[g]]
            /\ UNCHANGED refreshing
       ELSE sync' = [sync EXCEPT ![g].phase = "working", ![g].promised = snap[g] + 1]
            /\ refreshing' = refreshing \cup {g}
    /\ UNCHANGED <<snap, manager, page, fetch, sweep, cached, counts, owed>>

Scheduled(g) ==
    /\ g \notin refreshing /\ Fault /\ refreshing' = refreshing \cup {g}
    /\ UNCHANGED <<snap, manager, page, running, cached, owed>>

\* A collection ends with a new snapshot n, or fails and leaves the old one;
\* the answer is on its way.
Publish(g, n) ==
    /\ g \in refreshing
    /\ refreshing' = refreshing \ {g} /\ snap' = [snap EXCEPT ![g] = n]
    /\ sync' = IF sync[g].phase = "working"
               THEN [sync EXCEPT ![g].phase = "answered", ![g].promised = n] ELSE sync
    /\ UNCHANGED <<manager, page, fetch, sweep, cached, counts, owed>>

Init ==
    /\ snap = [g \in Groups |-> 0] /\ refreshing = {}
    /\ visible = TRUE /\ recent = FALSE /\ timers = {}
    /\ tab = "a-share" /\ elapsed = ModuleSet \ Delayed
    /\ fetch = Begun([q \in Queries |-> NoFetch], elapsed)
    /\ known = {} /\ panel = Blank
    /\ sweep = NoSweep /\ sync = [g \in Groups |-> NoSync]
    /\ gestures = 0 /\ faults = 0 /\ owed = {}

QueryStep(q) == \/ Receive(q) \/ FailAgain(q) \/ Retry(q) \/ FireTimer(q) \/ Elapse(q)
                \/ q = Global /\ ServeGlobal
GroupStep(g) == \/ ServeSync(g) \/ SyncAnswered(g)
                \/ Publish(g, snap[g] + 1) \/ Publish(g, snap[g])

Next ==
    \/ Focus \/ Hide \/ Show \/ SecondPasses \/ RefreshAll
    \/ \E t \in {"a-share", "global"} : SwitchTab(t)
    \/ \E q \in Queries : QueryStep(q) \/ Poll(q) \/ Fail(q)
    \/ \E g \in Groups : GroupStep(g) \/ ClickGroup(g) \/ Scheduled(g) \/ SyncLost(g)

Spec == Init /\ [][Next]_vars

\* The server answers and the browser's timers fire.  Nothing says that the
\* visitor comes back, and a query is polled only when its data say so.
FairSpec ==
    /\ Spec
    /\ \A q \in Queries : WF_vars(QueryStep(q))
    /\ \A g \in Groups : WF_vars(GroupStep(g))

(***************************************************************************)
(* Properties.                                                             *)
(***************************************************************************)

\* A page that is shown again has every active query answered anew, whether
\* or not it polls, unless it is hidden or leaves the tab before that
\* (Dibobo-V1-PRD.md:986; the throttle, the timers and the cancellations of
\* query-lifecycle.ts).
ShownAgainIsRefreshed == \A q \in Queries : q \in owed ~> q \notin owed

\* The refresh button of the modules comes back, however the fetches it
\* awaits end; while the page is hidden it may wait for a second attempt.
SweepEnds == sweep.on ~> ~sweep.on \/ ~visible

\* A group's button shows the snapshot its click collected when it comes
\* back, unless the panel's fetch was under way already: the refetch joins
\* that one, which may have read before (overview-page.tsx, cancelRefetch).
SyncIsShown ==
    [][\A g \in Groups :
          /\ sync[g].phase = "reading" /\ ~sync[g].joined
          /\ sync'[g].phase = "idle" /\ fetch[Global].phase = "served" /\ visible'
          => panel'.snap[g] >= sync[g].promised]_<<sync, panel>>

\* A panel read in the middle of a collection disables the group's button;
\* as long as the panel is polled that does not last.
BusyEnds ==
    WF_vars(Poll(Global)) =>
        \A g \in Groups : (tab = "global" /\ visible /\ g \in panel.busy)
                              ~> (tab # "global" \/ ~visible \/ g \notin panel.busy)
=============================================================================
