-------------------------- MODULE OverviewPageProofs --------------------------
(***************************************************************************)
(* OverviewPage for any modules, groups and bounds: its types, which hold  *)
(* the refresh button and the groups' buttons to fetches that are under    *)
(* way, and that a group's button comes back over what its click           *)
(* collected.                                                              *)
(***************************************************************************)
EXTENDS OverviewPage, TLAPS, WellFoundedInduction

(***************************************************************************)
(* The order of the modules.                                               *)
(***************************************************************************)

\* A set of naturals that is not empty has a least element.
LEMMA LeastNatural ==
    ASSUME NEW S, S \subseteq Nat, S # {}
    PROVE  Min(S) \in S /\ \A m \in S : Min(S) <= m
<1> DEFINE R == {ss \in Nat \X Nat : ss[1] < ss[2]}
<1>1. R = OpToRel(<, Nat)
  BY DEF OpToRel
<1>2. IsWellFoundedOn(R, Nat)
  BY <1>1, NatLessThanWellFounded
<1> HIDE DEF R
<1>3. PICK n \in S : \A m \in S : ~ (<<m, n>> \in R)
  BY <1>2, WFMin
<1>4. ASSUME NEW m \in S PROVE n <= m
  <2>1. <<m, n>> \notin R
    BY <1>3
  <2>2. ~ (m < n)
    BY <2>1 DEF R
  <2>3. QED
    BY <2>2
<1>5. \E x \in S : \A y \in S : x =< y
  BY <1>4
<1>6. QED
  BY <1>5 DEF Min

\* The module refreshAll takes is one of those that are due.
LEMMA FirstIsDue ==
    ASSUME NEW S, S \subseteq ModuleSet, S # {}
    PROVE  First(S) \in S
<1> DEFINE Due == {i \in DOMAIN Modules : Modules[i] \in S}
<1>1. DOMAIN Modules \subseteq Nat
  BY OverviewAssumption
<1>2. Due # {}
  BY DEF ModuleSet, ToSet
<1>3. Min(Due) \in Due
  BY <1>1, <1>2, LeastNatural
<1>4. QED
  BY <1>3 DEF First

(***************************************************************************)
(* Types.                                                                  *)
(***************************************************************************)

LEMMA Constants ==
    /\ Global \in Queries /\ ModuleSet \subseteq Queries
    /\ Global \notin ModuleSet /\ None \notin ModuleSet /\ None # Global
    /\ Delayed \subseteq ModuleSet
    /\ MaxGestures \in Nat /\ MaxFaults \in Nat
  BY OverviewAssumption DEF Queries, ModuleSet

LEMMA Values ==
    /\ Blank \in Panel /\ NoFetch \in Fetch /\ NoFetch.phase = "idle"
    /\ [NoFetch EXCEPT !.phase = "sent"] \in Fetch
    /\ [NoFetch EXCEPT !.phase = "sent"].phase = "sent"
    /\ NoSweep \in Sweep /\ NoSync \in Sync /\ NoSync.phase = "idle"
    /\ ~ NoSweep.on /\ NoSweep.current = None /\ NoSweep.rest = {}
<1>1. Blank \in Panel
  BY DEF Blank, Panel
<1>2. QED
  BY <1>1 DEF NoFetch, Fetch, NoSweep, Sweep, NoSync, Sync

\* A fetch that is under way goes on; those asked for are under way.
LEMMA BegunKeeps ==
    ASSUME NEW f \in [Queries -> Fetch], NEW qs
    PROVE  /\ Begun(f, qs) \in [Queries -> Fetch]
           /\ \A q \in Queries : /\ f[q].phase # "idle" => Begun(f, qs)[q] = f[q]
                                 /\ q \notin qs => Begun(f, qs)[q] = f[q]
                                 /\ q \in qs => Begun(f, qs)[q].phase # "idle"
                                 /\ Begun(f, qs)[q].phase = "served" =>
                                       Begun(f, qs)[q] = f[q]
  BY Values DEF Begun

\* What refreshAll does next is awaited by a fetch under way.
LEMMA FollowingKeeps ==
    ASSUME TypeOK, sweep.on
    PROVE  /\ Following \in Sweep
           /\ Following.on <=> Following.current \in ModuleSet
           /\ Following.current \notin Following.rest
<1>1. sweep \in Sweep
  BY DEF TypeOK
<1>2. sweep.rest \subseteq ModuleSet
  BY <1>1 DEF Sweep
<1>3. CASE sweep.rest = {}
  BY <1>3, Values, Constants DEF Following
<1>4. CASE sweep.rest # {}
  <2>1. First(sweep.rest) \in sweep.rest
    BY <1>2, <1>4, FirstIsDue
  <2>2. QED
    BY <1>2, <1>4, <2>1 DEF Following, Swept, Sweep
<1>5. QED
  BY <1>3, <1>4

\* The part of TypeOK that the ends of fetches may disturb.
Linked ==
    /\ fetch \in [Queries -> Fetch]
    /\ sweep \in Sweep /\ (sweep.on <=> sweep.current \in ModuleSet)
    /\ sweep.current \notin sweep.rest
    /\ sweep.on => fetch[sweep.current].phase # "idle"
    /\ sync \in [Groups -> Sync]
    /\ \A g \in Groups : sync[g].phase = "reading" => fetch[Global].phase # "idle"

LEMMA SettleKeeps ==
    ASSUME TypeOK, NEW qs, Settle(qs)
    PROVE  Linked'
<1> DEFINE ended == [q \in Queries |-> IF q \in qs THEN NoFetch ELSE fetch[q]]
<1>1. /\ fetch \in [Queries -> Fetch] /\ sync \in [Groups -> Sync]
      /\ sweep \in Sweep
  BY DEF TypeOK
<1>2. ended \in [Queries -> Fetch]
  BY <1>1, Values
<1>3. sync' \in [Groups -> Sync]
  BY <1>1, Values DEF Settle
<1>4. \A g \in Groups : sync'[g].phase = "reading" =>
         Global \notin qs /\ sync[g].phase = "reading"
  BY Values DEF Settle, Woken
<1>5. CASE sweep.on /\ sweep.current \in qs
  <2>1. sweep' = Following /\ fetch' = Begun(ended, {Following.current})
    BY <1>5 DEF Settle, Woken
  <2>2. fetch' \in [Queries -> Fetch]
    BY <1>2, <2>1, BegunKeeps
  <2>3. Following.on => fetch'[Following.current].phase # "idle"
    BY <1>2, <1>5, <2>1, FollowingKeeps, BegunKeeps, Constants
  <2>4. fetch[Global].phase # "idle" /\ Global \notin qs =>
           fetch'[Global].phase # "idle"
    BY <1>2, <2>1, BegunKeeps, Constants
  <2>5. QED
    BY <1>3, <1>4, <1>5, <2>1, <2>2, <2>3, <2>4, FollowingKeeps DEF TypeOK, Linked
<1>6. CASE ~ (sweep.on /\ sweep.current \in qs)
  <2>1. sweep' = sweep /\ fetch' = ended
    BY <1>6 DEF Settle, Woken
  <2>2. sweep.on => sweep.current \in Queries
    BY Constants DEF TypeOK
  <2>3. QED
    BY <1>2, <1>3, <1>4, <1>6, <2>1, <2>2, Constants DEF TypeOK, Linked
<1>7. QED
  BY <1>5, <1>6

\* Fetches that begin leave the rest as it is.
LEMMA BeginKeeps ==
    ASSUME TypeOK, NEW qs, Begin(qs)
    PROVE  Linked'
<1>1. /\ fetch' \in [Queries -> Fetch]
      /\ \A q \in Queries : fetch[q].phase # "idle" => fetch'[q] = fetch[q]
  BY BegunKeeps DEF TypeOK, Begin
<1>2. sweep.on => sweep.current \in Queries
  BY Constants DEF TypeOK
<1>3. QED
  BY <1>1, <1>2, Constants DEF TypeOK, Linked, Begin

\* So does a fetch that changes its phase but does not end.
LEMMA PhaseKeeps ==
    ASSUME TypeOK, NEW q \in Queries, NEW f \in Fetch, f.phase # "idle",
           fetch' = [fetch EXCEPT ![q] = f], UNCHANGED <<sweep, sync>>
    PROVE  Linked'
<1>1. sweep.on => sweep.current \in Queries
  BY Constants DEF TypeOK
<1>2. QED
  BY <1>1, Constants DEF TypeOK, Linked

\* The other part of TypeOK.
Shown ==
    /\ visible \in BOOLEAN /\ recent \in BOOLEAN
    /\ timers \subseteq Queries /\ (timers # {} => visible)

Apart ==
    /\ snap \in [Groups -> Nat] /\ refreshing \subseteq Groups
    /\ Shown
    /\ tab \in {"a-share", "global"} /\ elapsed \subseteq ModuleSet
    /\ known \subseteq Queries /\ panel \in Panel
    /\ gestures \in 0..MaxGestures /\ faults \in 0..MaxFaults
    /\ owed \subseteq Queries

LEMMA TwoParts ==
    /\ TypeOK => Linked /\ Apart
    /\ Linked' /\ Apart' => TypeOK'
  BY DEF TypeOK, Linked, Apart, Shown

LEMMA SameManager == Apart /\ UNCHANGED manager => Shown'
  BY DEF Apart, Shown, manager

LEMMA EnabledAreQueries ==
    ASSUME NEW t, NEW e, e \subseteq ModuleSet
    PROVE  Enabled(t, e) \subseteq Queries
  BY Constants DEF Enabled

\* What the visitor's gestures and the faults count.
LEMMA BoundsKept ==
    ASSUME TypeOK, Gesture \/ Fault \/ UNCHANGED counts
    PROVE  gestures' \in 0..MaxGestures /\ faults' \in 0..MaxFaults
  BY Constants DEF TypeOK, Gesture, Fault, counts

\* The steps of the queries.
LEMMA QueryTypes ==
    ASSUME TypeOK, NEW q \in Queries, QueryStep(q) \/ Poll(q) \/ Fail(q)
    PROVE  TypeOK'
<1>0. /\ Linked /\ Apart /\ Active \subseteq Queries /\ fetch[q] \in Fetch
      /\ fetch \in [Queries -> Fetch]
  BY TwoParts, EnabledAreQueries DEF Apart, Linked, Active
<1>1. ASSUME ServeGlobal PROVE TypeOK'
  <2>1. /\ Global \in Queries
        /\ [phase |-> "served", read |-> [snap |-> snap, busy |-> refreshing]]
             \in Fetch
    BY <1>0, Constants DEF Apart, Fetch, Panel
  <2>2. Linked'
    BY <1>1, <2>1, PhaseKeeps DEF ServeGlobal
  <2>3. Apart'
    BY SameManager, <1>0, <1>1
    DEF ServeGlobal, Apart, server, manager, page, cached, counts
  <2>4. QED
    BY <2>2, <2>3, TwoParts
<1>2. ASSUME Receive(q) PROVE TypeOK'
  <2>1. Linked'
    BY <1>2, SettleKeeps DEF Receive
  <2>2. panel' \in Panel /\ known' \subseteq Queries /\ owed' \subseteq Queries
    BY <1>0, <1>2 DEF Receive, Apart, Fetch
  <2>3. Apart'
    BY SameManager, <1>0, <1>2, <2>2 DEF Receive, Apart, server, manager, page, counts
  <2>4. QED
    BY <2>1, <2>3, TwoParts
<1>3. ASSUME FailAgain(q) PROVE TypeOK'
  <2>1. Linked'
    BY <1>3, SettleKeeps DEF FailAgain
  <2>2. Apart'
    BY SameManager, <1>0, <1>3 DEF FailAgain, Apart, server, manager, page, cached, counts
  <2>3. QED
    BY <2>1, <2>2, TwoParts
<1>4. ASSUME Fail(q) \/ Retry(q) PROVE TypeOK'
  <2>1. PICK p \in {"failed", "resent"} :
          fetch' = [fetch EXCEPT ![q].phase = p] /\ UNCHANGED <<sweep, sync>>
    BY <1>4 DEF Fail, Retry
  <2>2. [fetch[q] EXCEPT !.phase = p] \in Fetch
    BY <1>0 DEF Fetch
  <2>3. [fetch[q] EXCEPT !.phase = p].phase = p /\ p # "idle"
    BY <1>0 DEF Fetch
  <2>4. Linked'
    BY <2>1, <2>2, <2>3, PhaseKeeps
  <2>5. Apart'
    BY SameManager, <1>0, <1>4, BoundsKept
    DEF Fail, Retry, Apart, server, manager, page, cached, counts
  <2>6. QED
    BY <2>4, <2>5, TwoParts
<1>5. ASSUME Poll(q) \/ Elapse(q) PROVE TypeOK'
  <2>1. Linked'
    BY <1>5, BeginKeeps DEF Poll, Elapse
  <2>2. Apart'
    BY SameManager, <1>0, <1>5 DEF Poll, Elapse, Apart, server, manager, page, cached, counts
  <2>3. QED
    BY <2>1, <2>2, TwoParts
<1>6. ASSUME FireTimer(q) PROVE TypeOK'
  <2>1. Linked'
    BY <1>6, BeginKeeps DEF FireTimer
  <2>2. /\ visible' = visible /\ recent' = recent /\ timers' \subseteq timers
        /\ UNCHANGED <<server, page, cached, counts, owed>>
    BY <1>6 DEF FireTimer
  <2>3. Shown'
    <3>1. Shown
      BY <1>0 DEF Apart
    <3>2. timers' \subseteq Queries /\ (timers' # {} => timers # {})
      BY <3>1, <2>2 DEF Shown
    <3>3. QED
      BY <3>1, <3>2, <2>2 DEF Shown
  <2>4. Apart'
    BY <1>0, <2>2, <2>3 DEF Apart, server, page, cached, counts
  <2>5. QED
    BY <2>1, <2>4, TwoParts
<1>7. QED
  BY <1>1, <1>2, <1>3, <1>4, <1>5, <1>6 DEF QueryStep

\* The steps of the groups.
LEMMA GroupTypes ==
    ASSUME TypeOK, NEW g \in Groups,
           GroupStep(g) \/ ClickGroup(g) \/ Scheduled(g) \/ SyncLost(g)
    PROVE  TypeOK'
<1>0. /\ Linked /\ Apart /\ sync \in [Groups -> Sync] /\ sync[g] \in Sync
      /\ fetch \in [Queries -> Fetch]
  BY TwoParts DEF Linked
<1>1. ASSUME sync' \in [Groups -> Sync], UNCHANGED <<fetch, sweep>>,
             \A h \in Groups : sync'[h].phase = "reading" =>
                                  sync[h].phase = "reading"
      PROVE  Linked'
  BY <1>0, <1>1 DEF Linked
<1>2. ASSUME ClickGroup(g) PROVE TypeOK'
  <2>1. [sync[g] EXCEPT !.phase = "sent"] \in Sync
    BY <1>0 DEF Sync
  <2>2. Linked'
    BY <1>0, <1>1, <1>2, <2>1 DEF ClickGroup, Sync
  <2>3. Apart'
    BY SameManager, <1>0, <1>2, BoundsKept
    DEF ClickGroup, Click, Apart, server, manager, page, cached
  <2>4. QED
    BY <2>2, <2>3, TwoParts
<1>3. ASSUME SyncAnswered(g) PROVE TypeOK'
  <2>1. /\ fetch' = Begun(fetch, {Global}) /\ sweep' = sweep
        /\ sync' \in [Groups -> Sync]
    BY <1>0, <1>3 DEF SyncAnswered, Sync
  <2>2. fetch' \in [Queries -> Fetch] /\ fetch'[Global].phase # "idle"
    BY <1>0, <2>1, BegunKeeps, Constants
  <2>3. sweep.on => fetch'[sweep.current].phase # "idle"
    BY <1>0, <2>1, BegunKeeps, Constants DEF Linked
  <2>4. Linked'
    BY <1>0, <2>1, <2>2, <2>3 DEF Linked
  <2>5. Apart'
    BY SameManager, <1>0, <1>3 DEF SyncAnswered, Apart, server, manager, page, cached, counts
  <2>6. QED
    BY <2>4, <2>5, TwoParts
<1>4. ASSUME SyncLost(g) PROVE TypeOK'
  <2>1. Linked'
    BY <1>0, <1>1, <1>4, Values DEF SyncLost
  <2>2. Apart'
    BY SameManager, <1>0, <1>4, BoundsKept
    DEF SyncLost, Apart, server, manager, page, cached
  <2>3. QED
    BY <2>1, <2>2, TwoParts
<1>5. ASSUME ServeSync(g) PROVE TypeOK'
  <2>1. snap[g] \in Nat
    BY <1>0 DEF Apart
  <2>2. Linked'
    BY <1>0, <1>1, <1>5, <2>1 DEF ServeSync, Sync
  <2>3. Apart'
    BY SameManager, <1>0, <1>5 DEF ServeSync, Apart, manager, page, cached, counts
  <2>4. QED
    BY <2>2, <2>3, TwoParts
<1>6. ASSUME Scheduled(g) PROVE TypeOK'
  <2>1. Linked'
    BY <1>0, <1>1, <1>6 DEF Scheduled, running
  <2>2. Apart'
    BY SameManager, <1>0, <1>6, BoundsKept DEF Scheduled, Apart, manager, page, cached
  <2>3. QED
    BY <2>1, <2>2, TwoParts
<1>7. ASSUME NEW n \in Nat, Publish(g, n) PROVE TypeOK'
  <2>1. Linked'
    BY <1>0, <1>1, <1>7 DEF Publish, Sync
  <2>2. Apart'
    BY SameManager, <1>0, <1>7 DEF Publish, Apart, manager, page, cached, counts
  <2>3. QED
    BY <2>1, <2>2, TwoParts
<1>8. snap[g] \in Nat /\ snap[g] + 1 \in Nat
  BY <1>0 DEF Apart
<1>9. QED
  BY <1>2, <1>3, <1>4, <1>5, <1>6, <1>7, <1>8 DEF GroupStep

\* The steps of the visitor and of the manager of live queries.
LEMMA SchedulesActive ==
    ASSUME TypeOK, ScheduleLiveQueryRefresh, visible
    PROVE  recent' \in BOOLEAN /\ timers' \subseteq Queries
<1>1. recent \in BOOLEAN /\ timers \subseteq Queries /\ Active \subseteq Queries
  BY EnabledAreQueries DEF TypeOK, Active
<1>2. CASE recent
  BY <1>1, <1>2 DEF ScheduleLiveQueryRefresh
<1>3. CASE ~ recent
  BY <1>1, <1>3 DEF ScheduleLiveQueryRefresh
<1>4. QED
  BY <1>2, <1>3

LEMMA PageTypes ==
    ASSUME TypeOK,
           \/ Focus \/ Hide \/ Show \/ SecondPasses \/ RefreshAll
           \/ \E t \in {"a-share", "global"} : SwitchTab(t)
    PROVE  TypeOK'
<1>0. /\ Linked /\ Apart /\ Shown /\ Active \subseteq Queries
      /\ fetch \in [Queries -> Fetch]
  BY TwoParts, EnabledAreQueries DEF Apart, Linked, Active
<1>1. ASSUME Focus PROVE TypeOK'
  <2>1. Linked'
    BY <1>0, <1>1 DEF Focus, running, Linked
  <2>2. recent' \in BOOLEAN /\ timers' \subseteq Queries /\ visible' /\ visible' = visible
    BY <1>1, SchedulesActive DEF Focus
  <2>3. Shown'
    BY <1>0, <2>2 DEF Shown
  <2>4. Apart'
    BY <1>0, <1>1, <2>3, BoundsKept DEF Focus, Apart, server, page, cached
  <2>5. QED
    BY <2>1, <2>4, TwoParts
<1>2. ASSUME SecondPasses PROVE TypeOK'
  <2>1. Linked'
    BY <1>0, <1>2 DEF SecondPasses, running, Linked
  <2>2. recent' = FALSE /\ visible' = visible /\ timers' = timers
    BY <1>2 DEF SecondPasses
  <2>3. Shown'
    BY <1>0, <2>2 DEF Shown
  <2>4. Apart'
    BY <1>0, <1>2, <2>3 DEF SecondPasses, Apart, server, page, cached, counts
  <2>5. QED
    BY <2>1, <2>4, TwoParts
<1>3. ASSUME Hide PROVE TypeOK'
  <2>1. Linked'
    BY <1>3, SettleKeeps DEF Hide
  <2>2. visible' = FALSE /\ recent' = FALSE /\ timers' = {}
    BY <1>3 DEF Hide, Forgets
  <2>3. Shown'
    BY <2>2 DEF Shown
  <2>4. Apart'
    BY <1>0, <1>3, <2>3, BoundsKept DEF Hide, Apart, server, page, cached
  <2>5. QED
    BY <2>1, <2>4, TwoParts
<1>4. ASSUME Show PROVE TypeOK'
  <2>1. Linked'
    BY <1>0, <1>4 DEF Show, running, Linked
  <2>2. visible' = TRUE
    BY <1>4 DEF Show
  <2>3. recent' \in BOOLEAN /\ timers' \subseteq Queries
    <3>1. CASE recent
      BY <1>0, <1>4, <3>1 DEF Show, ScheduleLiveQueryRefresh, Shown
    <3>2. CASE ~ recent
      BY <1>0, <1>4, <3>2 DEF Show, ScheduleLiveQueryRefresh
    <3>3. QED
      BY <3>1, <3>2
  <2>4. Shown'
    BY <2>2, <2>3 DEF Shown
  <2>5. Apart'
    BY <1>0, <1>4, <2>4, BoundsKept DEF Show, Apart, server, page, cached
  <2>6. QED
    BY <2>1, <2>5, TwoParts
<1>5. ASSUME NEW t \in {"a-share", "global"}, SwitchTab(t) PROVE TypeOK'
  <2>1. Linked'
    BY <1>5, BeginKeeps DEF SwitchTab
  <2>2. Apart'
    BY SameManager, <1>0, <1>5, BoundsKept
    DEF SwitchTab, Click, Apart, server, manager, cached
  <2>3. QED
    BY <2>1, <2>2, TwoParts
<1>6. ASSUME RefreshAll PROVE TypeOK'
  <2> DEFINE due == {q \in ModuleSet : fetch[q].phase = "idle"}
  <2>1. /\ due # {} /\ sweep' = Swept(due) /\ fetch' = Begun(fetch, {First(due)})
        /\ sync' = sync
    BY <1>6 DEF RefreshAll
  <2>2. First(due) \in due /\ due \subseteq ModuleSet
    BY <2>1, FirstIsDue
  <2> HIDE DEF due
  <2>3. sweep' \in Sweep /\ sweep'.on /\ sweep'.current = First(due)
        /\ sweep'.current \notin sweep'.rest
    BY <2>1, <2>2 DEF Swept, Sweep
  <2>4. /\ fetch' \in [Queries -> Fetch] /\ fetch'[First(due)].phase # "idle"
        /\ fetch[Global].phase # "idle" => fetch'[Global].phase # "idle"
    BY <1>0, <2>1, <2>2, BegunKeeps, Constants
  <2>5. Linked'
    BY <1>0, <2>1, <2>2, <2>3, <2>4 DEF Linked
  <2>6. Apart'
    BY SameManager, <1>0, <1>6, BoundsKept
    DEF RefreshAll, Click, Apart, server, manager, page, cached
  <2>7. QED
    BY <2>5, <2>6, TwoParts
<1>7. QED
  BY <1>1, <1>2, <1>3, <1>4, <1>5, <1>6

\* The types, with what ties the refresh button of the modules and the
\* buttons of the groups to fetches under way: refreshAll awaits a module
\* that is being fetched and takes none twice (overview-page.tsx).
THEOREM TypeCorrect == Spec => []TypeOK
<1>1. Init => TypeOK
  <2> SUFFICES ASSUME Init PROVE TypeOK
    OBVIOUS
  <2>1. [q \in Queries |-> NoFetch] \in [Queries -> Fetch]
    BY Values
  <2>2. Linked
    BY <2>1, BegunKeeps, Values, Constants DEF Init, Linked
  <2>3. Shown
    BY DEF Init, Shown
  <2>4. Apart
    BY <2>3, Values, Constants DEF Init, Apart
  <2>5. QED
    BY <2>2, <2>4 DEF TypeOK, Linked, Apart, Shown
<1>2. TypeOK /\ [Next]_vars => TypeOK'
  <2> SUFFICES ASSUME TypeOK, [Next]_vars PROVE TypeOK'
    OBVIOUS
  <2>1. CASE Next
    BY <2>1, QueryTypes, GroupTypes, PageTypes DEF Next
  <2>2. CASE UNCHANGED vars
    <3>1. Linked'
      BY <2>2, TwoParts DEF vars, running, Linked
    <3>2. Apart'
      BY <2>2, TwoParts, SameManager
      DEF vars, server, manager, page, cached, counts, Apart
    <3>3. QED
      BY <3>1, <3>2, TwoParts
  <2>3. QED
    BY <2>1, <2>2
<1>3. QED
  BY <1>1, <1>2, PTL DEF Spec

(***************************************************************************)
(* A group's button comes back over what its click collected.  The         *)
(* property speaks of the step that ends the reading; what it needs of the *)
(* states before is that the server has what it promised, and that a       *)
(* reading which began its own fetch finds it there.                       *)
(***************************************************************************)

Promised(g) ==
    /\ sync[g].phase \in {"answered", "reading"} => sync[g].promised <= snap[g]
    /\ /\ sync[g].phase = "reading" /\ ~ sync[g].joined
       /\ fetch[Global].phase = "served"
       => sync[g].promised <= fetch[Global].read.snap[g]

PromisedInv == \A g \in Groups : Promised(g)

\* Fetches that end leave the groups alone unless the global market's does;
\* then the readings are over.
LEMMA SettleSync ==
    ASSUME TypeOK, NEW qs, Settle(qs), NEW g \in Groups
    PROVE  /\ Global \notin qs => sync'[g] = sync[g] /\ fetch'[Global] = fetch[Global]
           /\ Global \in qs => /\ sync'[g].phase # "reading"
                               /\ sync[g].phase # "reading" => sync'[g] = sync[g]
<1> DEFINE ended == [q \in Queries |-> IF q \in qs THEN NoFetch ELSE fetch[q]]
<1>1. /\ fetch \in [Queries -> Fetch] /\ sync \in [Groups -> Sync]
      /\ sweep \in Sweep
  BY DEF TypeOK
<1>2. ended \in [Queries -> Fetch]
  BY <1>1, Values
<1>3. sync'[g] = IF Global \in qs /\ sync[g].phase = "reading" THEN NoSync ELSE sync[g]
  BY DEF Settle, Woken
<1>4. Global \notin qs => ended[Global] = fetch[Global]
  BY Constants
<1>5. fetch'[Global] = ended[Global]
  <2>1. CASE sweep.on /\ sweep.current \in qs
    <3>1. Following.current # Global
      BY <2>1, FollowingKeeps, Constants DEF Sweep
    <3>2. fetch' = Begun(ended, {Following.current})
      BY <2>1 DEF Settle, Woken
    <3>3. QED
      BY <1>2, <3>1, <3>2, BegunKeeps, Constants
  <2>2. CASE ~ (sweep.on /\ sweep.current \in qs)
    BY <2>2 DEF Settle, Woken
  <2>3. QED
    BY <2>1, <2>2
<1>6. QED
  BY <1>3, <1>4, <1>5, Values

\* What a group was promised still holds when its state and the fetch of the
\* global market are the same, or when its state is not one that promises.
LEMMA SamePromise ==
    ASSUME NEW g, Promised(g), sync'[g] = sync[g], snap' = snap,
           \/ fetch'[Global] = fetch[Global]
           \/ fetch'[Global].phase # "served"
    PROVE  Promised(g)'
  BY DEF Promised

LEMMA NoPromise ==
    ASSUME NEW g, sync'[g].phase \notin {"answered", "reading"}
    PROVE  Promised(g)'
  BY DEF Promised

LEMMA SettlePromise ==
    ASSUME TypeOK, NEW qs, Settle(qs), snap' = snap, NEW g \in Groups, Promised(g)
    PROVE  Promised(g)'
<1>1. CASE Global \notin qs
  BY <1>1, SettleSync, SamePromise
<1>2. CASE Global \in qs /\ sync[g].phase = "reading"
  <2>1. sync'[g] = NoSync
    BY <1>2 DEF Settle, Woken
  <2>2. QED
    BY <2>1, Values, NoPromise
<1>3. CASE Global \in qs /\ sync[g].phase # "reading"
  BY <1>3, SettleSync DEF Promised
<1>4. QED
  BY <1>1, <1>2, <1>3

LEMMA BeginPromise ==
    ASSUME TypeOK, NEW qs, fetch' = Begun(fetch, qs), sync' = sync, snap' = snap,
           NEW g \in Groups, Promised(g)
    PROVE  Promised(g)'
<1>1. fetch'[Global].phase = "served" => fetch'[Global] = fetch[Global]
  BY BegunKeeps, Constants DEF TypeOK
<1>2. QED
  BY <1>1, SamePromise

LEMMA PromisedStep ==
    ASSUME TypeOK, PromisedInv, [Next]_vars
    PROVE  PromisedInv'
<1> SUFFICES ASSUME NEW g \in Groups PROVE Promised(g)'
  BY DEF PromisedInv
<1>0. /\ Promised(g) /\ sync[g] \in Sync /\ sync \in [Groups -> Sync]
      /\ fetch \in [Queries -> Fetch] /\ snap \in [Groups -> Nat]
      /\ Global \in Queries
  BY Constants DEF PromisedInv, TypeOK
<1>1. CASE UNCHANGED vars
  BY <1>0, <1>1, SamePromise DEF vars, server, running
<1>2. ASSUME NEW qs, Settle(qs), snap' = snap PROVE Promised(g)'
  BY <1>0, <1>2, SettlePromise
<1>3. ASSUME NEW qs, fetch' = Begun(fetch, qs), sync' = sync, snap' = snap
      PROVE  Promised(g)'
  BY <1>0, <1>3, BeginPromise
<1>4. CASE Focus \/ Show \/ SecondPasses
  BY <1>0, <1>4, SamePromise DEF Focus, Show, SecondPasses, server, running
<1>5. CASE Hide
  BY <1>2, <1>5 DEF Hide, server
<1>6. CASE RefreshAll
  BY <1>3, <1>6 DEF RefreshAll, server
<1>7. ASSUME NEW t \in {"a-share", "global"}, SwitchTab(t) PROVE Promised(g)'
  BY <1>3, <1>7 DEF SwitchTab, Begin, server
<1>8. ASSUME NEW q \in Queries, QueryStep(q) \/ Poll(q) \/ Fail(q)
      PROVE  Promised(g)'
  <2>1. CASE Receive(q) \/ FailAgain(q)
    BY <1>2, <2>1 DEF Receive, FailAgain, server
  <2>2. CASE Poll(q) \/ Elapse(q) \/ FireTimer(q)
    BY <1>3, <2>2 DEF Poll, Elapse, FireTimer, Begin, server
  <2>3. CASE Fail(q) \/ Retry(q)
    <3>1. /\ sync' = sync /\ snap' = snap
          /\ fetch'[Global] = fetch[Global] \/ fetch'[Global].phase # "served"
      BY <1>0, <2>3 DEF Fail, Retry, server, Fetch
    <3>2. QED
      BY <1>0, <3>1, SamePromise
  <2>4. CASE ServeGlobal
    <3>1. /\ sync' = sync /\ snap' = snap /\ fetch'[Global].read.snap = snap
      BY <1>0, <2>4 DEF ServeGlobal, server
    <3>2. QED
      BY <1>0, <3>1 DEF Promised
  <2>5. QED
    BY <1>8, <2>1, <2>2, <2>3, <2>4 DEF QueryStep
<1>9. ASSUME NEW h \in Groups,
             GroupStep(h) \/ ClickGroup(h) \/ Scheduled(h) \/ SyncLost(h)
      PROVE  Promised(g)'
  <2>1. CASE Scheduled(h)
    BY <1>0, <2>1, SamePromise DEF Scheduled, running
  <2>2. CASE ClickGroup(h) \/ SyncLost(h)
    <3>1. /\ snap' = snap /\ fetch' = fetch
          /\ sync'[g] = sync[g] \/ sync'[g].phase \in {"idle", "sent"}
      BY <1>0, <2>2, Values DEF ClickGroup, SyncLost, server, Sync
    <3>2. QED
      BY <1>0, <3>1, SamePromise, NoPromise
  <2>3. CASE ServeSync(h)
    <3>1. snap' = snap /\ fetch' = fetch
      BY <2>3 DEF ServeSync
    <3>2. CASE h # g
      <4>1. sync'[g] = sync[g]
        BY <1>0, <2>3, <3>2 DEF ServeSync
      <4>2. QED
        BY <1>0, <3>1, <4>1, SamePromise
    <3>3. CASE h = g
      <4>1. \/ sync'[g].phase = "working"
            \/ sync'[g].phase = "answered" /\ sync'[g].promised = snap[g]
        BY <1>0, <2>3, <3>3 DEF ServeSync, Sync
      <4>2. QED
        BY <1>0, <3>1, <4>1 DEF Promised
    <3>4. QED
      BY <3>2, <3>3
  <2>4. CASE SyncAnswered(h)
    <3>1. snap' = snap /\ fetch' = Begun(fetch, {Global})
      BY <2>4 DEF SyncAnswered, server
    <3>2. fetch'[Global].phase = "served" => fetch'[Global] = fetch[Global]
      BY <1>0, <3>1, BegunKeeps
    <3>3. CASE h # g
      <4>1. sync'[g] = sync[g]
        BY <1>0, <2>4, <3>3 DEF SyncAnswered
      <4>2. QED
        BY <1>0, <3>1, <3>2, <4>1, SamePromise
    <3>4. CASE h = g
      <4>1. /\ sync[g].phase = "answered" /\ sync'[g].promised = sync[g].promised
            /\ sync'[g].phase = "reading"
        BY <1>0, <2>4, <3>4 DEF SyncAnswered, ReadAfter, Sync
      <4>2. sync'[g].joined <=> fetch[Global].phase # "idle"
        BY <1>0, <2>4, <3>4 DEF SyncAnswered, Sync
      <4>3. fetch[Global].phase = "idle" => fetch'[Global].phase # "served"
        BY <3>2
      <4>4. QED
        BY <1>0, <3>1, <4>1, <4>2, <4>3 DEF Promised
    <3>5. QED
      BY <3>3, <3>4
  <2>5. ASSUME NEW n \in Nat, Publish(h, n), n >= snap[h] PROVE Promised(g)'
    <3>1. fetch' = fetch /\ snap'[g] >= snap[g]
      BY <1>0, <2>5 DEF Publish
    <3>2. \/ sync'[g] = sync[g]
          \/ sync'[g].phase = "answered" /\ sync'[g].promised = snap'[g]
      BY <1>0, <2>5 DEF Publish, Sync
    <3>3. CASE sync'[g] = sync[g]
      <4>1. /\ sync[g].promised \in Nat /\ snap[g] \in Nat /\ snap'[g] \in Nat
            /\ sync[g].promised <= snap[g] => sync[g].promised <= snap'[g]
        BY <1>0, <2>5, <3>1 DEF Sync, Publish
      <4>2. QED
        BY <1>0, <3>1, <3>3, <4>1 DEF Promised
    <3>4. CASE sync'[g].phase = "answered" /\ sync'[g].promised = snap'[g]
      BY <1>0, <2>5, <3>4 DEF Promised, Publish
    <3>5. QED
      BY <3>2, <3>3, <3>4
  <2>6. snap[h] + 1 \in Nat /\ snap[h] \in Nat /\ snap[h] + 1 >= snap[h] /\ snap[h] >= snap[h]
    BY <1>0
  <2>7. QED
    BY <1>9, <2>1, <2>2, <2>3, <2>4, <2>5, <2>6 DEF GroupStep
<1>10. QED
  BY <1>1, <1>4, <1>5, <1>6, <1>7, <1>8, <1>9 DEF Next

\* The step that ends a reading: the answer of the global market, its second
\* failure, or the hiding of the page.
LEMMA ReadingEnds ==
    ASSUME TypeOK, [Next]_vars, NEW g \in Groups,
           sync[g].phase = "reading", sync'[g].phase = "idle"
    PROVE  \/ panel' = fetch[Global].read
           \/ fetch[Global].phase # "served"
           \/ ~ visible'
<1>0. /\ sync[g] \in Sync /\ sync \in [Groups -> Sync] /\ Global \in Queries
  BY Constants DEF TypeOK
<1>1. ~ (sync' = sync)
  OBVIOUS
<1>2. CASE Hide
  BY <1>2 DEF Hide
<1>3. ASSUME NEW q \in Queries, QueryStep(q) \/ Poll(q) \/ Fail(q)
      PROVE  panel' = fetch[Global].read \/ fetch[Global].phase # "served"
  <2>1. ~ (ServeGlobal \/ Poll(q) \/ Fail(q) \/ Retry(q) \/ Elapse(q) \/ FireTimer(q))
    BY <1>1 DEF ServeGlobal, Poll, Fail, Retry, Elapse, FireTimer, Begin
  <2>2. ASSUME Settle({q}) PROVE q = Global
    BY <2>2, SettleSync
  <2>3. CASE Receive(q)
    BY <2>2, <2>3 DEF Receive
  <2>4. CASE FailAgain(q)
    BY <2>2, <2>4 DEF FailAgain
  <2>5. QED
    BY <1>3, <2>1, <2>3, <2>4 DEF QueryStep
<1>4. ASSUME NEW h \in Groups,
             GroupStep(h) \/ ClickGroup(h) \/ Scheduled(h) \/ SyncLost(h)
      PROVE  FALSE
  <2>1. CASE Scheduled(h)
    BY <1>1, <2>1 DEF Scheduled, running
  <2>2. CASE ClickGroup(h)
    BY <1>0, <2>2 DEF ClickGroup, GroupButton
  <2>3. CASE SyncLost(h)
    BY <1>0, <2>3 DEF SyncLost
  <2>4. CASE ServeSync(h)
    BY <1>0, <2>4 DEF ServeSync
  <2>5. CASE SyncAnswered(h)
    BY <1>0, <2>5 DEF SyncAnswered, ReadAfter, Sync
  <2>6. ASSUME NEW n, Publish(h, n) PROVE FALSE
    BY <1>0, <2>6 DEF Publish, Sync
  <2>7. QED
    BY <1>4, <2>1, <2>2, <2>3, <2>4, <2>5, <2>6 DEF GroupStep
<1>5. ~ (\/ Focus \/ Show \/ SecondPasses \/ RefreshAll
         \/ \E t \in {"a-share", "global"} : SwitchTab(t) \/ UNCHANGED vars)
  BY <1>1 DEF Focus, Show, SecondPasses, RefreshAll, SwitchTab, Begin, vars, running
<1>6. QED
  BY <1>2, <1>3, <1>4, <1>5 DEF Next

\* A click on a group ends over what its collection published, unless the
\* reading joined a fetch under way: however many collections, failures and
\* readings of other groups come between (overview-page.tsx, global-market-panel.tsx).
THEOREM ClickIsShown == Spec => SyncIsShown
<1>1. Init => PromisedInv
  <2> SUFFICES ASSUME Init, NEW g \in Groups PROVE Promised(g)
    BY DEF PromisedInv
  <2>1. sync[g] = NoSync
    BY DEF Init
  <2>2. QED
    BY <2>1, Values DEF Promised
<1> DEFINE Ends == \A g \in Groups :
          /\ sync[g].phase = "reading" /\ ~sync[g].joined
          /\ sync'[g].phase = "idle" /\ fetch[Global].phase = "served" /\ visible'
          => panel'.snap[g] >= sync[g].promised
<1>2. TypeOK /\ PromisedInv /\ [Next]_vars => Ends
  <2> SUFFICES ASSUME TypeOK, PromisedInv, [Next]_vars, NEW g \in Groups,
                      sync[g].phase = "reading", ~sync[g].joined,
                      sync'[g].phase = "idle", fetch[Global].phase = "served", visible'
               PROVE  panel'.snap[g] >= sync[g].promised
    OBVIOUS
  <2>1. panel' = fetch[Global].read
    BY ReadingEnds
  <2>2. sync[g].promised <= fetch[Global].read.snap[g]
    BY DEF PromisedInv, Promised
  <2>3. sync[g].promised \in Nat /\ fetch[Global].read.snap[g] \in Nat
    BY Constants DEF TypeOK, Sync, Fetch, Panel
  <2>4. QED
    BY <2>1, <2>2, <2>3
<1>3. TypeOK /\ PromisedInv /\ [Next]_vars => PromisedInv'
  BY PromisedStep
<1>4. TypeOK /\ PromisedInv /\ [Next]_vars => [Ends]_<<sync, panel>>
  BY <1>2
<1> HIDE DEF Ends
<1>5. Spec => [][Ends]_<<sync, panel>>
  BY <1>1, <1>3, <1>4, TypeCorrect, PTL DEF Spec
<1>6. QED
  BY <1>5 DEF SyncIsShown, Ends
=============================================================================
