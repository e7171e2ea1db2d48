# Dibobo in TLA+

Dibobo is a personal stock dashboard: a FastAPI backend (one uvicorn process, one
asyncio event loop, PostgreSQL through SQLAlchemy, Valkey as cache and lock store)
and a React frontend. This directory models the parts of it whose correctness
depends on what runs in between: background jobs, overlapping requests, answers that
arrive late or never, timers, failures and restarts. Paths below are relative to `src/`.

The assumptions the backend modules share:

- One event loop runs all requests and jobs. Control changes hands at an `await`
  only, so a step of a model is what runs between two awaits that touch shared
  state: one Valkey command, one SQL statement, or one commit.
- Each request has a database session of its own under READ COMMITTED. A SELECT
  loads rows; the handler decides on what it loaded; the commit writes, row by
  row, the columns it left different from what it loaded. A commit whose only UPDATE
  meets no row any more fails and writes nothing; of several UPDATEs sent as one batch
  the driver reports no row count, so the rows deleted meanwhile are passed over and
  the others written.
- A client may go away and the process may stop at any await.

Those the frontend modules share:

- One JavaScript thread: a step is a gesture of the visitor, the arrival of an answer,
  a timer, or the effects of a commit. The visitor's next gesture comes after the
  effects of the last one; an answer may come before them.
- Of React Query they keep what the pages rely on: a query has one fetch at a time; an
  invalidation replaces the fetch under way (unless `cancelRefetch` is false, then it
  joins it); the fetch of a query nothing observes any more is cancelled; an error
  leaves the data of the last success; a mutation goes on when its component is gone.
- A request is lost before or after the server has carried it out; the page cannot
  tell the two apart.

## 1. Inventory

| Component | State | Operations | What is hard | What makes it correct |
|---|---|---|---|---|
| Global market (`backend/app/global_market/service.py`, `main.py`) | five Valkey keys per group: lock, refreshing flag, current snapshot, last success, error | scheduler loop per group, manual refresh, page read | lock with a TTL, failed commands that may have been applied, shutdown in the middle of a refresh, restart | one refresh at a time, nobody frees another's lock, data never lost or set back, refreshing goes on, badge goes out |
| Data sources (`backend/app/settings`) | rows: active flag, test status, address, encrypted credentials, token | create, OAuth start and finish, edit, test, activate, deactivate, delete | a test or an activation waits while the form is saved; reads of other components renew tokens | one active source per module family; data is read only through a tested source |
| Portfolios (`backend/app/portfolios`) | rows: default flag, sort order; a partial unique index | create, set default, reorder, delete, lazy creation of the first | each operation writes several rows decided from earlier reads | a default exists whenever a portfolio does; no spurious conflict; order |
| Holdings (`backend/app/holdings`) | rows: open or closed, quantity, cost, sort order; 60 s quote cache | create, edit, close, delete, reorder, list, summary | closing against an edit, equal sort orders | an open holding is unique per instrument and portfolio; the closing record is that of the closing |
| Watchlist (`backend/app/watchlist`) | rows with `sort_order` | add on top, delete, batch delete, reorder | bulk shift against renumbering, rows locked by a flush, rows gone at the commit | a new row is on top, a request that runs alone does what it says and closes the numbers up |
| Overview cache (`backend/app/overview`, quote caches of `backend/app/holdings`) | Valkey: module values, last successes, trading calendar; per-process locks | cached loads, invalidation after a change of source | loads that overlap each other or an invalidation; failed commands | no answer fetched with another configuration; no value goes back in time; no lock is kept |
| Radar (`backend/app/radar`) | one snapshot row per user | manual screening, daily run over all users, scheduler | rollback in the middle of the loop, restart, manual refresh next to the daily one | every user is served each day; a success is not replaced by a failure |
| Calendar (`backend/app/calendar`) | events and their provider ids; cache per query | list (fetch, merge, persist), detail | two reads inserting the same event; failed persist | one row per canonical key; a failed persist costs no answer |
| OAuth protocol (`settings/service.py`) | one Valkey key per authorisation started | start, finish | state used twice or after its TTL | a state completes one authorisation, of its own user |
| Auth sessions (`auth/router.py`, `api/dependencies.py`) | session rows, password, failure counters | login, logout, change password, authenticate | login overlapping a password change; a request that extends a session after its revocation | no session of an old password survives; revoked is for good |
| Journals | independent rows | create, read, update, delete | nothing relates two rows | - |
| Adapters (`data_sources`, `global_market/adapter.py`, `catalog.py`) | none | upstream requests, parsing | third-party failure | their outcomes are inputs of the other parts |
| Core, health, CLI, migrations | configuration, schema | start-up | - | - |
| Session in the page (`frontend/src/features/auth`, `lib/api.ts`, `lib/query-cache.ts`, `main.tsx`) | session query (data, error), query cache, cookie | guards, unauthorised event, login, logout, password change | reads of one account in flight when another signs in; a session that ends unseen | the cache is of one account; a page whose session has ended is left |
| Live-query manager (`lib/query-lifecycle.ts`) | throttle, timers | focus, hide, show | events in quick succession, a hiding that cancels fetches somebody awaits | shown pages refresh, hidden ones stop |
| Overview page (`features/overview/overview-page.tsx`, `queries.ts`) | tab, sequential refresh, refresh per group | switch, refresh all, refresh a group, poll | a refresh that joins an older fetch; a fetch cancelled under a refresh | buttons come back; a click shows what it collected |
| Portfolios page (`features/portfolios`, `features/holdings/queries.ts`) | URL, cached lists, optimistic order, dialogs | select, create, delete, set default, move, drag, filter, sort, page | two effects and late answers writing the same URL; a drag refused late; a deletion next to a fetch | a quiet page shows what is stored; effects end |
| Watchlist page (`features/watchlist`) | URL, cached list per filter, ticks | filter, sort, tick, add, delete, batch delete, drag, move, poll | polling against mutations; ticks of another filter | a quiet page shows what is stored; only ticked rows are deleted |
| Carousel (`use-auto-carousel.ts`) | frame, reset timer, pause reasons | - | no component uses it | - |
| Other pages, cards and popovers | component state | rendering, forms, hover timers | - | - |

How the parts interact:

- `main.py` starts one global-market loop per group and the radar loop, and
  cancels them at shutdown; they share nothing with requests but Valkey and the
  database.
- Overview, radar and calendar read through the *active* data source of a family
  and may renew its OAuth token, a write of a settings row from outside settings.
- Every change of a data source then invalidates the overview cache of that source.
- Holdings belong to a portfolio; without one, `create_holding` calls
  `ensure_default_portfolio`; deleting a portfolio deletes its holdings.
- The frontend polls; nothing is pushed to it. Every page reads through the session
  cookie; a refused read or write raises an event that empties the cache and sends the
  visitor to the login.
- The overview's button of a group runs `_refresh_group` inside the request, next to the
  loop of the same group: it answers with the new snapshot, or at once when the group is
  being collected.
- The watchlist and portfolios pages compute a whole order from their cached list and
  submit it; the server takes it when it names the rows it stores.

## 2. Plan

| Order | Module | State of work | What it is for |
|---|---|---|---|
| 1 | `GlobalMarketRefresh`, abstract `SnapshotStore` | checked and proved | lock, TTLs, faults; refinement |
| 2 | `DataSources` | checked and proved | one active source per family; tested sources only |
| 3 | `Portfolios` | checked and proved | default portfolio and order |
| 4 | `SourceCache` | checked and proved | cached values against the invalidation after a change of their source |
| 5 | `Watchlist`, composed with `WatchlistPage` | checked and proved | the order under overlapping requests, as the page and another device send them |
| 6 | `Session` | checked and proved | session rows against the cookie, the session query and the guards |
| 7 | `PortfoliosPage` | checked and proved | optimistic order, selection and URL against late answers |
| 8 | `OverviewPage` | checked; types and `SyncIsShown` proved | the live-query manager, the refresh buttons and the collection of a group |
| 9 | `RadarDaily` | | the daily run: rollback, restart, manual refresh |
| 10 | `CalendarSync` | | events persisted by overlapping reads |
| 11 | `Holdings` | | closing, uniqueness, order; with `Portfolios` for the cascade |
| 12 | `OAuthState` | | single use of a state |

Abstract specifications worth stating: the snapshot store (done); a set of users served once a day (for 9).
Theorems worth proving, besides type correctness: the refinement and lock ownership
(done), one active source and tested sources (done), the default portfolio (done),
order, fallback and configuration of the cached values (done), the end of old
passwords (done), the place of a new row (done), that a quiet page shows what is stored
(done for the portfolios and the watchlist), single use of an OAuth state.

## 3. The modules

### GlobalMarketRefresh

One group; the groups' keys are disjoint. `Jobs` are the loop and the manual
requests that call `_refresh_group`. `pc` says which Valkey command a job sends
next, in the order of the code:

| Action | Code (`global_market/service.py`) |
|---|---|
| `Acquire` | `SET lock token NX EX`; returns when the lock is held or the command fails |
| `Mark` | `SET refreshing`, before the `try` block, then the fetch begins |
| `FetchSucceeds`, `FetchUnavailable`, `FetchRaises` | `fetch_group` of the adapter: values, none (or a known error), any other exception |
| `LoadLast`, `LoadCurrent` | the fallback of a failed fetch: the last success as stale, else what is published |
| `StoreLast`, `StoreCurrent`, `StoreError` | the writes, last success first |
| `Release` | the compare-and-delete script of the `finally` clause |
| `Cancel`, `Crash` | shutdown cancels the loop at any await; the process dies |
| `Expire*` | a TTL ends |
| `ReadCurrent`, `ReadLast`, `Answer` | `read_global_market` for one group |

A command that raises may have been applied or not (`WriteReply`); a read that
raises looks like an absent key (`ReadReply`, as `_cache_get`). A snapshot is its
state and the number of its fetch: `at` orders fetches by `fetched_at`. The code's
`ready` and `partial` are both `good` since nothing branches on the difference.

`SnapshotStore` is the promise to readers: two cells, where what is published is
never older than what it replaces nor than the last success, and "unavailable"
replaces nothing but absence. `GlobalMarketRefresh` implements it (`ImplementsStore`,
`current` and `lastSuccess` mapped to themselves) as long as no lock ends under
its job and no command fails. Both are needed. A lock that ends under its job lets a
second job collect and publish, and the first then publishes an older snapshot over
a newer one, which `docs/requirements/Dibobo-Global-Market-PRD.md:155` excludes.
A failed read of the last success looks like an absent key, so a failed refresh
publishes "unavailable" over a live last success.

### DataSources

One user's sources. A request loads its row (`Load`, with the guards of the
handler: activation needs a passed test, and so on), perhaps loads more or waits
for the upstream, and commits (`Update`, `Authorize`, `Test`, `Renew`, `Activate`,
`Deactivate`, `Delete`). `Written` is the unit of work of the ORM: only columns
the handler changed are written, so two overlapping requests mix. `Renew` is the
token renewal of the calendar, the radar and the overview. `tested` is a history
variable: the sources whose details in the table have passed a test. `rivals` and
`clashes` count the overlaps the code does not handle, so that the properties can
say what holds without them. With them it does not hold: two overlapping activations of
sources of one family each deactivate only what they loaded, and leave both active
(`settings/service.py:713-716`). `Missed` is an activation whose single UPDATE finds its
row deleted, and fails.

### Portfolios

One user's portfolios, numbered in the order of creation. A request is a `pc`
over its statements. The bulk UPDATE that clears the default flag remembers the
rows it found (`Found`): later inserts escape it. The commit fails when the
partial unique index would hold two rows (`Conflict`), and so does that of an order whose
one changed row is gone (`Gone`); of several it writes those that are left. `overlapped`
is the set of requests another one overlapped, `deleteRaces` counts deletions that
overlap another write of the flag. Such a deletion may leave portfolios without a default,
which `Dibobo-Portfolio-Management-PRD.md:519` excludes.

### SourceCache

One source and the Valkey keys that carry its id. What differs between keys is in
four sets: fetched under a lock (`Locked`: calendar and overview modules), with a
copy of the last success (`Backed`: all but the calendar and the valuations),
deleted by name (`Named`: calendar, index quotes) or by the scan (`Scanned`: holding
quotes, overview modules). The valuations of the watchlist are in none of them.

| Action | Code (`overview/service.py`, the same shape in `holdings/service.py`) |
|---|---|
| `BeginLoad` | a page finds the source active and loads its row |
| `Read`, `TakeLock`, `Reread` | the look at the cache, the `asyncio.Lock` of the key, the second look |
| `FetchSucceeds`, `FetchFails`, `Fallback` | the upstream call; after a `DataSourceError` the copy of the last success |
| `Store`, `StoreLast` | the two writes after a success |
| `Edit`, `Switch` | the settings commit: new details (by the form, or by OAuth, which empties nothing), activation, deactivation, deletion |
| `ScanCells`, `ScanLasts`, `Remove` | `invalidate_data_source_cache`: scans, then one DELETE |
| `AbandonInvalidation` | a failed command ends it with a log line |
| `Expire`, `Crash` | TTLs; the process ends, and its locks with it |

A value is the version of the details it was fetched with and the number of its
fetch. `shown` is a history variable: what the latest answer for a key was meant
for, and what it was fetched with. The scans of the two families of current values
are one step, as are those of the copies: both lists go into one DELETE. An
activation is `Switch` from any state but deleted; `DataSources` has its guards.

### Watchlist and WatchlistPage

`Watchlist` is one user's rows and the requests on them, statement by statement.
A request first loads (`Read`, with the checks that refuse it). A deletion then
flushes (`Flush`: its DELETE, then the rest is loaded; it holds the locks of its
rows from here on) and commits the renumbering; a creation shifts the rows its bulk
UPDATE sees and inserts at 0; a reordering writes the positions of the submitted
list. `Written` is what the unit of work writes: only numbers that differ from what
was loaded. A commit waits for rows another deletion holds (`Free`), fails when the one row
it has to write is gone (`Lost`; of several it writes those left), and of two deletions
that wait for each other the database ends one (`Deadlock`). `alone` records that no other request ran together with this one.

`WatchlistPage` EXTENDS it, which is the composition: the page's gestures put
requests into its slots (one per kind, since its button is disabled meanwhile),
`Serve` lets the stored watchlist take one step, `Answered` and `Failed` bring the
answer back. The other device has a slot of its own.

| Action | Code (`features/watchlist`) |
|---|---|
| `SetView`, `RequestSort`, `ClearFilters`, `GoToPage` | the URL, `use-watchlist-url.ts` |
| `ToggleSelected`, `ToggleSelectAll`, `Ticks` | `selectionState`, valid for its own view only |
| `SubmitCreate`, `ConfirmDelete`, `ConfirmBatch`, `DropRow`, `MoveRow` | the mutations of `queries.ts`, with the items the controller computes; an instrument that is listed may be chosen again, and the server refuses it |
| `Answered` | `useInvalidateWatchlist`; a batch deletion also clears the ticks, under the view of its click |
| `ClampPage` | the effect that follows a list which has become shorter |
| `Poll`, `ServeList`, `ReceiveList` | the list query |
| `Hide`, `LoseList` | the page is hidden, which cancels the fetch; a fetch fails, and `broken` has the views whose error state (`IsError`) replaces the rows, and with them every control of a row |

An instrument deleted and added again gets another row, as in the database. `ticked` (what
the visitor ticked per view) and `foreign` (rows changed by others, or by a request
whose answer was lost, since the list was served) are history variables.

### Session

The rows of `user_sessions` and the passwords on one side, a browser page on the
other. An authorised request takes two steps, `Authorise` (the SELECTs of
`get_auth_context`) and `Serve` or `Commit...`, since it awaits in between; a login
takes `VerifyLogin` and `CommitLogin`. `Extended` is the commit of
`get_auth_context`: the ORM writes `expires_at` and not the `revoked_at` it read.
`ChangeElsewhere`, `LogoutElsewhere` and `Expire` are the rest of the world.

The page has one request per slot (`me`, `data`, `account`). `AuthGuardLeaves` and
`GuestGuardLeaves` are the conditions under which `auth-guard.tsx` redirects; a
redirect unmounts the queries of the page left (`WithoutQueries`). `Unauthorised` is
the listener `main.tsx` installs. `KeepsAsking` says that the page on screen asks the
server again and again. The code does not see to that: a page polls only while its data
say `polling_enabled` (`holdings/queries.ts:57`, `global-market-queries.ts:26`), and one of
closed holdings, of the journal or of the settings that is left alone goes on showing the
account of a session that has ended. It is therefore the premise of `StaleDisplayEnds` and
of `EndedSessionReachesLogin`, and no fairness condition. `overlapped` marks
a session whose login had verified a password that was changed before the insert.

### PortfoliosPage

The page, and a server that commits each request in one step (its overlaps are in
`Portfolios`). Handlers write the whole URL from what their render saw: a request
keeps that URL in `at`, and `CreateAnswered` and `DeleteAnswered` go back to it.
`RunEffects` is the two effects of a commit, of which the later one wins.
`Ordered` is `applyHoldingOrder`: the dragged order first, then what it does not name.
`Reconcile` is what the effect makes of a dragged order when another list arrives.
`hasty` records that a move ("move") or a drag ("reorder") was computed from a list that
was about to be replaced, `newest` is the portfolio created last. `Refresh` is the button,
disabled while a fetch is on the way, and the focus of the window, which joins such a
fetch (`cancelRefetch: false`) and reads the portfolios only when they are stale.

| Action | Code (`features/portfolios`, `features/holdings/queries.ts`) |
|---|---|
| `Select`, `SetTab`, `SetFilter`, `ToggleSort`, `GoToPage`, `ResetList` | the URL, `use-portfolios-url.ts` |
| `SubmitCreate`, `ConfirmDelete`, `ConfirmDrop`, `SetDefault`, `Move`, `Drag` | the mutations |
| `CreateAnswered`, ..., `Failed` | their `onSuccess`, `onError` and what follows the `await` |
| `ServeRail`, `ServeList`, `ReceiveRail`, `ReceiveList` | the two queries |

### OverviewPage

`LiveQueryVisibilityManager` (`Focus`, `Hide`, `Show`, `SecondPasses`, `FireTimer`),
the page's two tabs with their queries, `RefreshAll`, which awaits one module after
the other, and the button of a global-market group, whose request collects the group
(`ServeSync`, `Publish`) and then refetches the panel (`SyncAnswered`). `Settle` is
the point where a fetch ends in any way and whoever awaited it goes on; it is what
makes a cancelled fetch release `refreshAll`. The server here is a counter per group:
what happens inside a collection is `GlobalMarketRefresh`. `owed` is a history
variable: queries not answered since the page was shown.

## 4. What is checked

| Run | Shows |
|---|---|
| `GlobalMarketStore` | `TypeOK`; `ImplementsStore`; `PageKeepsData`: a page that has shown data never gets an empty answer before the last success reaches its TTL. Loop, manual requests, one page, three refreshes, one crash or shutdown. |
| `GlobalMarketFaults` | `SingleFlight` (while locks last), `FreesOnlyItsOwn` (always), and under fairness `KeepsRefreshing` and `BadgeGoesOut`. One failed command, one crash, one lock ending under its job. |
| `DataSourcesRaces` | `TypeOK`; `OneActiveWithoutRivals`; `ActiveIsTested` (no edit overlapping a use). Two sources of a family, two requests at a time. |
| `PortfoliosRaces` | `TypeOK`; `DefaultSurvives`; `AloneIsNotRefused`; `NewGoesLast`. Two requests at a time, three portfolios. |
| `SourceCacheRaces` | `TypeOK`; `ConfigurationsStaySeparate` (no load overlapping a change, no failed command); `FallbackIsLatest` (no failed command); `NeverBackInTime` (always); under fairness `LoadsEnd`. A locked module and the index quotes, two loads, two versions of the details, three switches, one overlap, one fault. |
| `SourceCacheValuations` | violation: valuations fetched with the old details answer after an edit, its invalidation, a test and an activation. |
| `WatchlistPageRaces` | `TypeOK`; `NewIsOnTop`: the row added last is listed first until a reordering names it, whatever overlaps; `AloneDoesWhatItSays` and `AloneMendsTheNumbers` (requests that ran alone); `QuietPageShowsWhatIsStored` (the last fetch neither cancelled nor failed); `TicksAreOfThisView`. Three rows, two to be added, two rows on a page, three gestures or faults. |
| `SessionRaces` | `TypeOK`; `CacheOfOneAccount`; `OldPasswordOpensNothing` (but for a login the change overlapped); `RevokedForGood`; under fairness `StaleDisplayEnds`, for a page that goes on asking. Two accounts, two sessions, one password change, one fault. |
| `SessionEnded` | violation: after a session has ended, and though the page goes on asking, the guards send the visitor back and forth, and the login page is never shown. |
| `PortfoliosPageRaces` | `TypeOK`; `QuietPageShowsWhatIsStored` (after a hasty drag, the holdings but not their order); `DeletedIsForgotten`; `OneSwapAtATime` (no hasty move); under fairness `EffectsEnd`. Two portfolios and one to be made, three holdings, two rows on a page, four gestures, one fault. |
| `PortfoliosPageNew` | violation: a portfolio just created is not the one selected, since the effect that follows its answer does not find it in the cached list yet. |
| `OverviewPageRaces` | `TypeOK`; under fairness `ShownAgainIsRefreshed`, `SweepEnds` and `BusyEnds` (if the panel is polled); `SyncIsShown` (unless the refetch joined a fetch under way). Two modules, one of them delayed, one group, three gestures, one fault. |

Bounds. Every bound is a constant with the name `Max...`, used in a guard: refreshes
that take the lock, overruns, failed commands, crashes, portfolios ever created,
and the overlaps that are counted. Three refreshes let a crashed one be followed by
a failing and a succeeding one; two jobs suffice since the lock admits one at a time
and a second one can only take over. Two requests at a time suffice for every
overlap of a pair; a third would add no statement that reads another's uncommitted
work. Three portfolios are needed for a deletion to have a choice of the next
default. One fault of each kind is where the fault matters; two of a kind are
combinations of what one shows. The theorems do not depend on any of these bounds.

In the pages the bound is on gestures. Three suffice in `OverviewPage` for the
throttle to be met by a hiding and a showing within its second, and for a button to be
pressed before or after a hiding; one group, because groups share only the panel's
fetch and two of them multiply the states beyond what TLC finishes. Four in
`PortfoliosPage` let a drag and a move be sent before the answer to either, with a
change of the view in between; its instance has two rows on a page and three holdings
so that a deletion empties the last page. Three in `WatchlistPage`, counted together
with the faults, let three requests overlap, one of them the other device's. Two
sessions and one password change let `Session` sign out, in and be revoked.

`CHECK_DEADLOCK FALSE` is set throughout: a bounded instance stops when its bound
is used up, and an idle system may stop as well.

`ReadsAreShort` (in `GlobalMarketStore`): a GET is a few Valkey commands and a fetch
takes seconds, so no GET spans a whole fetch. Without it a GET could read an empty
group before the first success, and answer after another GET of the page has shown
that success. It restricts `FetchEnds` only, and no property of the jobs needs it.

Fairness (`FairSpec`): weak fairness of the steps of a job that is inside the
refresh (every await of it ends, each call of the adapter has a timeout), of the
steps of a GET that has begun, of the TTLs of the lock and the flag, which end by
the clock, and of the loop's attempt to take the lock, which
`run_global_market_group_scheduler` repeats for ever, catching its own exceptions.
Nothing is assumed of manual requests or of what the upstream answers. In
`SourceCache`: weak fairness of the steps of each load, since its Valkey commands
and upstream calls end (they have timeouts) and `asyncio.Lock` serves its waiters
in turn. Nothing is assumed of the changes, and `LoadsEnd` covers loads that fail,
fall back or meet a crash.

In the pages: the server answers, the browser delivers what has arrived and fires its
timers, and React renders and runs the effects of what has changed. In `Session` the
session query is sure to be fetched only while a guard waits for it, and nothing says that
a page on screen reads again: `KeepsAsking` is a premise of the properties. In `PortfoliosPage` only `RunEffects` is
fair. In `OverviewPage` nothing says that the visitor comes back to a hidden page, nor
that a query is polled, since `refetchInterval` depends on the data: `BusyEnds` has
the polling of the panel as its premise. `WatchlistPage` has no fairness.

Symmetry: the two rows `WatchlistPage` may add are interchangeable, and its run has no
liveness property. No other run uses it.

In `SourceCache`, two loads suffice for a lock to be contended and for one to store
what another has fetched in between; two versions of the details and three switches
let a source be activated, edited, activated again, and switched once more; one
fault is a failed read, write or invalidation, or a crash.

## 5. What is proved

The eight `...Proofs` modules hold for any sets of jobs, pages, sources, requests,
keys, loads, accounts, sessions, rows, filters, portfolios, holdings, modules and
groups, and any bounds.

- `GlobalMarketRefreshProofs`: `TypeCorrect`; `TokensAreOwned`, the inductive
  invariant: a token is drawn once, so two jobs never hold the same, every key
  holds a token drawn so far, and while no lock ended under its job a job inside the
  refresh is the owner of the lock. `SingleFlight` alone is not inductive: it says nothing
  of the job that holds the lock before it fetches. From it `AtMostOneFetch`; `LeavingIsHarmless` needs only the
  uniqueness of tokens; `RefreshImplementsStore` adds to ownership that a job's
  snapshot is newer than what is stored until it has stored it, and that a fallback
  has seen the cells as they still are, since nobody else writes. `PagesKeepData` is
  `PageKeepsData` under the assumptions its run gives the constants: no command
  fails, no lock ends under its job, no GET spans a whole fetch. `DataInv`: data that is
  published, read or served has a last success behind it. `LateInv`: a GET that found
  nothing published and still has to look for the last success meets no "unavailable"
  once there is one, since a fetch that can end before the GET does began before it.
- `DataSourcesProofs`: `TypeOK`, `OneActiveWithoutRivals` and `ActiveIsTested`. Each
  has a strengthening that says what a request in flight knows. `RivalInv`
  (`rivals = 0`): an activation about to commit has loaded every other active source
  of its family. `ClashInv` (`clashes = 0`): an edit has seen everything it has to
  reset, since the ORM writes only what it changes, and what a test, a read or an
  activation has loaded still describes the source.
- `PortfoliosProofs`: `TypeOK` and `DefaultSurvives`. `DefaultInv`
  says, while no deletion has overlapped another write of the flag (`deleteRaces = 0`),
  that a deletion in flight is alone with the flag, and that one that promotes no other
  portfolio leaves a default behind, or nothing; `NextInv`, that none promotes itself.
  `AloneIsNotRefused` and `NewGoesLast` rest on `AloneInv`: what a request that nobody
  overlapped has read is still so, hence the partial unique index meets at most the one
  default it cleared, and the number of a new row is above every number stored.
- `SourceCacheProofs`: `TypeOK`, `NeverBackInTime`, `FallbackIsLatest` and
  `ConfigurationsStaySeparate`. The invariant says that whoever looks again, fetches or
  stores under a locked key is the holder of its lock (`LockInv`); hence no other load stores in between, and
  the value a load is about to store is of a later fetch than what is stored
  (`TimeInv`), which holds from the begin of the fetch, because every value stored
  by then was fetched before. `FallbackInv` adds that the load between the two
  writes holds the lock of this very key. `SeparateInv` is about the keys an
  invalidation knows, while no load overlaps a change and no command fails: a load
  knows the details of its source, and a value fetched with others is there only
  while the source is off or an invalidation has yet to scan its key or to remove it, and
  no load is in flight then. It says nothing of a load that spans a change: such a
  load does publish what it fetched with the old details (`overview/service.py:195`).
- `SessionProofs`: `TypeOK`, `RevokedForGood`, `OldPasswordOpensNothing` and
  `CacheOfOneAccount`. `IInv` adds to the types what a request in flight knows
  (`Known`): one past its authorisation names the account of its session's row, whose
  account never changes. `PasswordInv` speaks of every row that is not revoked and
  not only of the accepted ones, because a request authorised earlier extends a row
  that has expired since. `CacheInv` adds that a read in flight was sent with the
  cookie the browser still has: a login and a logout cancel the others, and a password
  change leaves no cookie until the next login clears the cache.
- `WatchlistPageProofs`: the stored list and the page over it, every safety property
  of the run. `StoreInv`: the row added last has the number 0, stored and in whatever a
  request has loaded (`TopInv`; that is why a reordering computed before cannot move it),
  and a request that runs alone has loaded what is stored (`AloneInv`). The steps of the
  stored list are proved without the page, and the page's are then about how a gesture
  fills a slot. `NewIsOnTop` adds that `Listing` is a sequence without repetition whose
  first row is the only one no other comes before: lemmas about ranks by cardinality.
  `AloneMendsTheNumbers` needs that numbers counted off from 0 along a list are those of
  an interval. `CurrentInv`, for the quiet page: unless the list was changed elsewhere,
  an answer is still to come, or the last fetch was cancelled or failed, what was fetched last is what is stored.
- `PortfoliosPageProofs`: every safety property of the run. The list shown is compared
  with the stored one in two halves: `OrderInv`, whatever is in both is in the same
  order, but for an answer to a drag still to come; `FullInv`, nothing else is shown, but
  for an answer to a deletion. The converse is `StaleInv`: holdings are only taken
  away. `DragInv` relates the optimistic order, and the one it is rolled back to, to
  what is stored; both may name holdings since deleted. A quiet page then shows a list of
  the same holdings in the same order, which is the same list (`SameList`).
  `DeletedInv`: lists of a deleted portfolio are cached only while the answer to the
  deletion is due. `MoveInv`: what a move submits exchanges two neighbours of a list in the
  stored order, so that of a list with the same members it exchanges two neighbours.
- `OverviewPageProofs`: `TypeOK`, whose hard part ties the sweep and the groups'
  buttons to fetches under way (`Linked`), since one fetch may be awaited by both and is
  settled for both; and `SyncIsShown`, by `PromisedInv`: what the click was promised is
  no later than the server's snapshot, nor than the one a refetch that it began
  itself has been served.

`DragInv` is where a proof changed the model. An earlier form of
`QuietPageShowsWhatIsStored` asked for the stored order whenever the page is quiet. TLC
found that true, because of the bound; the step of the rollback could not be proved. Six
gestures refute it: the deletion of a holding is confirmed and its dialog dismissed, a row
is dragged, the list is reset, and a row dragged again on the list that was cached
before the first drag; the deletion is served, the second drag is then refused as it names a
holding that is gone, and the order remembered for the rollback, which is older than
what is stored, is shown until another drag or a reset (`use-portfolios-controller.ts:206`). The property
now excepts drags from such a list (`hasty`), and only their order.

`RefreshImplementsStore` and `PagesKeepData` have the hypotheses named above, which are
those of their run. Else only the modules' `ASSUME`s are assumed: the loop is a job,
bounds are naturals, OAuth sources are sources, each source has a family, the locked,
backed, named and scanned keys are keys, `None` is none of them (nor an account, a session id, a module, a
portfolio or a holding), portfolios and holdings have distinct ids, the lists stored at
the start repeat nothing, and a page of a list has room for a row.

Model-checked only: the liveness properties (`KeepsRefreshing`, `BadgeGoesOut`,
`LoadsEnd`, `StaleDisplayEnds`, `EffectsEnd`, `ShownAgainIsRefreshed`, `SweepEnds`,
`BusyEnds`), which are beyond the proof system. Every other property of a passing run
is a theorem. The three that a run refutes have nothing to prove.

## 6. What is not modelled

The components with no module yet are in the plan above: holdings, radar, calendar
and the OAuth state. Left out for good are upstream requests and the parsing of their
answers, rendering and forms, journals (independent rows), cryptography, migrations,
start-up, and the carousel, which no component uses.

Within the modelled components:

- backend: the content of a snapshot (metrics, warnings, market status) or of a cached
  answer, the catalog load nested in the industries load (a load of a key of its own),
  the fetchers of the four market groups one by one (they end in the same three ways),
  a stored value that does not parse, which is treated as absent (only this code writes
  these keys; `global_market/service.py:408`),
  the wording of errors, names, notes and cover images, login throttling and the CSRF
  token (refusals, which the models have);
- `PortfoliosPage`: the table of closed holdings (taken as empty), the dialog that
  creates or edits a holding, renaming, the summaries, a second creation sent while the
  first is on its way (the dialog can be dismissed by Escape and opened again);
- `WatchlistPage`: notes, quotes, the instrument search, the detail page;
- `OverviewPage`: leaving the page and coming back, the cards' own timers;
- `Session`: other tabs appear only through what they do to the session.

`.pnpm-config` holds a copy of the frontend, byte for byte the one under `frontend/`.
The map names `frontend/` only, so at most half of the frontend files found in the
tree can be covered; most of the other half's lines that no definition names are
the markup of tables, cards and forms.

Known and without a module or a property: the state of an OAuth authorisation is read
and deleted by two commands (`settings/service.py:633`), and a rotating refresh token
is used twice by overlapping renewals (`:333`); index and holding quotes are loaded
without the lock the modules take (`overview/service.py:296`), and a load that began
before an invalidation stores its answer after it (`:195`); two creations of a holding
read the same largest `sort_order` (`holdings/service.py:216`); a restart after the
hour of the radar begins the daily run again (`radar/service.py:515`); a failed persist
of the calendar rolls back, which expires the source whose name the log line then reads
(`calendar/service.py:722`); a late 401 to a write of a former account signs the next
one out of the page; a password change does not empty the query cache
(`features/settings/queries.ts:119`), though the next login does; a second move on the
watchlist is computed from the list before the first has been fetched
(`use-watchlist-controller.ts:114`); a drag whose answer was lost is rolled back on the
page though the server stored it, and the fetched lists do not undo that
(`use-portfolios-controller.ts:204`); the popovers of the global-market panel clear
their close timer in an effect without dependencies, so a render in between keeps them
open (`global-market-panel.tsx:109`).
