------------------------- MODULE GlobalMarketRefresh -------------------------
(***************************************************************************)
(* The refresh of ONE global-market group (backend/app/global_market).     *)
(* Every Valkey key carries the group's name and groups share nothing, so  *)
(* one group is the whole of the interaction.                              *)
(*                                                                         *)
(* Refresh jobs are the scheduler loop and the manual POST requests; each  *)
(* command a job sends to Valkey is a step of its own, since every one is  *)
(* an await of the event loop.  A page polls with GET requests, which only *)
(* read Valkey.                                                            *)
(*                                                                         *)
(* A snapshot is its state and the time of the fetch its data came from    *)
(* ("good" is the code's ready or partial: no branch tells them apart).    *)
(***************************************************************************)
EXTENDS Naturals, FiniteSets

CONSTANTS
    Jobs,             \* refresh jobs that may run: the loop and the requests
    Scheduler,        \* the job of the background loop
    Pages,            \* pages that poll the group
    ReadsAreShort,    \* TRUE when a GET ends before a fetch begun after it
    MaxRuns,          \* bound on the refreshes that take the lock
    MaxOverruns,      \* bound on the TTLs that end under a running job
    MaxErrors,        \* bound on the Valkey commands that raise RedisError
    MaxCrashes        \* bound on process crashes and shutdowns

ASSUME SchedulerIsJob == Scheduler \in Jobs
ASSUME BoundsAreNat ==
    /\ MaxRuns \in Nat /\ MaxErrors \in Nat /\ MaxCrashes \in Nat
    /\ MaxOverruns \in Nat
    /\ ReadsAreShort \in BOOLEAN

VARIABLES
    lock, refreshing,      \* Valkey: tokens, 0 when the key is absent
    current, lastSuccess,  \* Valkey: snapshots
    errorKey,              \* Valkey: "text" or "absent"
    pc, token, snap,       \* of each job: place, lock_token, snapshot
    readerPc, view,        \* of each page's GET: place, group read so far
    readClock,             \* fetches started when it began
    served,                \* the group as last answered to each page
    runs, clock,           \* tokens drawn, fetches started
    errors,                \* commands that raised so far
    crashes, overruns,     \* other faults so far
    lastEnded              \* whether a last success has reached its TTL

valkey  == <<lock, refreshing, current, lastSuccess, errorKey>>
jobVars == <<pc, token, snap>>
reader  == <<readerPc, view, readClock, served>>
faults  == <<crashes, overruns, lastEnded>>
vars    == <<valkey, jobVars, reader, runs, clock, errors, faults>>

Good(v)     == [state |-> "good", at |-> v]
Mistyped(v) == [state |-> "staled", at |-> v]  \* mutant of Stale
Stale(v)    == [state |-> "stale", at |-> v]
Unavailable == [state |-> "unavailable", at |-> 0]
Absent      == [state |-> "absent", at |-> 0]

Snapshot == [state : {"good", "stale", "unavailable", "absent"}, at : Nat]
InRefresh == {"fetching", "loadLast", "loadCurrent", "storeLast",
              "storeCurrent", "storeError", "release"}
Places == {"idle", "marking"} \cup InRefresh

(* The job holds a token and may still write.                              *)
Running(j) == pc[j] # "idle"

Init ==
    /\ lock = 0 /\ refreshing = 0
    /\ current = Absent /\ lastSuccess = Absent /\ errorKey = "absent"
    /\ pc = [j \in Jobs |-> "idle"]
    /\ token = [j \in Jobs |-> 0]
    /\ snap = [j \in Jobs |-> Absent]
    /\ readerPc = [p \in Pages |-> "idle"] /\ view = [p \in Pages |-> Absent]
    /\ readClock = [p \in Pages |-> 0] /\ served = [p \in Pages |-> Absent]
    /\ runs = 0 /\ clock = 0 /\ errors = 0
    /\ crashes = 0 /\ overruns = 0 /\ lastEnded = FALSE

-----------------------------------------------------------------------------
(* Valkey commands.  A command that raises may or may not have been applied; *)
(* a read that raises yields nothing (_cache_get returns None).              *)
ReadReply(cell)      == {[val |-> cell, failed |-> FALSE],
                         [val |-> Absent, failed |-> TRUE]}
WriteReply(old, new) == {[val |-> new, failed |-> FALSE],
                         [val |-> new, failed |-> TRUE],
                         [val |-> old, failed |-> TRUE]}

Count(failed) ==
    /\ failed => errors < MaxErrors
    /\ errors' = IF failed THEN errors + 1 ELSE errors

Goto(j, place) == pc' = [pc EXCEPT ![j] = place]

(* The token of a job that leaves _refresh_group is gone with its frame.   *)
Leave(j) ==
    /\ Goto(j, "idle")
    /\ token' = [token EXCEPT ![j] = 0]
    /\ snap' = [snap EXCEPT ![j] = Absent]

-----------------------------------------------------------------------------
IgnoresLock == TRUE  \* mutant of LockIsFree: the NX option forgotten
LockIsFree  == lock = 0

(* SET lock token NX EX.  With the key present the job returns at once     *)
(* (a stuttering step); on RedisError it returns although its token may    *)
(* have been stored.                                                       *)
Acquire(j) ==
    /\ pc[j] = "idle" /\ runs < MaxRuns
    /\ LockIsFree
    /\ runs' = runs + 1
    /\ \E r \in WriteReply(lock, runs + 1) :
         /\ Count(r.failed)
         /\ lock' = r.val
         /\ IF r.failed
              THEN UNCHANGED <<pc, token>>
              ELSE /\ Goto(j, "marking")
                   /\ token' = [token EXCEPT ![j] = runs + 1]
    /\ UNCHANGED <<refreshing, current, lastSuccess, errorKey, snap, reader,
                   clock, faults>>

(* SET refreshing, then straight into the fetch, which stamps fetched_at.  *)
Mark(j) ==
    /\ pc[j] = "marking"
    /\ \E r \in WriteReply(refreshing, token[j]) :
         Count(r.failed) /\ refreshing' = r.val
    /\ clock' = clock + 1
    /\ snap' = [snap EXCEPT ![j] = Good(clock + 1)]
    /\ Goto(j, "fetching")
    /\ UNCHANGED <<lock, current, lastSuccess, errorKey, token, reader, runs,
                   faults>>

(* A fetch takes seconds and a read a few Valkey commands: under            *)
(* ReadsAreShort no read spans a whole fetch.                               *)
FetchEnds(j) ==
    /\ pc[j] = "fetching"
    /\ ReadsAreShort => \A p \in Pages :
                           readerPc[p] = "idle" \/ snap[j].at <= readClock[p]

(* The adapter returns at least one value.                                 *)
FetchSucceeds(j) ==
    /\ FetchEnds(j)
    /\ Goto(j, "storeLast")
    /\ UNCHANGED <<valkey, token, snap, reader, runs, clock, errors, faults>>

(* It returns none, or raises GlobalMarketAdapterError.                    *)
FetchUnavailable(j) ==
    /\ FetchEnds(j)
    /\ snap' = [snap EXCEPT ![j] = Unavailable]
    /\ Goto(j, "loadLast")
    /\ UNCHANGED <<valkey, token, reader, runs, clock, errors, faults>>

(* Any other exception goes to the except and finally clauses.             *)
FetchRaises(j) ==
    /\ FetchEnds(j)
    /\ Goto(j, "release")
    /\ UNCHANGED <<valkey, token, snap, reader, runs, clock, errors, faults>>

(* Mutant of LoadLast: the fallback to the last success forgotten.         *)
SkipsLast(j) ==
    /\ pc[j] = "loadLast"
    /\ Goto(j, "loadCurrent")
    /\ UNCHANGED <<valkey, token, snap, reader, runs, clock, errors, faults>>

LoadLast(j) ==
    /\ pc[j] = "loadLast"
    /\ \E r \in ReadReply(lastSuccess) :
         /\ Count(r.failed)
         /\ IF r.val # Absent
              THEN /\ snap' = [snap EXCEPT ![j] = Stale(r.val.at)]
                   /\ Goto(j, "storeCurrent")
              ELSE Goto(j, "loadCurrent") /\ UNCHANGED snap
    /\ UNCHANGED <<valkey, token, reader, runs, clock, faults>>

LoadCurrent(j) ==
    /\ pc[j] = "loadCurrent"
    /\ \E r \in ReadReply(current) :
         /\ Count(r.failed)
         /\ snap' = IF r.val # Absent THEN [snap EXCEPT ![j] = r.val] ELSE snap
    /\ Goto(j, "storeCurrent")
    /\ UNCHANGED <<valkey, token, reader, runs, clock, faults>>

StoreLast(j) ==
    /\ pc[j] = "storeLast"
    /\ \E r \in WriteReply(lastSuccess, snap[j]) :
         Count(r.failed) /\ lastSuccess' = r.val
    /\ Goto(j, "storeCurrent")
    /\ UNCHANGED <<lock, refreshing, current, errorKey, token, snap, reader,
                   runs, clock, faults>>

StoreCurrent(j) ==
    /\ pc[j] = "storeCurrent"
    /\ \E r \in WriteReply(current, snap[j]) :
         Count(r.failed) /\ current' = r.val
    /\ Goto(j, IF snap[j] = Unavailable THEN "storeError" ELSE "release")
    /\ UNCHANGED <<lock, refreshing, lastSuccess, errorKey, token, snap, reader,
                   runs, clock, faults>>

StoreError(j) ==
    /\ pc[j] = "storeError"
    /\ \E r \in WriteReply(errorKey, "text") :
         Count(r.failed) /\ errorKey' = r.val
    /\ Goto(j, "release")
    /\ UNCHANGED <<lock, refreshing, current, lastSuccess, token, snap, reader,
                   runs, clock, faults>>

(* The Lua script of the finally clause: compare and delete both keys.     *)
DeleteAny(cell, t) == 0  \* mutant of DeleteOwn: no comparison
DeleteOwn(cell, t) == IF cell = t THEN 0 ELSE cell

DeleteKeys(applied, t) ==
    /\ lock' = IF applied THEN DeleteOwn(lock, t) ELSE lock
    /\ refreshing' = IF applied THEN DeleteOwn(refreshing, t) ELSE refreshing

Release(j) ==
    /\ pc[j] = "release"
    /\ \E r \in WriteReply("kept", "deleted") :
         /\ Count(r.failed)
         /\ DeleteKeys(r.val = "deleted", token[j])
    /\ Leave(j)
    /\ UNCHANGED <<current, lastSuccess, errorKey, reader, runs, clock, faults>>

-----------------------------------------------------------------------------
(* Shutdown cancels the loop's task at the await it is in.  Inside the try  *)
(* block the finally clause still runs; the write of the refreshing key is  *)
(* before that block, so the lock stays; a cancelled release may or may not *)
(* have reached Valkey.                                                     *)
Cancel ==
    LET j == Scheduler IN
    /\ Running(j) /\ crashes < MaxCrashes
    /\ crashes' = crashes + 1
    /\ \/ /\ pc[j] \in InRefresh \ {"release"}
          /\ Goto(j, "release")
          /\ UNCHANGED <<lock, refreshing, token, snap>>
       \/ /\ pc[j] = "marking"
          /\ refreshing' \in {refreshing, token[j]}
          /\ Leave(j)
          /\ UNCHANGED lock
       \/ /\ pc[j] = "release"
          /\ Leave(j)
          /\ \E applied \in BOOLEAN : DeleteKeys(applied, token[j])
    /\ UNCHANGED <<current, lastSuccess, errorKey, reader, runs, clock, errors,
                   overruns, lastEnded>>

(* The process dies and is restarted; Valkey keeps what it holds.          *)
Crash ==
    /\ crashes < MaxCrashes
    /\ crashes' = crashes + 1
    /\ pc' = [j \in Jobs |-> "idle"]
    /\ token' = [j \in Jobs |-> 0]
    /\ snap' = [j \in Jobs |-> Absent]
    /\ readerPc' = [p \in Pages |-> "idle"]
    /\ view' = [p \in Pages |-> Absent]
    /\ readClock' = [p \in Pages |-> 0]
    /\ UNCHANGED <<valkey, served, runs, clock, errors, overruns, lastEnded>>

-----------------------------------------------------------------------------
(* TTLs.  The lock and the refreshing flag live lock_seconds; nothing makes *)
(* that longer than the adapter's calls take (both are settings), so a key  *)
(* can end under the job that set it.                                       *)
CountOverrun(t) ==
    LET underJob == \E j \in Jobs : token[j] = t IN
    /\ underJob => overruns < MaxOverruns
    /\ overruns' = IF underJob THEN overruns + 1 ELSE overruns

NoLockTtl  == FALSE  \* mutant of ExpireLock: SET without EX
NoBadgeTtl == FALSE  \* mutant of ExpireRefreshing: SET without EX

ExpireLock ==
    /\ lock # 0 /\ CountOverrun(lock)
    /\ lock' = 0
    /\ UNCHANGED <<refreshing, current, lastSuccess, errorKey, jobVars, reader,
                   runs, clock, errors, crashes, lastEnded>>

ExpireRefreshing ==
    /\ refreshing # 0 /\ CountOverrun(refreshing)
    /\ refreshing' = 0
    /\ UNCHANGED <<lock, current, lastSuccess, errorKey, jobVars, reader, runs,
                   clock, errors, crashes, lastEnded>>

ExpireCurrent ==
    /\ current # Absent
    /\ current' = Absent
    /\ UNCHANGED <<lock, refreshing, lastSuccess, errorKey, jobVars, reader,
                   runs, clock, errors, faults>>

ExpireLast ==
    /\ lastSuccess # Absent
    /\ lastSuccess' = Absent /\ lastEnded' = TRUE
    /\ UNCHANGED <<lock, refreshing, current, errorKey, jobVars, reader, runs,
                   clock, errors, crashes, overruns>>

ExpireError ==
    /\ errorKey # "absent"
    /\ errorKey' = "absent"
    /\ UNCHANGED <<lock, refreshing, current, lastSuccess, jobVars, reader,
                   runs, clock, errors, faults>>

-----------------------------------------------------------------------------
(* read_global_market: current, else a stale copy of the last success, else *)
(* an unavailable group; the refreshing flag is read last.                  *)
ReadCurrent(p) ==
    /\ readerPc[p] = "idle"
    /\ \E r \in ReadReply(current) :
         /\ Count(r.failed)
         /\ view' = [view EXCEPT ![p] = r.val]
         /\ readerPc' = [readerPc EXCEPT ![p] =
                            IF r.val # Absent THEN "flag" ELSE "last"]
    /\ readClock' = [readClock EXCEPT ![p] = clock]
    /\ UNCHANGED <<valkey, jobVars, served, runs, clock, faults>>

(* Mutant of ReadLast: the page is answered from the current snapshot only. *)
ReadsNoLast(p) ==
    /\ readerPc[p] = "last"
    /\ view' = [view EXCEPT ![p] = Unavailable]
    /\ readerPc' = [readerPc EXCEPT ![p] = "flag"]
    /\ UNCHANGED <<valkey, jobVars, readClock, served, runs, clock, errors,
                   faults>>

ReadLast(p) ==
    /\ readerPc[p] = "last"
    /\ \E r \in ReadReply(lastSuccess) :
         /\ Count(r.failed)
         /\ view' = [view EXCEPT ![p] = IF r.val # Absent THEN Stale(r.val.at)
                                                         ELSE Unavailable]
    /\ readerPc' = [readerPc EXCEPT ![p] = "flag"]
    /\ UNCHANGED <<valkey, jobVars, readClock, served, runs, clock, faults>>

Answer(p) ==
    /\ readerPc[p] = "flag"
    /\ \E failed \in BOOLEAN : Count(failed)
    /\ served' = [served EXCEPT ![p] = view[p]]
    /\ readerPc' = [readerPc EXCEPT ![p] = "idle"]
    /\ view' = [view EXCEPT ![p] = Absent]
    /\ readClock' = [readClock EXCEPT ![p] = 0]
    /\ UNCHANGED <<valkey, jobVars, runs, clock, faults>>

-----------------------------------------------------------------------------
JobStep(j) ==
    \/ Acquire(j) \/ Mark(j)
    \/ FetchSucceeds(j) \/ FetchUnavailable(j) \/ FetchRaises(j)
    \/ LoadLast(j) \/ LoadCurrent(j)
    \/ StoreLast(j) \/ StoreCurrent(j) \/ StoreError(j)
    \/ Release(j)

Expire == ExpireLock \/ ExpireRefreshing \/ ExpireCurrent \/ ExpireLast
          \/ ExpireError

Read(p) == ReadCurrent(p) \/ ReadLast(p) \/ Answer(p)

Next ==
    \/ \E j \in Jobs : JobStep(j)
    \/ Cancel \/ Crash
    \/ Expire
    \/ \E p \in Pages : Read(p)

Spec == Init /\ [][Next]_vars

(* Every await of a running job ends (each adapter call has a timeout), the *)
(* loop sleeps and tries again for ever, and Valkey ends a TTL.             *)
Fairness ==
    /\ \A j \in Jobs : WF_vars(Running(j) /\ JobStep(j))
    /\ \A p \in Pages : WF_vars(ReadLast(p)) /\ WF_vars(Answer(p))
    /\ WF_vars(Acquire(Scheduler))
    /\ WF_vars(ExpireLock) /\ WF_vars(ExpireRefreshing)

FairSpec == Spec /\ Fairness
-----------------------------------------------------------------------------
TypeOK ==
    /\ lock \in Nat /\ refreshing \in Nat
    /\ current \in Snapshot /\ lastSuccess \in Snapshot
    /\ errorKey \in {"absent", "text"}
    /\ pc \in [Jobs -> Places]
    /\ token \in [Jobs -> Nat]
    /\ snap \in [Jobs -> Snapshot]
    /\ readerPc \in [Pages -> {"idle", "last", "flag"}]
    /\ view \in [Pages -> Snapshot] /\ served \in [Pages -> Snapshot]
    /\ readClock \in [Pages -> Nat]
    /\ runs \in Nat /\ clock \in Nat /\ errors \in Nat
    /\ crashes \in Nat /\ overruns \in Nat /\ lastEnded \in BOOLEAN

(* At most one job fetches a group upstream at any time, whatever Valkey    *)
(* commands fail and whoever crashes, as long as no lock's TTL ended under  *)
(* its job (the SET NX lock of _refresh_group).                             *)
SingleFlight ==
    overruns = 0 =>
    \A j, k \in Jobs : pc[j] = "fetching" /\ pc[k] = "fetching" => j = k

(* A job that leaves _refresh_group never frees the lock or the refreshing  *)
(* flag of another running job, even when its own lock had expired and was  *)
(* taken over (the compare-and-delete script of the finally clause).        *)
FreesOnlyItsOwn ==
    [][\A j, k \in Jobs :
          /\ j # k /\ Running(j) /\ pc'[j] = "idle"
          /\ pc[k] \in InRefresh /\ pc'[k] \in InRefresh
          => /\ lock = token[k] => lock' = lock
             /\ refreshing = token[k] => refreshing' # 0]_vars

(* Until the last success reaches its TTL, a page that has shown data for   *)
(* the group never gets an empty answer again, through expired snapshots,   *)
(* failed fetches, crashes and restarts (PRD 15.1: the TTL of the current   *)
(* snapshot must not cost the fallback).                                    *)
HasData(s) == s.state \in {"good", "stale"}
PageKeepsData ==
    [][~lastEnded => \A p \in Pages :
                        HasData(served[p]) => HasData(served'[p])]_vars

(* The promise to readers, as a specification.                              *)
Store == INSTANCE SnapshotStore WITH current <- current, lastSuccess <- lastSuccess
ImplementsStore == Store!Spec

(* Refreshing never stops for good: a lock left behind by a crash, a        *)
(* shutdown or a failed release ends with its TTL and the loop goes on.     *)
KeepsRefreshing == <>(runs = MaxRuns)

(* The page's "refreshing" badge always goes out, whatever ended the job.   *)
BadgeGoesOut == \A t \in 1..MaxRuns : refreshing = t ~> refreshing # t
=============================================================================
