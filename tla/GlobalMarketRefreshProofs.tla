---------------------- MODULE GlobalMarketRefreshProofs ----------------------
(***************************************************************************)
(* What holds of GlobalMarketRefresh for every number of jobs and pages    *)
(* and every bound.  TokenInv says whose token is where: a running job has *)
(* a token nobody else has, Valkey holds only tokens that were drawn, and  *)
(* until a TTL has ended under its job the lock holds the token of every   *)
(* running job, hence there is at most one.  StoreInv is the argument for  *)
(* the refinement.  DataInv is the one for what a page keeps, where the    *)
(* lock outlives its jobs and Valkey answers: once a page has seen data,   *)
(* there is a last success, and LateInv tells when a read may still miss   *)
(* it.                                                                     *)
(***************************************************************************)
EXTENDS GlobalMarketRefresh, TLAPS

TokenInv ==
    /\ \A j \in Jobs : pc[j] = "idle" <=> token[j] = 0
    /\ \A j \in Jobs : token[j] <= runs
    /\ \A j, k \in Jobs : j # k /\ Running(j) => token[j] # token[k]
    /\ lock <= runs /\ refreshing <= runs
    /\ overruns = 0 => \A j \in Jobs : Running(j) => lock = token[j]

IInv == TypeOK /\ TokenInv

-----------------------------------------------------------------------------
(* Every step keeps the types.                                              *)
THEOREM TypeCorrect == Spec => []TypeOK
<1> USE SchedulerIsJob, BoundsAreNat
        DEF TypeOK, Snapshot, Places, InRefresh, Good, Stale, Unavailable, Absent
<1>1. Init => TypeOK
  <2> SUFFICES ASSUME Init PROVE TypeOK
    OBVIOUS
  <2>1. /\ lastEnded \in BOOLEAN
    BY Zenon DEF Init
  <2>2. /\ current \in Snapshot /\ lastSuccess \in Snapshot
        /\ snap \in [Jobs -> Snapshot]
        /\ view \in [Pages -> Snapshot] /\ served \in [Pages -> Snapshot]
    BY DEF Init
  <2>3. /\ pc \in [Jobs -> Places]
        /\ readerPc \in [Pages -> {"idle", "last", "flag"}]
    BY DEF Init
  <2>4. QED
    BY <2>1, <2>2, <2>3 DEF Init
<1>2. TypeOK /\ [Next]_vars => TypeOK'
  <2> SUFFICES ASSUME TypeOK, [Next]_vars PROVE TypeOK'
    OBVIOUS
  <2> USE DEF Goto, Leave, Count, ReadReply, WriteReply, DeleteOwn,
              DeleteKeys, valkey, jobVars, reader, faults
  <2>1. ASSUME NEW j \in Jobs, Acquire(j) PROVE TypeOK'
    BY <2>1 DEF Acquire
  <2>2. ASSUME NEW j \in Jobs, Mark(j) PROVE TypeOK'
    BY <2>2 DEF Mark
  <2>3. ASSUME NEW j \in Jobs, FetchSucceeds(j) PROVE TypeOK'
    BY <2>3 DEF FetchSucceeds
  <2>4. ASSUME NEW j \in Jobs, FetchUnavailable(j) PROVE TypeOK'
    BY <2>4 DEF FetchUnavailable
  <2>5. ASSUME NEW j \in Jobs, FetchRaises(j) PROVE TypeOK'
    BY <2>5 DEF FetchRaises
  <2>6. ASSUME NEW j \in Jobs, LoadLast(j) PROVE TypeOK'
    <3>1. PICK r \in ReadReply(lastSuccess) :
            /\ Count(r.failed)
            /\ \/ /\ snap' = [snap EXCEPT ![j] = Stale(r.val.at)]
                  /\ Goto(j, "storeCurrent")
               \/ Goto(j, "loadCurrent") /\ UNCHANGED snap
      BY <2>6 DEF LoadLast
    <3>2. r.val.at \in Nat
      BY <3>1
    <3>3. snap' \in [Jobs -> Snapshot]
      BY <3>1, <3>2, SMTT(20)
    <3>4. errors' \in Nat /\ pc' \in [Jobs -> Places]
      BY <3>1
    <3>5. QED
      BY <2>6, <3>3, <3>4, SMTT(20) DEF LoadLast
  <2>7. ASSUME NEW j \in Jobs, LoadCurrent(j) PROVE TypeOK'
    <3>1. PICK r \in ReadReply(current) :
            /\ Count(r.failed)
            /\ snap' = IF r.val # Absent THEN [snap EXCEPT ![j] = r.val] ELSE snap
      BY <2>7 DEF LoadCurrent
    <3>2. r.val \in Snapshot
      BY <3>1
    <3>3. snap' \in [Jobs -> Snapshot] /\ errors' \in Nat
      BY <3>1, <3>2
    <3>4. QED
      BY <2>7, <3>3, SMTT(20) DEF LoadCurrent
  <2>8. ASSUME NEW j \in Jobs, StoreLast(j) PROVE TypeOK'
    BY <2>8 DEF StoreLast
  <2>9. ASSUME NEW j \in Jobs, StoreCurrent(j) PROVE TypeOK'
    BY <2>9 DEF StoreCurrent
  <2>10. ASSUME NEW j \in Jobs, StoreError(j) PROVE TypeOK'
    BY <2>10 DEF StoreError
  <2>11. ASSUME NEW j \in Jobs, Release(j) PROVE TypeOK'
    <3>1. PICK r \in WriteReply("kept", "deleted") :
            Count(r.failed) /\ DeleteKeys(r.val = "deleted", token[j])
      BY <2>11 DEF Release
    <3>2. /\ lock' \in Nat /\ refreshing' \in Nat /\ errors' \in Nat
      BY <3>1
    <3>3. QED
      BY <2>11, <3>2 DEF Release
  <2>12. ASSUME Cancel PROVE TypeOK'
    <3>1. lock' \in Nat /\ refreshing' \in Nat
      BY <2>12 DEF Cancel
    <3>2. \/ UNCHANGED <<token, snap>>
          \/ /\ token' = [token EXCEPT ![Scheduler] = 0]
             /\ snap' = [snap EXCEPT ![Scheduler] = Absent]
      BY <2>12 DEF Cancel
    <3>5. token' \in [Jobs -> Nat]
      BY <3>2
    <3>6. snap' \in [Jobs -> Snapshot]
      <4>1. CASE UNCHANGED snap
        BY <4>1
      <4>2. CASE snap' = [snap EXCEPT ![Scheduler] = Absent]
        BY <4>2
      <4>3. QED
        BY <3>2, <4>1, <4>2
    <3>3. \E place \in {"idle", "release"} :
             pc' = [pc EXCEPT ![Scheduler] = place]
      BY <2>12 DEF Cancel
    <3>4. pc' \in [Jobs -> Places]
      BY <3>3
    <3>7. QED
      BY <2>12, <3>1, <3>4, <3>5, <3>6 DEF Cancel
  <2>13. ASSUME Crash PROVE TypeOK'
    <3>1. /\ pc' \in [Jobs -> Places]
          /\ token' \in [Jobs -> Nat]
          /\ snap' \in [Jobs -> Snapshot]
      BY <2>13 DEF Crash
    <3>2. /\ readerPc' \in [Pages -> {"idle", "last", "flag"}]
          /\ view' \in [Pages -> Snapshot]
          /\ readClock' \in [Pages -> Nat]
      BY <2>13 DEF Crash
    <3>3. QED
      BY <2>13, <3>1, <3>2 DEF Crash
  <2>14. ASSUME Expire PROVE TypeOK'
    <3>1. CASE ExpireLock \/ ExpireRefreshing
      <4>1. overruns' \in Nat
        BY <3>1 DEF ExpireLock, ExpireRefreshing, CountOverrun
      <4>2. QED
        BY <3>1, <4>1 DEF ExpireLock, ExpireRefreshing
    <3>2. CASE ExpireCurrent
      BY <3>2 DEF ExpireCurrent
    <3>3. CASE ExpireLast
      <4>1. lastEnded' \in BOOLEAN
        BY <3>3, Zenon DEF ExpireLast
      <4>2. QED
        BY <3>3, <4>1 DEF ExpireLast
    <3>4. CASE ExpireError
      BY <3>4 DEF ExpireError
    <3>5. QED
      BY <2>14, <3>1, <3>2, <3>3, <3>4 DEF Expire
  <2>15. ASSUME NEW p \in Pages, Read(p) PROVE TypeOK'
    <3>1. CASE ReadCurrent(p)
      BY <3>1 DEF ReadCurrent
    <3>2. CASE ReadLast(p)
      BY <3>2 DEF ReadLast
    <3>3. CASE Answer(p)
      BY <3>3 DEF Answer
    <3>4. QED
      BY <2>15, <3>1, <3>2, <3>3 DEF Read
  <2>16. CASE UNCHANGED vars
    BY <2>16 DEF vars
  <2>17. QED
    BY <2>1, <2>2, <2>3, <2>4, <2>5, <2>6, <2>7, <2>8, <2>9, <2>10, <2>11,
       <2>12, <2>13, <2>14, <2>15, <2>16 DEF Next, JobStep
<1>3. QED
  BY <1>1, <1>2, PTL DEF Spec

-----------------------------------------------------------------------------
(* No job has begun and no token has been drawn.                            *)
LEMMA TokenInvInit == Init => TokenInv
  BY DEF Init, TokenInv, Running

(* A drawn token is new, and only its owner's step or an expiry moves it.    *)
LEMMA TokenInvStep == TypeOK /\ TokenInv /\ [Next]_vars => TokenInv'
<1> SUFFICES ASSUME TypeOK, TokenInv, [Next]_vars PROVE TokenInv'
  OBVIOUS
<1> USE SchedulerIsJob, BoundsAreNat
    DEF TypeOK, TokenInv, Running, Goto, Leave, Count
<1>1. ASSUME NEW j \in Jobs, Acquire(j) PROVE TokenInv'
  BY <1>1 DEF Acquire, WriteReply, LockIsFree, reader, faults
<1>2. ASSUME NEW j \in Jobs, Mark(j) PROVE TokenInv'
  BY <1>2 DEF Mark, WriteReply, faults
<1>3. ASSUME NEW j \in Jobs,
             \/ FetchSucceeds(j) \/ FetchUnavailable(j) \/ FetchRaises(j)
             \/ LoadLast(j) \/ LoadCurrent(j)
             \/ StoreLast(j) \/ StoreCurrent(j) \/ StoreError(j)
      PROVE TokenInv'
  <2>1. /\ pc[j] # "idle"
        /\ \E place \in Places \ {"idle"} : pc' = [pc EXCEPT ![j] = place]
        /\ UNCHANGED <<lock, refreshing, token, runs, overruns>>
    BY <1>3 DEF FetchSucceeds, FetchUnavailable, FetchRaises, FetchEnds,
       LoadLast, LoadCurrent, StoreLast, StoreCurrent, StoreError, Places,
       InRefresh, valkey, faults
  <2>2. QED
    BY <2>1
<1>4. ASSUME NEW j \in Jobs, Release(j) PROVE TokenInv'
  BY <1>4 DEF Release, DeleteKeys, DeleteOwn, WriteReply, faults
<1>5. ASSUME Cancel PROVE TokenInv'
  BY <1>5 DEF Cancel, DeleteKeys, DeleteOwn, InRefresh
<1>6. ASSUME Crash PROVE TokenInv'
  BY <1>6 DEF Crash, valkey
<1>7. ASSUME ExpireLock PROVE TokenInv'
  BY <1>7 DEF ExpireLock, CountOverrun, jobVars
<1>8. ASSUME ExpireRefreshing PROVE TokenInv'
  BY <1>8 DEF ExpireRefreshing, CountOverrun, jobVars
<1>9. ASSUME \/ ExpireCurrent \/ ExpireLast \/ ExpireError
             \/ UNCHANGED vars
             \/ \E p \in Pages : Read(p)
      PROVE TokenInv'
  <2>1. UNCHANGED <<lock, refreshing, pc, token, runs, overruns>>
    BY <1>9 DEF ExpireCurrent, ExpireLast, ExpireError, Read, ReadCurrent,
       ReadLast, Answer, vars, valkey, jobVars, faults
  <2>2. QED
    BY <2>1
<1>10. QED
  BY <1>1, <1>2, <1>3, <1>4, <1>5, <1>6, <1>7, <1>8, <1>9
  DEF Next, JobStep, Expire

(* Tokens are owned in every reachable state: the inductive invariant the   *)
(* lock's theorems rest on.                                                 *)
THEOREM TokensAreOwned == Spec => []IInv
<1>1. Init => TokenInv
  BY TokenInvInit
<1>2. TypeOK /\ TokenInv /\ [Next]_vars => TokenInv'
  BY TokenInvStep
<1>3. QED
  BY <1>1, <1>2, TypeCorrect, PTL DEF Spec, IInv

(* One upstream fetch at a time, for any number of jobs, Valkey errors and  *)
(* crashes: two fetching jobs would both have their token in the lock.      *)
THEOREM AtMostOneFetch == Spec => []SingleFlight
<1>1. IInv => SingleFlight
  BY DEF IInv, TokenInv, SingleFlight, Running
<1>2. QED
  BY <1>1, TokensAreOwned, PTL

(* A leaving job deletes only its own keys, whatever expired before.        *)
THEOREM LeavingIsHarmless == Spec => FreesOnlyItsOwn
<1> DEFINE Harmless(j, k) ==
      /\ j # k /\ Running(j) /\ pc'[j] = "idle"
      /\ pc[k] \in InRefresh /\ pc'[k] \in InRefresh
      => /\ lock = token[k] => lock' = lock
         /\ refreshing = token[k] => refreshing' # 0
<1>1. IInv /\ [Next]_vars => \A j, k \in Jobs : Harmless(j, k)
  <2> SUFFICES ASSUME IInv, [Next]_vars, NEW j \in Jobs, NEW k \in Jobs,
                      j # k, Running(j), pc'[j] = "idle",
                      pc[k] \in InRefresh, pc'[k] \in InRefresh
               PROVE  /\ lock = token[k] => lock' = lock
                      /\ refreshing = token[k] => refreshing' # 0
    BY DEF Harmless
  <2> USE DEF IInv, TypeOK, TokenInv, Running, InRefresh
  <2>1. token[k] # token[j] /\ token[k] # 0
    OBVIOUS
  <2>2. CASE Release(j) \/ Cancel
    BY <2>1, <2>2 DEF Release, Cancel, DeleteKeys, DeleteOwn, Goto, Leave
  <2>3. CASE Crash
    BY <2>3 DEF Crash
  <2>4. CASE \E i \in Jobs : JobStep(i) /\ ~ Release(i)
    BY <2>4 DEF JobStep, Goto, Leave, Acquire, Mark, FetchSucceeds,
       FetchUnavailable, FetchRaises, LoadLast, LoadCurrent, StoreLast,
       StoreCurrent, StoreError
  <2>5. CASE \E i \in Jobs : i # j /\ Release(i)
    BY <2>5 DEF Release, Goto, Leave
  <2>6. CASE Expire \/ UNCHANGED vars \/ \E p \in Pages : Read(p)
    BY <2>6 DEF Expire, ExpireLock, ExpireRefreshing, ExpireCurrent,
       ExpireLast, ExpireError, Read, ReadCurrent, ReadLast, Answer, vars,
       jobVars
  <2>7. QED
    BY <2>2, <2>3, <2>4, <2>5, <2>6 DEF Next, JobStep
<1>2. QED
  BY <1>1, TokensAreOwned, PTL DEF Spec, FreesOnlyItsOwn

-----------------------------------------------------------------------------
(* The implementation of SnapshotStore, when no Valkey command raises and   *)
(* the lock outlives every refresh.  StoreInv relates what each place of a  *)
(* job knows to the two snapshot cells: with one running job at a time      *)
(* nothing it read or fetched can have been overtaken.                      *)
Blank(s)  == s \in {Absent, Unavailable}
Fetched(s) == s.state \in {"good", "stale"} /\ s.at > 0

CellsInv ==
    /\ lastSuccess # Absent => lastSuccess.state = "good" /\ lastSuccess.at > 0
    /\ Blank(current) \/ Fetched(current)
    /\ current.at <= clock /\ lastSuccess.at <= clock
    /\ lastSuccess # Absent => current.at <= lastSuccess.at

JobInv(j) ==
    /\ pc[j] \in {"fetching", "storeLast"} =>
         /\ snap[j] = Good(clock)
         /\ clock > current.at /\ clock > lastSuccess.at
    /\ pc[j] \in {"loadLast", "loadCurrent"} => snap[j] = Unavailable
    /\ pc[j] = "loadCurrent" => lastSuccess = Absent
    /\ pc[j] = "storeCurrent" =>
         \/ /\ Fetched(snap[j]) /\ snap[j].at <= clock
            /\ snap[j].at >= current.at
            /\ lastSuccess # Absent => snap[j].at = lastSuccess.at
         \/ /\ snap[j] = Unavailable
            /\ lastSuccess = Absent /\ Blank(current)

StoreInv ==
    /\ errors = 0 /\ overruns = 0
    /\ CellsInv
    /\ \A j \in Jobs : JobInv(j)

(* While no TTL has ended under a job, one job runs at a time.              *)
LEMMA OneRunner ==
    ASSUME IInv, overruns = 0, NEW j \in Jobs, NEW k \in Jobs,
           Running(j), Running(k)
    PROVE  j = k
  BY DEF IInv, TokenInv

(* Empty cells satisfy the snapshot invariant.                              *)
LEMMA StoreInvInit == Init => StoreInv
  BY DEF Init, StoreInv, CellsInv, JobInv, Blank, Fetched, Absent

(* With no error budget every reply is the true one.                        *)
LEMMA RepliesAreTrue ==
    ASSUME MaxErrors = 0, errors = 0, NEW failed, Count(failed)
    PROVE  ~failed /\ errors' = 0
  BY BoundsAreNat DEF Count

(* Every step keeps the snapshot invariant when nothing raises and no lock  *)
(* is overrun.                                                              *)
LEMMA StoreInvStep ==
    ASSUME MaxErrors = 0, MaxOverruns = 0, IInv, StoreInv, [Next]_vars
    PROVE  StoreInv'
<1> USE SchedulerIsJob, BoundsAreNat
    DEF IInv, TypeOK, Running, Goto, Leave, StoreInv, CellsInv, JobInv, Blank,
        Fetched, Good, Stale, Unavailable, Absent, Snapshot, Places, InRefresh
<1>1. ASSUME NEW j \in Jobs, Acquire(j) PROVE StoreInv'
  BY <1>1, RepliesAreTrue DEF Acquire, WriteReply, reader, faults
<1>2. ASSUME NEW j \in Jobs, Mark(j) PROVE StoreInv'
  <2>1. \A k \in Jobs : k # j => pc[k] = "idle"
    BY <1>2, OneRunner DEF Mark
  <2>2. errors' = 0 /\ UNCHANGED <<current, lastSuccess, overruns>>
    BY <1>2, RepliesAreTrue DEF Mark, WriteReply, faults
  <2>3. QED
    BY <1>2, <2>1, <2>2 DEF Mark
<1>3. ASSUME NEW j \in Jobs,
             FetchSucceeds(j) \/ FetchUnavailable(j) \/ FetchRaises(j)
      PROVE StoreInv'
  <2>1. CASE FetchSucceeds(j)
    BY <2>1 DEF FetchSucceeds, FetchEnds, valkey, faults
  <2>2. CASE FetchUnavailable(j)
    BY <2>2 DEF FetchUnavailable, FetchEnds, valkey, faults
  <2>3. CASE FetchRaises(j)
    BY <2>3 DEF FetchRaises, FetchEnds, valkey, faults
  <2>4. QED
    BY <1>3, <2>1, <2>2, <2>3
<1>4. ASSUME NEW j \in Jobs, LoadLast(j) PROVE StoreInv'
  <2>1. PICK r \in ReadReply(lastSuccess) :
          /\ Count(r.failed)
          /\ IF r.val # Absent
               THEN /\ snap' = [snap EXCEPT ![j] = Stale(r.val.at)]
                    /\ Goto(j, "storeCurrent")
               ELSE Goto(j, "loadCurrent") /\ UNCHANGED snap
    BY <1>4 DEF LoadLast
  <2>2. r.val = lastSuccess /\ errors' = 0
    BY <2>1, RepliesAreTrue DEF ReadReply
  <2>3. QED
    BY <1>4, <2>1, <2>2 DEF LoadLast, valkey, faults
<1>5. ASSUME NEW j \in Jobs, LoadCurrent(j) PROVE StoreInv'
  <2>1. PICK r \in ReadReply(current) :
          /\ Count(r.failed)
          /\ snap' = IF r.val # Absent THEN [snap EXCEPT ![j] = r.val] ELSE snap
    BY <1>5 DEF LoadCurrent
  <2>2. r.val = current /\ errors' = 0
    BY <2>1, RepliesAreTrue DEF ReadReply
  <2>3. QED
    BY <1>5, <2>1, <2>2 DEF LoadCurrent, valkey, faults
<1>6. ASSUME NEW j \in Jobs, StoreLast(j) PROVE StoreInv'
  <2>1. lastSuccess' = snap[j] /\ errors' = 0
    BY <1>6, RepliesAreTrue DEF StoreLast, WriteReply
  <2>2. \A k \in Jobs : k # j => pc[k] = "idle"
    BY <1>6, OneRunner DEF StoreLast
  <2>3. QED
    BY <1>6, <2>1, <2>2 DEF StoreLast, faults
<1>7. ASSUME NEW j \in Jobs, StoreCurrent(j) PROVE StoreInv'
  <2>1. current' = snap[j] /\ errors' = 0
    BY <1>7, RepliesAreTrue DEF StoreCurrent, WriteReply
  <2>2. \A k \in Jobs : k # j => pc[k] = "idle"
    BY <1>7, OneRunner DEF StoreCurrent
  <2>3. /\ pc[j] = "storeCurrent"
        /\ UNCHANGED <<lastSuccess, snap, clock, overruns>>
    BY <1>7 DEF StoreCurrent, faults
  <2>4. /\ pc'[j] \in {"storeError", "release"}
        /\ \A k \in Jobs : k # j => pc'[k] = "idle"
    BY <1>7, <2>2 DEF StoreCurrent
  <2>5. CellsInv'
    <3>1. CASE Fetched(snap[j])
      BY <2>1, <2>3, <3>1
    <3>2. CASE snap[j] = Unavailable
      BY <2>1, <2>3, <3>2
    <3>3. QED
      BY <2>3, <3>1, <3>2
  <2>6. \A k \in Jobs : JobInv(k)'
    BY <2>4
  <2>7. QED
    BY <2>1, <2>3, <2>5, <2>6
<1>8. ASSUME NEW j \in Jobs, StoreError(j) PROVE StoreInv'
  <2>1. errors' = 0 /\ UNCHANGED <<current, lastSuccess, snap, clock, overruns>>
    BY <1>8, RepliesAreTrue DEF StoreError, faults
  <2>2. pc' = [pc EXCEPT ![j] = "release"]
    BY <1>8 DEF StoreError
  <2>3. QED
    BY <2>1, <2>2
<1>17. ASSUME NEW j \in Jobs, Release(j) PROVE StoreInv'
  <2>1. errors' = 0 /\ UNCHANGED <<current, lastSuccess, clock, overruns>>
    BY <1>17, RepliesAreTrue DEF Release, faults
  <2>2. /\ pc' = [pc EXCEPT ![j] = "idle"]
        /\ snap' = [snap EXCEPT ![j] = Absent]
    BY <1>17 DEF Release
  <2>3. QED
    BY <2>1, <2>2
<1>9. ASSUME Cancel PROVE StoreInv'
  BY <1>9 DEF Cancel
<1>10. ASSUME Crash PROVE StoreInv'
  BY <1>10 DEF Crash, valkey
<1>11. ASSUME ExpireLock \/ ExpireRefreshing PROVE StoreInv'
  BY <1>11 DEF ExpireLock, ExpireRefreshing, CountOverrun, jobVars
<1>12. ASSUME ExpireCurrent PROVE StoreInv'
  BY <1>12 DEF ExpireCurrent, jobVars, faults
<1>13. ASSUME ExpireLast PROVE StoreInv'
  BY <1>13 DEF ExpireLast, jobVars
<1>14. ASSUME ExpireError \/ UNCHANGED vars PROVE StoreInv'
  BY <1>14 DEF ExpireError, vars, valkey, jobVars, faults
<1>15. ASSUME NEW p \in Pages, Read(p) PROVE StoreInv'
  BY <1>15, RepliesAreTrue DEF Read, ReadCurrent, ReadLast, Answer, valkey,
     jobVars, faults
<1>16. QED
  BY <1>1, <1>2, <1>3, <1>4, <1>5, <1>6, <1>7, <1>8, <1>9, <1>10, <1>11,
     <1>12, <1>13, <1>14, <1>15, <1>17 DEF Next, JobStep, Expire

(* Each step of the refresh is a step of SnapshotStore, or leaves both      *)
(* snapshot cells alone.                                                    *)
LEMMA StepSimulation ==
    ASSUME MaxErrors = 0, MaxOverruns = 0, IInv, StoreInv, [Next]_vars
    PROVE  [Store!Next]_(Store!vars)
<1> USE DEF Store!vars
<1>1. ASSUME NEW j \in Jobs, StoreLast(j) PROVE Store!Record
  <2>1. lastSuccess' = snap[j] /\ UNCHANGED current
    BY <1>1, RepliesAreTrue DEF StoreLast, WriteReply, StoreInv
  <2>2. /\ snap[j] = [state |-> "good", at |-> clock]
        /\ clock \in Nat /\ clock > lastSuccess.at /\ clock > current.at
    BY <1>1 DEF StoreLast, StoreInv, JobInv, Good, IInv, TypeOK
  <2>3. QED
    BY <2>1, <2>2 DEF Store!Record, Store!Fetched
<1>2. ASSUME NEW j \in Jobs, StoreCurrent(j)
      PROVE Store!Publish \/ Store!PublishUnavailable
  <2>1. current' = snap[j] /\ UNCHANGED lastSuccess
    BY <1>2, RepliesAreTrue DEF StoreCurrent, WriteReply, StoreInv
  <2>2. pc[j] = "storeCurrent" /\ JobInv(j) /\ CellsInv
    BY <1>2 DEF StoreCurrent, StoreInv
  <2>3. /\ snap[j] \in Snapshot /\ current \in Snapshot
        /\ lastSuccess \in Snapshot
    BY DEF IInv, TypeOK
  <2>4. CASE Fetched(snap[j])
    <3>1. snap[j].at >= current.at /\ snap[j].at >= lastSuccess.at
      BY <2>2, <2>3, <2>4
      DEF JobInv, Fetched, Unavailable, Absent, Snapshot
    <3>2. snap[j] \in Store!Fetched({"good", "stale"})
      BY <2>3, <2>4 DEF Fetched, Snapshot, Store!Fetched
    <3>3. QED
      BY <2>1, <3>1, <3>2 DEF Store!Publish
  <2>5. CASE ~ Fetched(snap[j])
    <3>1. snap[j] = Unavailable /\ lastSuccess = Absent /\ Blank(current)
      BY <2>2, <2>5 DEF JobInv
    <3>2. QED
      BY <2>1, <3>1 DEF Store!PublishUnavailable, Store!Unavailable,
         Store!Absent, Unavailable, Absent, Blank
  <2>6. QED
    BY <2>4, <2>5
<1>3. ASSUME ExpireCurrent PROVE Store!DropCurrent
  BY <1>3 DEF ExpireCurrent, Store!DropCurrent, Absent, Store!Absent
<1>4. ASSUME ExpireLast PROVE Store!DropLast
  BY <1>4 DEF ExpireLast, Store!DropLast, Absent, Store!Absent
<1>5. ASSUME NEW j \in Jobs, JobStep(j), ~ StoreLast(j), ~ StoreCurrent(j)
      PROVE UNCHANGED <<current, lastSuccess>>
  BY <1>5 DEF JobStep, Acquire, Mark, FetchSucceeds, FetchUnavailable,
     FetchRaises, LoadLast, LoadCurrent, StoreError, Release, valkey
<1>6. ASSUME \/ Cancel \/ Crash
             \/ ExpireLock \/ ExpireRefreshing \/ ExpireError
             \/ \E p \in Pages : Read(p)
             \/ UNCHANGED vars
      PROVE UNCHANGED <<current, lastSuccess>>
  BY <1>6 DEF Cancel, Crash, ExpireLock, ExpireRefreshing, ExpireError, Read,
     ReadCurrent, ReadLast, Answer, vars, valkey
<1>7. QED
  BY <1>1, <1>2, <1>3, <1>4, <1>5, <1>6 DEF Next, Expire, Store!Next

(* With a lock that outlives every refresh and a Valkey that answers, the   *)
(* refresh implements SnapshotStore, for any number of jobs, pages, runs,   *)
(* crashes and shutdowns.                                                   *)
THEOREM RefreshImplementsStore ==
    ASSUME MaxErrors = 0, MaxOverruns = 0
    PROVE  Spec => ImplementsStore
<1>1. Init => StoreInv /\ Store!Init
  BY StoreInvInit DEF Init, Store!Init, Absent, Store!Absent
<1>2. IInv /\ StoreInv /\ [Next]_vars => StoreInv'
  BY StoreInvStep
<1>3. IInv /\ StoreInv /\ [Next]_vars => [Store!Next]_(Store!vars)
  BY StepSimulation
<1>4. QED
  BY <1>1, <1>2, <1>3, TokensAreOwned, PTL DEF Spec, ImplementsStore, Store!Spec

-----------------------------------------------------------------------------
(* Readers.  A fetch that was under way when a read found no current        *)
(* snapshot, and that can still end before this read does, leaves no        *)
(* "unavailable" behind it when it succeeds.                                *)
CanEnd(j, p) ==
    pc[j] = "storeLast" \/ (pc[j] = "fetching" /\ snap[j].at <= readClock[p])

LateInv ==
    \A p \in Pages :
       /\ readClock[p] <= clock
       /\ readerPc[p] = "last" =>
            /\ lastSuccess # Absent => current # Unavailable
            /\ \A j \in Jobs : CanEnd(j, p) => current # Unavailable

(* Until the last success reaches its TTL, data that is published, about to *)
(* be published, read or served has it behind it, and a page that was       *)
(* served data is not reading anything else.                                *)
DataInv ==
    ~ lastEnded =>
    /\ Fetched(current) => lastSuccess # Absent
    /\ \A j \in Jobs : pc[j] = "storeCurrent" /\ Fetched(snap[j])
                          => lastSuccess # Absent
    /\ \A p \in Pages :
          /\ HasData(view[p]) \/ HasData(served[p])
               => lastSuccess # Absent /\ current # Unavailable
          /\ HasData(served[p]) /\ readerPc[p] = "flag" => HasData(view[p])

(* A step that moves neither the cells, the fetches nor the readers.        *)
LEMMA LateStutter ==
    ASSUME LateInv, UNCHANGED <<current, lastSuccess, readerPc, readClock>>,
           IInv, clock' \in Nat, clock' >= clock,
           \A p \in Pages, j \in Jobs : CanEnd(j, p)' => CanEnd(j, p)
    PROVE  LateInv'
  BY DEF LateInv, IInv, TypeOK

(* No step lets a read meet a success that was fetched after it began.      *)
LEMMA LateInvStep ==
    ASSUME MaxErrors = 0, MaxOverruns = 0, ReadsAreShort,
           IInv, StoreInv, LateInv, [Next]_vars
    PROVE  LateInv'
<1> USE SchedulerIsJob, BoundsAreNat DEF Goto, Leave
<1>0. /\ errors = 0 /\ overruns = 0 /\ CellsInv
      /\ \A j \in Jobs : JobInv(j)
  BY DEF StoreInv
<1>1. ASSUME NEW j \in Jobs, Mark(j) PROVE LateInv'
  <2>1. /\ clock' = clock + 1 /\ snap' = [snap EXCEPT ![j] = Good(clock + 1)]
        /\ pc' = [pc EXCEPT ![j] = "fetching"]
        /\ UNCHANGED <<current, lastSuccess, readerPc, readClock>>
    BY <1>1 DEF Mark, reader
  <2>2. clock \in Nat /\ \A p \in Pages : readClock[p] \in Nat
    BY DEF IInv, TypeOK
  <2>3. \A p \in Pages : ~ CanEnd(j, p)'
    BY <2>1, <2>2 DEF LateInv, CanEnd, IInv, TypeOK, Good
  <2>4. \A p \in Pages, k \in Jobs : CanEnd(k, p)' => CanEnd(k, p)
    BY <2>1, <2>3 DEF CanEnd, IInv, TypeOK
  <2>5. QED
    BY <2>1, <2>2, <2>4, LateStutter
<1>2. ASSUME NEW j \in Jobs, FetchSucceeds(j) PROVE LateInv'
  <2>1. /\ pc[j] = "fetching" /\ pc' = [pc EXCEPT ![j] = "storeLast"]
        /\ \A p \in Pages : readerPc[p] = "idle" \/ snap[j].at <= readClock[p]
        /\ UNCHANGED <<current, lastSuccess, readerPc, readClock, clock, snap>>
    BY <1>2 DEF FetchSucceeds, FetchEnds, valkey, reader
  <2>2. \A p \in Pages, k \in Jobs :
           readerPc[p] = "last" /\ CanEnd(k, p)' => CanEnd(k, p)
    BY <2>1 DEF CanEnd, IInv, TypeOK
  <2>3. QED
    BY <2>1, <2>2 DEF LateInv
<1>3. ASSUME NEW j \in Jobs, StoreLast(j) PROVE LateInv'
  <2>1. /\ pc[j] = "storeLast" /\ pc' = [pc EXCEPT ![j] = "storeCurrent"]
        /\ UNCHANGED <<current, readerPc, readClock, clock, snap>>
    BY <1>3 DEF StoreLast, reader
  <2>2. \A p \in Pages : CanEnd(j, p)
    BY <2>1 DEF CanEnd
  <2>3. \A p \in Pages, k \in Jobs : CanEnd(k, p)' => CanEnd(k, p)
    BY <2>1, <2>2 DEF CanEnd, IInv, TypeOK
  <2>4. QED
    BY <2>1, <2>2, <2>3 DEF LateInv
<1>4. ASSUME NEW j \in Jobs, StoreCurrent(j) PROVE LateInv'
  <2>1. /\ current' = snap[j] /\ pc[j] = "storeCurrent" /\ pc'[j] # "storeLast"
        /\ pc'[j] # "fetching"
        /\ \A k \in Jobs \ {j} : pc'[k] = pc[k]
        /\ UNCHANGED <<lastSuccess, readerPc, readClock, clock, snap>>
    BY <1>0, <1>4, RepliesAreTrue
    DEF StoreCurrent, WriteReply, reader, IInv, TypeOK
  <2>2. current' = Unavailable => lastSuccess = Absent
    <3>1. JobInv(j)
      BY <1>0
    <3>2. \/ Fetched(snap[j])
          \/ snap[j] = Unavailable /\ lastSuccess = Absent
      BY <2>1, <3>1 DEF JobInv
    <3>3. ~ Fetched(Unavailable)
      BY DEF Fetched, Unavailable
    <3>4. QED
      BY <2>1, <3>2, <3>3
  <2>3. \A k \in Jobs \ {j} : pc[k] = "idle"
    BY <1>0, <2>1, OneRunner DEF Running
  <2>4. \A k \in Jobs : pc'[k] \notin {"storeLast", "fetching"}
    BY <2>1, <2>3
  <2>5. \A k \in Jobs, p \in Pages : ~ CanEnd(k, p)'
    BY <2>4 DEF CanEnd
  <2>6. QED
    BY <2>1, <2>2, <2>5 DEF LateInv
<1>5. ASSUME NEW j \in Jobs,
             \/ Acquire(j) \/ FetchUnavailable(j) \/ FetchRaises(j)
             \/ LoadLast(j) \/ LoadCurrent(j) \/ StoreError(j) \/ Release(j)
      PROVE LateInv'
  <2>1. UNCHANGED <<current, lastSuccess, readerPc, readClock, clock>>
    BY <1>5 DEF Acquire, FetchUnavailable, FetchRaises, LoadLast, LoadCurrent,
       StoreError, Release, valkey, reader
  <2>2. \/ /\ pc'[j] \notin {"storeLast", "fetching"}
           /\ \A k \in Jobs \ {j} : pc'[k] = pc[k] /\ snap'[k] = snap[k]
        \/ pc' = pc /\ snap' = snap
    BY <1>5 DEF Acquire, FetchUnavailable, FetchRaises, LoadLast, LoadCurrent,
       StoreError, Release, IInv, TypeOK
  <2>3. \A p \in Pages, k \in Jobs : CanEnd(k, p)' => CanEnd(k, p)
    BY <2>1, <2>2 DEF CanEnd
  <2>4. QED
    BY <2>1, <2>3, LateStutter DEF IInv, TypeOK
<1>6. CASE Cancel
  <2>1. UNCHANGED <<current, lastSuccess, readerPc, readClock, clock>>
    BY <1>6 DEF Cancel, reader
  <2>2. /\ pc'[Scheduler] \notin {"storeLast", "fetching"}
        /\ \A k \in Jobs \ {Scheduler} : pc'[k] = pc[k] /\ snap'[k] = snap[k]
    BY <1>6 DEF Cancel, IInv, TypeOK
  <2>3. \A p \in Pages, k \in Jobs : CanEnd(k, p)' => CanEnd(k, p)
    BY <2>1, <2>2 DEF CanEnd
  <2>4. QED
    BY <2>1, <2>3, LateStutter DEF IInv, TypeOK
<1>7. CASE Crash
  BY <1>7 DEF Crash, LateInv, IInv, TypeOK
<1>8. CASE Expire
  <2>1. /\ UNCHANGED <<readerPc, readClock, clock, pc, snap>>
        /\ current' = current \/ current' = Absent
        /\ lastSuccess' = lastSuccess \/ lastSuccess' = Absent
    BY <1>8 DEF Expire, ExpireLock, ExpireRefreshing, ExpireCurrent,
       ExpireLast, ExpireError, reader, jobVars
  <2>2. QED
    BY <2>1 DEF LateInv, CanEnd, Absent, Unavailable
<1>9. ASSUME NEW p \in Pages, ReadCurrent(p) PROVE LateInv'
  <2>1. /\ UNCHANGED <<current, lastSuccess, clock, pc, snap>>
        /\ readClock' = [readClock EXCEPT ![p] = clock]
        /\ \A q \in Pages \ {p} : readerPc'[q] = readerPc[q]
        /\ readerPc'[p] = "last" => current = Absent
    BY <1>0, <1>9, RepliesAreTrue
    DEF ReadCurrent, ReadReply, valkey, jobVars, IInv, TypeOK
  <2>2. QED
    BY <2>1 DEF LateInv, CanEnd, IInv, TypeOK, Absent, Unavailable
<1>10. ASSUME NEW p \in Pages, ReadLast(p) \/ Answer(p) PROVE LateInv'
  <2>1. /\ UNCHANGED <<current, lastSuccess, clock, pc, snap>>
        /\ readerPc'[p] # "last" /\ readClock'[p] \in {0, readClock[p]}
        /\ \A q \in Pages \ {p} : /\ readerPc'[q] = readerPc[q]
                                  /\ readClock'[q] = readClock[q]
    BY <1>10 DEF ReadLast, Answer, valkey, jobVars, IInv, TypeOK
  <2>2. QED
    BY <2>1 DEF LateInv, CanEnd, IInv, TypeOK
<1>11. CASE UNCHANGED vars
  BY <1>11 DEF vars, valkey, jobVars, reader, LateInv, CanEnd
<1>12. QED
  BY <1>1, <1>2, <1>3, <1>4, <1>5, <1>6, <1>7, <1>8, <1>9, <1>10, <1>11
  DEF Next, JobStep, Read

(* A step that leaves cells and readers alone, and brings no data to a job  *)
(* that stores but with a last success.                                     *)
LEMMA DataStutter ==
    ASSUME DataInv, lastEnded => lastEnded',
           UNCHANGED <<current, lastSuccess, view, served, readerPc>>,
           \A j \in Jobs : pc'[j] = "storeCurrent" /\ Fetched(snap'[j]) =>
              \/ pc[j] = "storeCurrent" /\ Fetched(snap[j])
              \/ lastSuccess # Absent
    PROVE  DataInv'
  BY DEF DataInv, HasData, Fetched

(* Every step keeps the data behind what pages have been served.            *)
LEMMA DataInvStep ==
    ASSUME MaxErrors = 0, MaxOverruns = 0,
           IInv, StoreInv, LateInv, DataInv, [Next]_vars
    PROVE  DataInv'
<1> USE SchedulerIsJob, BoundsAreNat DEF Goto, Leave
<1>0. /\ errors = 0 /\ overruns = 0 /\ CellsInv
      /\ \A j \in Jobs : JobInv(j)
  BY DEF StoreInv
<1>a. /\ ~ Fetched(Unavailable) /\ ~ Fetched(Absent)
      /\ ~ HasData(Unavailable) /\ ~ HasData(Absent)
      /\ \A v : HasData(Stale(v))
      /\ \A s : Fetched(s) => HasData(s)
  BY DEF Fetched, HasData, Unavailable, Absent, Stale
<1>b. \A s : Blank(s) => s \in {Absent, Unavailable}
  BY DEF Blank
<1>1. ASSUME NEW j \in Jobs,
             \/ Acquire(j) \/ Mark(j) \/ FetchSucceeds(j)
             \/ FetchUnavailable(j) \/ FetchRaises(j)
             \/ StoreError(j) \/ Release(j)
      PROVE DataInv'
  <2>1. /\ UNCHANGED <<current, lastSuccess, view, served, readerPc, lastEnded>>
        /\ (pc' = pc /\ snap' = snap) \/ pc'[j] # "storeCurrent"
        /\ \A k \in Jobs \ {j} : pc'[k] = pc[k] /\ snap'[k] = snap[k]
    BY <1>1 DEF Acquire, Mark, FetchSucceeds, FetchUnavailable, FetchRaises,
       StoreError, Release, valkey, reader, faults, IInv, TypeOK
  <2>2. \A k \in Jobs : pc'[k] = "storeCurrent" =>
           pc[k] = "storeCurrent" /\ snap'[k] = snap[k]
    BY <2>1
  <2>3. QED
    BY <2>1, <2>2, DataStutter
<1>2. ASSUME NEW j \in Jobs, LoadLast(j) PROVE DataInv'
  <2>1. /\ UNCHANGED <<current, lastSuccess, view, served, readerPc, lastEnded>>
        /\ lastSuccess # Absent \/ pc'[j] = "loadCurrent"
        /\ \A k \in Jobs \ {j} : pc'[k] = pc[k] /\ snap'[k] = snap[k]
    BY <1>0, <1>2, RepliesAreTrue
    DEF LoadLast, ReadReply, valkey, reader, faults, IInv, TypeOK
  <2>2. QED
    BY <2>1, DataStutter
<1>3. ASSUME NEW j \in Jobs, LoadCurrent(j) PROVE DataInv'
  <2>1. /\ UNCHANGED <<current, lastSuccess, view, served, readerPc, lastEnded>>
        /\ pc[j] = "loadCurrent" /\ snap'[j] \in {snap[j], current}
        /\ \A k \in Jobs \ {j} : pc'[k] = pc[k] /\ snap'[k] = snap[k]
    BY <1>0, <1>3, RepliesAreTrue
    DEF LoadCurrent, ReadReply, valkey, reader, faults, IInv, TypeOK
  <2>2. snap[j] = Unavailable /\ lastSuccess = Absent
    BY <1>0, <2>1 DEF JobInv
  <2>3. ~ lastEnded => ~ Fetched(snap'[j])
    BY <1>a, <2>1, <2>2 DEF DataInv
  <2>4. CASE lastEnded
    BY <2>1, <2>4 DEF DataInv
  <2>5. CASE ~ lastEnded
    BY <2>1, <2>3, <2>5, DataStutter
  <2>6. QED
    BY <2>4, <2>5
<1>4. ASSUME NEW j \in Jobs, StoreLast(j) PROVE DataInv'
  <2>1. /\ UNCHANGED <<current, view, served, readerPc, lastEnded>>
        /\ lastSuccess' = snap[j] /\ pc[j] = "storeLast"
    BY <1>0, <1>4, RepliesAreTrue DEF StoreLast, WriteReply, reader, faults
  <2>2. lastSuccess' # Absent
    BY <1>0, <2>1 DEF JobInv, Good, Absent
  <2>3. QED
    BY <2>1, <2>2 DEF DataInv
<1>5. ASSUME NEW j \in Jobs, StoreCurrent(j) PROVE DataInv'
  <2>1. /\ UNCHANGED <<lastSuccess, view, served, readerPc, lastEnded, snap>>
        /\ current' = snap[j] /\ pc[j] = "storeCurrent"
        /\ \A k \in Jobs : pc'[k] = "storeCurrent" => pc[k] = "storeCurrent"
    BY <1>0, <1>5, RepliesAreTrue
    DEF StoreCurrent, WriteReply, reader, faults, IInv, TypeOK
  <2>2. \/ Fetched(snap[j])
        \/ snap[j] = Unavailable /\ lastSuccess = Absent
    BY <1>0, <2>1 DEF JobInv
  <2>3. QED
    BY <1>a, <2>1, <2>2 DEF DataInv
<1>6. CASE Cancel
  <2>1. /\ UNCHANGED <<current, lastSuccess, view, served, readerPc, lastEnded>>
        /\ pc'[Scheduler] # "storeCurrent"
        /\ \A k \in Jobs \ {Scheduler} : pc'[k] = pc[k] /\ snap'[k] = snap[k]
    BY <1>6 DEF Cancel, reader, IInv, TypeOK
  <2>2. QED
    BY <2>1, DataStutter
<1>7. CASE Crash
  <2>1. /\ UNCHANGED <<current, lastSuccess, served, lastEnded>>
        /\ \A p \in Pages : readerPc'[p] = "idle" /\ view'[p] = Absent
        /\ \A j \in Jobs : pc'[j] = "idle"
    BY <1>7 DEF Crash, valkey
  <2>2. QED
    BY <1>a, <2>1 DEF DataInv
<1>8. CASE Expire
  <2>1. CASE ExpireLast
    BY <2>1 DEF ExpireLast, DataInv
  <2>2. CASE ExpireCurrent
    <3>1. /\ UNCHANGED <<lastSuccess, view, served, readerPc, pc, snap,
                         lastEnded>>
          /\ current' = Absent /\ Absent # Unavailable
      BY <2>2 DEF ExpireCurrent, reader, jobVars, faults, Absent, Unavailable
    <3>2. QED
      BY <1>a, <3>1 DEF DataInv
  <2>3. CASE ExpireLock \/ ExpireRefreshing \/ ExpireError
    <3>1. UNCHANGED <<current, lastSuccess, view, served, readerPc, pc, snap,
                      lastEnded>>
      BY <2>3 DEF ExpireLock, ExpireRefreshing, ExpireError, reader, jobVars,
         faults
    <3>2. QED
      BY <3>1, DataStutter
  <2>4. QED
    BY <1>8, <2>1, <2>2, <2>3 DEF Expire
<1>9. ASSUME NEW p \in Pages, ReadCurrent(p) PROVE DataInv'
  <2>1. /\ UNCHANGED <<current, lastSuccess, served, pc, snap, lastEnded>>
        /\ view'[p] = current
        /\ readerPc'[p] = "flag" => current # Absent
        /\ \A q \in Pages \ {p} : /\ readerPc'[q] = readerPc[q]
                                  /\ view'[q] = view[q]
    BY <1>0, <1>9, RepliesAreTrue
    DEF ReadCurrent, ReadReply, valkey, jobVars, faults, IInv, TypeOK
  <2>2. current \in {Absent, Unavailable} \/ Fetched(current)
    BY <1>0 DEF CellsInv, Blank
  <2>3. CASE lastEnded
    BY <2>1, <2>3 DEF DataInv
  <2>4. CASE ~ lastEnded
    <3>1. HasData(view'[p]) => Fetched(current)
      BY <1>a, <2>1, <2>2
    <3>2. HasData(served[p]) /\ readerPc'[p] = "flag" => HasData(view'[p])
      BY <1>a, <2>1, <2>2, <2>4 DEF DataInv
    <3>3. Fetched(current) => lastSuccess # Absent /\ current # Unavailable
      BY <1>a, <2>4 DEF DataInv
    <3>4. QED
      BY <2>1, <2>4, <3>1, <3>2, <3>3 DEF DataInv
  <2>5. QED
    BY <2>3, <2>4
<1>10. ASSUME NEW p \in Pages, ReadLast(p) PROVE DataInv'
  <2>1. /\ UNCHANGED <<current, lastSuccess, served, pc, snap, lastEnded>>
        /\ readerPc[p] = "last"
        /\ view'[p] = IF lastSuccess # Absent THEN Stale(lastSuccess.at)
                                              ELSE Unavailable
        /\ \A q \in Pages \ {p} : /\ readerPc'[q] = readerPc[q]
                                  /\ view'[q] = view[q]
    BY <1>0, <1>10, RepliesAreTrue
    DEF ReadLast, ReadReply, valkey, jobVars, faults, IInv, TypeOK
  <2>2. lastSuccess # Absent => current # Unavailable
    BY <2>1 DEF LateInv
  <2>3. HasData(view'[p]) <=> lastSuccess # Absent
    BY <1>a, <2>1
  <2>4. CASE lastEnded
    BY <2>1, <2>4 DEF DataInv
  <2>5. CASE ~ lastEnded
    BY <2>1, <2>2, <2>3, <2>5 DEF DataInv
  <2>6. QED
    BY <2>4, <2>5
<1>11. ASSUME NEW p \in Pages, Answer(p) PROVE DataInv'
  <2>1. /\ UNCHANGED <<current, lastSuccess, pc, snap, lastEnded>>
        /\ served'[p] = view[p] /\ view'[p] = Absent /\ readerPc'[p] = "idle"
        /\ \A q \in Pages \ {p} : /\ readerPc'[q] = readerPc[q]
                                  /\ view'[q] = view[q]
                                  /\ served'[q] = served[q]
    BY <1>11 DEF Answer, valkey, jobVars, faults, IInv, TypeOK
  <2>2. QED
    BY <1>a, <2>1 DEF DataInv
<1>12. CASE UNCHANGED vars
  BY <1>12, DataStutter DEF vars, valkey, jobVars, reader, faults
<1>13. QED
  BY <1>1, <1>2, <1>3, <1>4, <1>5, <1>6, <1>7, <1>8, <1>9, <1>10, <1>11, <1>12
  DEF Next, JobStep, Read

(* Until the last success reaches its TTL a page that has been served data  *)
(* is never served an empty group again, for any number of jobs, pages,     *)
(* runs, crashes and shutdowns, when the lock outlives every refresh,       *)
(* Valkey answers and no read spans a whole fetch.                          *)
THEOREM PagesKeepData ==
    ASSUME MaxErrors = 0, MaxOverruns = 0, ReadsAreShort
    PROVE  Spec => PageKeepsData
<1> DEFINE Kept == ~ lastEnded => \A p \in Pages :
                      HasData(served[p]) => HasData(served'[p])
<1>1. Init => StoreInv /\ LateInv /\ DataInv
  <2>1. Init => LateInv
    BY DEF Init, LateInv
  <2>2. Init => DataInv
    BY DEF Init, DataInv, Fetched, HasData, Absent
  <2>3. QED
    BY <2>1, <2>2, StoreInvInit
<1>2. /\ IInv /\ StoreInv /\ LateInv /\ DataInv /\ [Next]_vars
         => StoreInv' /\ LateInv' /\ DataInv'
  BY StoreInvStep, LateInvStep, DataInvStep
<1>3. IInv /\ DataInv /\ [Next]_vars => [Kept]_vars
  <2> SUFFICES ASSUME IInv, DataInv, Next PROVE Kept
    OBVIOUS
  <2>1. CASE UNCHANGED served
    BY <2>1
  <2>2. ASSUME NEW p \in Pages, Answer(p) PROVE Kept
    <3>1. /\ readerPc[p] = "flag" /\ served'[p] = view[p]
          /\ \A q \in Pages \ {p} : served'[q] = served[q]
      BY <2>2 DEF Answer, IInv, TypeOK
    <3>2. QED
      BY <3>1 DEF DataInv
  <2>3. QED
    BY <2>1, <2>2 DEF Next, JobStep, Acquire, Mark, FetchSucceeds,
       FetchUnavailable, FetchRaises, LoadLast, LoadCurrent, StoreLast,
       StoreCurrent, StoreError, Release, Cancel, Crash, Expire, ExpireLock,
       ExpireRefreshing, ExpireCurrent, ExpireLast, ExpireError, Read,
       ReadCurrent, ReadLast, reader
<1>4. QED
  BY <1>1, <1>2, <1>3, TokensAreOwned, PTL DEF Spec, PageKeepsData
=============================================================================
