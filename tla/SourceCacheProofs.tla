--------------------------- MODULE SourceCacheProofs ---------------------------
(***************************************************************************)
(* Proofs about SourceCache, for any keys, loads, changes and bounds: its  *)
(* types, the locked keys never going back in time, the fallback being the *)
(* latest value, and no answer of other details than those it was asked    *)
(* for.  Time and fallback rest on the lock: the load that fetches or      *)
(* stores a locked key holds it.  SeparateInv, the argument for the        *)
(* details, says that what is out of date is on its way out.               *)
(***************************************************************************)
EXTENDS SourceCache, TLAPS

Holding == {"reread"} \cup InFetch
Fetched == {"fetching", "storing", "storingLast"}

LockInv ==
    /\ \A r \in Loads : pc[r] # "idle" => key[r] \in Keys
    /\ \A r \in Loads : pc[r] \in Holding /\ key[r] \in Locked
                          => holder[key[r]] = r

(* The load about to store a locked key fetched after what is stored.      *)
TimeInv ==
    /\ \A k \in Keys : cell[k].at <= clock
    /\ \A r \in Loads : pc[r] \in Fetched /\ key[r] \in Locked
                          => cell[key[r]].at <= val[r].at
    /\ \A r \in Loads : val[r].at <= clock

IInv == TypeOK /\ LockInv

-----------------------------------------------------------------------------
(* What the end of a load leaves behind.                                    *)
LEMMA EndKeeps ==
    ASSUME IInv, NEW r \in Loads, End(r)
    PROVE  /\ pc' \in [Loads -> Places] /\ key' \in [Loads -> Keys \cup {None}]
           /\ version' \in [Loads -> Nat] /\ val' \in [Loads -> Value]
           /\ holder' \in [Keys -> Loads \cup {None}]
           /\ LockInv'
<1> USE DEF IInv, TypeOK, End, Goto, Unlock
<1>1. /\ pc' \in [Loads -> Places] /\ key' \in [Loads -> Keys \cup {None}]
      /\ version' \in [Loads -> Nat]
      /\ holder' \in [Keys -> Loads \cup {None}]
  BY DEF Places
<1>2. val' \in [Loads -> Value]
  BY DEF Value, Absent
<1>3. \A q \in Loads : pc'[q] # "idle" =>
         /\ q # r /\ pc'[q] = pc[q] /\ key'[q] = key[q]
  OBVIOUS
<1>4. LockInv'
  BY <1>3, KeysAreTyped DEF LockInv, Holding, InFetch
<1>5. QED
  BY <1>1, <1>2, <1>4

(* What an answer leaves behind.                                            *)
LEMMA AnswerKeeps ==
    ASSUME IInv, NEW r \in Loads, pc[r] # "idle", NEW v \in Value, Answer(r, v)
    PROVE  /\ End(r)
           /\ shown' \in [Keys -> [for : Nat, from : Nat]]
  BY DEF IInv, TypeOK, LockInv, Answer, Value

(* What the begin of a fetch leaves behind.                                 *)
LEMMA FetchKeeps ==
    ASSUME IInv, NEW r \in Loads, Fetch(r), pc[r] \in {"read", "reread"},
           pc[r] = "read" => key[r] \notin Locked
    PROVE  /\ pc' \in [Loads -> Places] /\ val' \in [Loads -> Value]
           /\ clock' \in Nat
           /\ UNCHANGED <<holder, key, version, shown>>
           /\ LockInv'
<1> USE DEF IInv, TypeOK, Fetch, Goto
<1>1. pc' \in [Loads -> Places] /\ clock' \in Nat
  BY DEF Places, InFetch
<1>2. val' \in [Loads -> Value]
  BY DEF Value
<1>3. LockInv'
  BY DEF LockInv, Holding, InFetch
<1>4. QED
  BY <1>1, <1>2, <1>3

(* Every step keeps the types, and the loads in a lock hold it.            *)
LEMMA TypeStep == IInv /\ [Next]_vars => IInv'
<1> SUFFICES ASSUME IInv, [Next]_vars PROVE IInv'
  OBVIOUS
<1> USE KeysAreTyped, BoundsAreNat
<1>0. /\ {"idle", "read", "wait", "reread", "fetching", "storing",
          "storingLast", "fallback"} \subseteq Places
      /\ Absent \in Value
  BY DEF Places, InFetch, Value, Absent
<1>1. ASSUME NEW r \in Loads, NEW k \in Keys, BeginLoad(r, k) PROVE IInv'
  <2>1. TypeOK'
    BY <1>0, <1>1 DEF IInv, TypeOK, BeginLoad, Goto, source, valkey, change
  <2>2. LockInv'
    BY <1>1 DEF IInv, TypeOK, LockInv, BeginLoad, Goto, Holding, InFetch
  <2>3. QED
    BY <2>1, <2>2 DEF IInv
<1>2. ASSUME NEW r \in Loads, Read(r) PROVE IInv'
  <2>1. PICK reply \in ReadReply(cell[key[r]]) :
          /\ Count(reply.failed)
          /\ \/ reply.val # Absent /\ Answer(r, reply.val) /\ UNCHANGED clock
             \/ IF key[r] \in Locked THEN Wait(r) ELSE Fetch(r)
    BY <1>2 DEF Read, Look
  <2>2. /\ pc[r] = "read" /\ key[r] \in Keys
        /\ UNCHANGED <<source, valkey, change>>
    BY <1>2 DEF Read, IInv, LockInv
  <2>3. reply.val \in Value /\ faults' \in Nat
        /\ UNCHANGED <<begun, switches, overlaps>>
    BY <1>0, <2>1, <2>2 DEF ReadReply, IInv, TypeOK, Count
  <2>4. CASE Answer(r, reply.val) /\ UNCHANGED clock
    BY <2>2, <2>3, <2>4, AnswerKeeps, EndKeeps
    DEF IInv, TypeOK, source, valkey, change
  <2>5. CASE Wait(r)
    <3>1. LockInv'
      BY <2>2, <2>5 DEF IInv, TypeOK, LockInv, Wait, Goto, Holding, InFetch
    <3>2. QED
      BY <1>0, <2>2, <2>3, <2>5, <3>1
      DEF IInv, TypeOK, Wait, Goto, source, valkey, change
  <2>6. CASE key[r] \notin Locked /\ Fetch(r)
    BY <2>2, <2>3, <2>6, FetchKeeps DEF IInv, TypeOK, source, valkey, change
  <2>7. QED
    BY <2>1, <2>4, <2>5, <2>6
<1>3. ASSUME NEW r \in Loads, TakeLock(r) PROVE IInv'
  <2>1. TypeOK'
    BY <1>0, <1>3 DEF IInv, TypeOK, LockInv, TakeLock, Goto, source, valkey,
       change, counts
  <2>2. LockInv'
    BY <1>3 DEF IInv, TypeOK, LockInv, TakeLock, LockIsFree, Goto, Holding,
       InFetch
  <2>3. QED
    BY <2>1, <2>2 DEF IInv
<1>4. ASSUME NEW r \in Loads, Reread(r) PROVE IInv'
  <2>1. PICK reply \in ReadReply(cell[key[r]]) :
          /\ Count(reply.failed)
          /\ \/ reply.val # Absent /\ Answer(r, reply.val) /\ UNCHANGED clock
             \/ Fetch(r)
    BY <1>4 DEF Reread, Look
  <2>2. /\ pc[r] = "reread" /\ key[r] \in Keys
        /\ UNCHANGED <<source, valkey, change>>
    BY <1>4 DEF Reread, IInv, LockInv
  <2>3. reply.val \in Value /\ faults' \in Nat
        /\ UNCHANGED <<begun, switches, overlaps>>
    BY <1>0, <2>1, <2>2 DEF ReadReply, IInv, TypeOK, Count
  <2>4. CASE Answer(r, reply.val) /\ UNCHANGED clock
    BY <2>2, <2>3, <2>4, AnswerKeeps, EndKeeps
    DEF IInv, TypeOK, source, valkey, change
  <2>5. CASE Fetch(r)
    BY <2>2, <2>3, <2>5, FetchKeeps DEF IInv, TypeOK, source, valkey, change
  <2>6. QED
    BY <2>1, <2>4, <2>5
<1>5. ASSUME NEW r \in Loads, FetchSucceeds(r) PROVE IInv'
  <2>1. LockInv'
    BY <1>5 DEF IInv, TypeOK, LockInv, FetchSucceeds, Goto, Holding, InFetch
  <2>2. QED
    BY <1>0, <1>5, <2>1
    DEF IInv, TypeOK, FetchSucceeds, Goto, source, valkey, change, counts
<1>6. ASSUME NEW r \in Loads, FetchFails(r) PROVE IInv'
  <2>1. CASE End(r)
    BY <1>6, <2>1, EndKeeps
    DEF IInv, TypeOK, FetchFails, source, valkey, change, counts
  <2>2. CASE Goto(r, "fallback") /\ UNCHANGED <<holder, key, version, val>>
    <3>1. LockInv'
      BY <1>6, <2>2
      DEF IInv, TypeOK, LockInv, FetchFails, Goto, Holding, InFetch
    <3>2. QED
      BY <1>0, <1>6, <2>2, <3>1
      DEF IInv, TypeOK, FetchFails, Goto, source, valkey, change, counts
  <2>3. QED
    BY <1>6, <2>1, <2>2 DEF FetchFails
<1>7. ASSUME NEW r \in Loads, Fallback(r) PROVE IInv'
  <2>1. PICK reply \in ReadReply(last[key[r]]) :
          /\ Count(reply.failed)
          /\ \/ reply.val # Absent /\ Answer(r, reply.val) /\ UNCHANGED clock
             \/ End(r) /\ UNCHANGED <<shown, clock>>
    BY <1>7 DEF Fallback, Look
  <2>2. /\ pc[r] = "fallback" /\ key[r] \in Keys
        /\ UNCHANGED <<source, valkey, change>>
    BY <1>7 DEF Fallback, IInv, LockInv
  <2>3. reply.val \in Value /\ faults' \in Nat
        /\ UNCHANGED <<begun, switches, overlaps>>
    BY <1>0, <2>1, <2>2 DEF ReadReply, IInv, TypeOK, Count
  <2>4. CASE Answer(r, reply.val) /\ UNCHANGED clock
    BY <2>2, <2>3, <2>4, AnswerKeeps, EndKeeps
    DEF IInv, TypeOK, source, valkey, change
  <2>5. CASE End(r) /\ UNCHANGED <<shown, clock>>
    BY <2>2, <2>3, <2>5, EndKeeps DEF IInv, TypeOK, source, valkey, change
  <2>6. QED
    BY <2>1, <2>4, <2>5
<1>8. ASSUME NEW r \in Loads, Store(r) PROVE IInv'
  <2>1. PICK w \in WriteReply(cell[key[r]], val[r]) :
          Count(w.failed) /\ cell' = [cell EXCEPT ![key[r]] = w.val]
    BY <1>8 DEF Store
  <2>2. pc[r] = "storing" /\ key[r] \in Keys /\ val[r] \in Value
    BY <1>8 DEF Store, IInv, TypeOK, LockInv
  <2>3. w.val \in Value /\ faults' \in Nat
        /\ UNCHANGED <<begun, switches, overlaps>>
    BY <2>1, <2>2 DEF WriteReply, IInv, TypeOK, Count
  <2>4. cell' \in [Keys -> Value]
    BY <2>1, <2>3 DEF IInv, TypeOK
  <2>5. CASE Answer(r, val[r])
    BY <1>8, <2>2, <2>3, <2>4, <2>5, AnswerKeeps, EndKeeps
    DEF IInv, TypeOK, Store, source, change
  <2>6. CASE /\ Goto(r, "storingLast")
             /\ UNCHANGED <<holder, key, version, val, shown>>
    <3>1. LockInv'
      BY <2>2, <2>6 DEF IInv, TypeOK, LockInv, Goto, Holding, InFetch
    <3>2. QED
      BY <1>0, <1>8, <2>3, <2>4, <2>6, <3>1
      DEF IInv, TypeOK, Store, Goto, source, change
  <2>7. QED
    BY <1>8, <2>5, <2>6 DEF Store
<1>9. ASSUME NEW r \in Loads, StoreLast(r) PROVE IInv'
  <2>1. PICK w \in WriteReply(last[key[r]], val[r]) :
          Count(w.failed) /\ last' = [last EXCEPT ![key[r]] = w.val]
    BY <1>9 DEF StoreLast, Remember
  <2>2. pc[r] = "storingLast" /\ key[r] \in Keys /\ val[r] \in Value
    BY <1>9 DEF StoreLast, IInv, TypeOK, LockInv
  <2>3. w.val \in Value /\ faults' \in Nat
        /\ UNCHANGED <<begun, switches, overlaps>>
    BY <2>1, <2>2 DEF WriteReply, IInv, TypeOK, Count
  <2>4. last' \in [Keys -> Value]
    BY <2>1, <2>3 DEF IInv, TypeOK
  <2>5. QED
    BY <1>9, <2>2, <2>3, <2>4, AnswerKeeps, EndKeeps
    DEF IInv, TypeOK, StoreLast, source, change
<1>10. ASSUME NEW c \in Changes, Edit(c) \/ Switch(c) PROVE IInv'
  <2>1. PICK place \in {"scanCells", "idle"} : Commit(c, place)
    BY <1>10 DEF Edit, Switch
  <2>2. LockInv'
    BY <2>1 DEF IInv, LockInv, Commit, load
  <2>3. cpc' \in [Changes -> {"idle"} \cup Pending]
    BY <2>1 DEF IInv, TypeOK, Commit, Pending
  <2>4. /\ state' \in {"off", "on", "gone"} /\ details' \in Nat
        /\ switches' \in Nat /\ overlaps' \in Nat
    BY <1>10 DEF IInv, TypeOK, Edit, Switch
  <2>5. QED
    BY <2>1, <2>2, <2>3, <2>4 DEF IInv, TypeOK, Commit, valkey, load
<1>11. ASSUME NEW c \in Changes,
              ScanCells(c) \/ ScanLasts(c) \/ AbandonInvalidation(c)
       PROVE IInv'
  <2>1. LockInv'
    BY <1>11
    DEF IInv, LockInv, ScanCells, ScanLasts, AbandonInvalidation, load
  <2>2. Stored(cell) \subseteq Keys /\ Stored(last) \subseteq Keys
    BY DEF Stored
  <2>3. /\ cpc' \in [Changes -> {"idle"} \cup Pending]
        /\ foundCells' \in [Changes -> SUBSET Keys]
        /\ foundLasts' \in [Changes -> SUBSET Keys]
    <3>1. CASE ScanCells(c)
      BY <2>2, <3>1 DEF IInv, TypeOK, ScanCells, Pending
    <3>2. CASE ScanLasts(c)
      BY <2>2, <3>2 DEF IInv, TypeOK, ScanLasts, Pending
    <3>3. CASE AbandonInvalidation(c)
      BY <3>3 DEF IInv, TypeOK, AbandonInvalidation, Pending
    <3>4. QED
      BY <1>11, <3>1, <3>2, <3>3
  <2>4. /\ UNCHANGED <<source, valkey, load, shown, clock>>
        /\ UNCHANGED <<begun, switches, overlaps>> /\ faults' \in Nat
    BY <1>11
    DEF IInv, TypeOK, ScanCells, ScanLasts, AbandonInvalidation, counts, Count
  <2>5. QED
    BY <2>1, <2>3, <2>4 DEF IInv, TypeOK, source, valkey, load
<1>12. ASSUME NEW c \in Changes, Remove(c) PROVE IInv'
  <2>1. LockInv'
    BY <1>12 DEF IInv, LockInv, Remove, load
  <2>2. cell' \in [Keys -> Value] /\ last' \in [Keys -> Value]
    BY <1>0, <1>12 DEF IInv, TypeOK, Remove
  <2>3. QED
    BY <1>12, <2>1, <2>2 DEF IInv, TypeOK, Remove, source, load, counts
<1>13. ASSUME NEW k \in Keys, Expire(k) PROVE IInv'
  <2>1. LockInv'
    BY <1>13 DEF IInv, LockInv, Expire, load
  <2>2. \/ cell' = [cell EXCEPT ![k] = Absent] /\ last' = last
        \/ last' = [last EXCEPT ![k] = Absent] /\ cell' = cell
    BY <1>13 DEF Expire
  <2>3. cell' \in [Keys -> Value] /\ last' \in [Keys -> Value]
    <3>1. cell \in [Keys -> Value] /\ last \in [Keys -> Value]
      BY DEF IInv, TypeOK
    <3>2. Absent \in Value
      BY DEF Value, Absent
    <3>3. QED
      BY <2>2, <3>1, <3>2
  <2>4. UNCHANGED <<source, load, change, shown, clock, counts>>
    BY <1>13 DEF Expire
  <2>5. QED
    BY <2>1, <2>3, <2>4 DEF IInv, TypeOK, source, load, change, counts
<1>14. CASE Crash
  <2>1. LockInv'
    BY <1>14 DEF Crash, LockInv, Holding, InFetch
  <2>2. QED
    BY <1>0, <1>14, <2>1
    DEF IInv, TypeOK, Crash, Count, source, valkey, Pending
<1>15. CASE UNCHANGED vars
  <2>1. LockInv'
    BY <1>15 DEF IInv, LockInv, vars, load
  <2>2. QED
    BY <1>15, <2>1 DEF IInv, TypeOK, vars, source, valkey, load, change, counts
<1>16. QED
  BY <1>1, <1>2, <1>3, <1>4, <1>5, <1>6, <1>7, <1>8, <1>9, <1>10, <1>11,
     <1>12, <1>13, <1>14, <1>15
  DEF Next, LoadStep, Change

(* Types, and the lock held by whoever fetches or stores a locked key.     *)
THEOREM LocksAreHeld == Spec => []IInv
<1>1. Init => IInv
  BY KeysAreTyped
  DEF Init, IInv, TypeOK, LockInv, Value, Absent, Places, Holding, InFetch
<1>2. IInv /\ [Next]_vars => IInv'
  BY TypeStep
<1>3. QED
  BY <1>1, <1>2, PTL DEF Spec

(* Keys, loads and changes keep their types in every reachable state.      *)
THEOREM TypeCorrect == Spec => []TypeOK
<1>1. IInv => TypeOK
  BY DEF IInv
<1>2. QED
  BY <1>1, LocksAreHeld, PTL

-----------------------------------------------------------------------------
(* A load that ends takes its value with it.                                *)
LEMMA EndKeepsTime ==
    ASSUME IInv, TimeInv, NEW r \in Loads, End(r), UNCHANGED <<cell, clock>>
    PROVE  TimeInv'
<1> USE DEF IInv, TypeOK, TimeInv, End, Goto
<1>1. \A q \in Loads : pc'[q] \in Fetched =>
         q # r /\ pc'[q] = pc[q] /\ key'[q] = key[q] /\ val'[q] = val[q]
  BY DEF Fetched
<1>2. \A q \in Loads : val'[q].at <= clock
  BY DEF Absent
<1>3. QED
  BY <1>1, <1>2

(* A fetch that begins is later than all that is stored.                    *)
LEMMA FetchKeepsTime ==
    ASSUME IInv, TimeInv, NEW r \in Loads, key[r] \in Keys, Fetch(r),
           UNCHANGED cell
    PROVE  TimeInv'
<1> USE DEF IInv, TypeOK, TimeInv, Value
<1>1. /\ clock' = clock + 1
      /\ val' = [val EXCEPT ![r] = [version |-> version[r], at |-> clock + 1]]
      /\ pc' = [pc EXCEPT ![r] = "fetching"] /\ key' = key
  BY DEF Fetch, Goto
<1>2. \A k \in Keys : cell'[k].at <= clock'
  BY <1>1
<1>3. \A q \in Loads : val'[q].at <= clock'
  BY <1>1
<1>4. \A q \in Loads : pc'[q] \in Fetched /\ key'[q] \in Locked
                           => cell'[key'[q]].at <= val'[q].at
  BY <1>1, KeysAreTyped DEF Fetched
<1>5. QED
  BY <1>2, <1>3, <1>4

(* A load that moves on within its fetch keeps its value.                   *)
LEMMA MoveKeepsTime ==
    ASSUME IInv, TimeInv, NEW r \in Loads, NEW place, Goto(r, place),
           place \in Fetched => pc[r] \in Fetched,
           UNCHANGED <<key, val, cell, clock>>
    PROVE  TimeInv'
  BY DEF IInv, TypeOK, TimeInv, Goto, Fetched

(* What TTLs and the invalidation take away is no later than anything.      *)
LEMMA RemovalKeepsTime ==
    ASSUME IInv, TimeInv, UNCHANGED <<pc, key, val, clock>>,
           \A k \in Keys : cell'[k] = cell[k] \/ cell'[k] = Absent
    PROVE  TimeInv'
<1>1. \A k \in Keys : cell[k].at \in Nat
  BY DEF IInv, TypeOK, Value
<1>2. Absent.at = 0
  BY DEF Absent
<1>3. \A k \in Keys : cell'[k].at \in Nat /\ cell'[k].at <= cell[k].at
  BY <1>1, <1>2
<1>4. \A r \in Loads : val[r].at \in Nat
  BY DEF IInv, TypeOK, Value
<1>5. \A k \in Keys : cell'[k].at <= clock
  BY <1>1, <1>3 DEF TimeInv, IInv, TypeOK
<1>6. \A r \in Loads : pc[r] \in Fetched /\ key[r] \in Locked
                           => cell'[key[r]].at <= val[r].at
  BY <1>1, <1>3, <1>4, KeysAreTyped DEF TimeInv
<1>7. QED
  BY <1>5, <1>6 DEF TimeInv

(* A store writes the value of its load, which is later than what it        *)
(* replaces; for a locked key no other load is in its fetch.                *)
LEMMA StoreKeepsTime ==
    ASSUME IInv, TimeInv, NEW r \in Loads, Store(r)
    PROVE  /\ TimeInv'
           /\ \A k \in Locked : cell'[k].at >= cell[k].at
<1> USE KeysAreTyped DEF IInv, TypeOK, Value
<1>1. PICK w \in WriteReply(cell[key[r]], val[r]) :
        cell' = [cell EXCEPT ![key[r]] = w.val]
  BY DEF Store
<1>2. w.val \in {cell[key[r]], val[r]}
  BY <1>1 DEF WriteReply
<1>3. pc[r] = "storing" /\ key[r] \in Keys /\ clock' = clock
  BY DEF Store, LockInv
<1>4. \A k \in Locked : cell'[k].at >= cell[k].at
  BY <1>1, <1>2, <1>3 DEF TimeInv, Fetched
<1>5. \A k \in Keys : cell'[k].at <= clock'
  BY <1>1, <1>2, <1>3 DEF TimeInv
<1>6. \A q \in Loads \ {r} : pc[q] \in Fetched /\ key[q] \in Locked
                                => cell'[key[q]] = cell[key[q]]
  BY <1>1, <1>3 DEF LockInv, Holding, Fetched, InFetch
<1>7. \A q \in Loads \ {r} :
         pc'[q] = pc[q] /\ key'[q] = key[q] /\ val'[q] = val[q]
  BY DEF Store, Answer, End, Goto
<1>8. \/ pc'[r] = "idle" /\ val'[r].at = 0
      \/ pc'[r] = "storingLast" /\ key'[r] = key[r] /\ val'[r] = val[r]
  BY DEF Store, Answer, End, Goto, Absent
<1>9. pc'[r] = "storingLast" /\ key[r] \in Locked => cell'[key[r]].at <= val[r].at
  BY <1>1, <1>2, <1>3 DEF TimeInv, Fetched
<1>10. \A q \in Loads : val'[q].at <= clock'
  BY <1>3, <1>7, <1>8 DEF TimeInv
<1>11. \A q \in Loads : pc'[q] \in Fetched /\ key'[q] \in Locked
                            => cell'[key'[q]].at <= val'[q].at
  BY <1>6, <1>7, <1>8, <1>9 DEF TimeInv, Fetched
<1>12. QED
  BY <1>4, <1>5, <1>10, <1>11 DEF TimeInv

(* Every step keeps the times in order.                                     *)
LEMMA TimeStep == IInv /\ TimeInv /\ [Next]_vars => TimeInv'
<1> SUFFICES ASSUME IInv, TimeInv, [Next]_vars PROVE TimeInv'
  OBVIOUS
<1>1. ASSUME NEW r \in Loads, NEW k \in Keys, BeginLoad(r, k) PROVE TimeInv'
  BY <1>1 DEF IInv, TypeOK, TimeInv, BeginLoad, Goto, Fetched, valkey
<1>2. ASSUME NEW r \in Loads, Read(r) \/ Reread(r) PROVE TimeInv'
  <2>1. /\ UNCHANGED cell /\ key[r] \in Keys
        /\ \/ End(r) /\ UNCHANGED clock
           \/ Goto(r, "wait") /\ UNCHANGED <<key, val, clock>>
           \/ Fetch(r)
    BY <1>2 DEF Read, Reread, Look, Answer, Wait, valkey, IInv, LockInv
  <2>2. QED
    BY <2>1, EndKeepsTime, FetchKeepsTime, MoveKeepsTime DEF Fetched
<1>3. ASSUME NEW r \in Loads, TakeLock(r) \/ FetchSucceeds(r) PROVE TimeInv'
  <2>1. CASE TakeLock(r)
    BY <2>1, MoveKeepsTime DEF TakeLock, Fetched, valkey
  <2>2. CASE FetchSucceeds(r)
    BY <2>2, MoveKeepsTime DEF FetchSucceeds, Fetched, valkey
  <2>3. QED
    BY <1>3, <2>1, <2>2
<1>4. ASSUME NEW r \in Loads, FetchFails(r) \/ Fallback(r) \/ StoreLast(r)
      PROVE TimeInv'
  <2>1. /\ UNCHANGED <<cell, clock>>
        /\ \/ End(r)
           \/ Goto(r, "fallback") /\ UNCHANGED <<key, val>>
    BY <1>4 DEF FetchFails, Fallback, StoreLast, Look, Answer, valkey
  <2>2. QED
    BY <2>1, EndKeepsTime, MoveKeepsTime DEF Fetched
<1>5. ASSUME NEW r \in Loads, Store(r) PROVE TimeInv'
  BY <1>5, StoreKeepsTime
<1>6. ASSUME NEW c \in Changes, Change(c) PROVE TimeInv'
  <2>1. UNCHANGED <<pc, key, val, clock>>
    BY <1>6 DEF Change, Edit, Switch, Commit, ScanCells, ScanLasts, Remove,
       AbandonInvalidation, load
  <2>2. \A k \in Keys : cell'[k] = cell[k] \/ cell'[k] = Absent
    BY <1>6 DEF Change, Edit, Switch, Commit, ScanCells, ScanLasts, Remove,
       AbandonInvalidation, valkey
  <2>3. QED
    BY <2>1, <2>2, RemovalKeepsTime
<1>7. ASSUME NEW k \in Keys, Expire(k) PROVE TimeInv'
  <2>1. \A l \in Keys : cell'[l] = cell[l] \/ cell'[l] = Absent
    BY <1>7 DEF Expire, IInv, TypeOK
  <2>2. QED
    BY <1>7, <2>1, RemovalKeepsTime DEF Expire, load
<1>8. CASE Crash
  BY <1>8 DEF IInv, TypeOK, TimeInv, Crash, Fetched, valkey, Absent
<1>9. CASE UNCHANGED vars
  BY <1>9, RemovalKeepsTime DEF vars, load, valkey
<1>10. QED
  BY <1>1, <1>2, <1>3, <1>4, <1>5, <1>6, <1>7, <1>8, <1>9 DEF Next, LoadStep

LEMMA TimeInit == Init => TimeInv
  BY DEF Init, TimeInv, Absent, Fetched

(* The lock and the second look at the cache keep the published value of a  *)
(* locked key from going back to an earlier fetch, whatever fails.          *)
THEOREM LockedKeysNeverGoBack == Spec => NeverBackInTime
<1> DEFINE Forward == \A k \in Locked :
                        cell[k] # Absent /\ cell'[k] # Absent
                          => cell'[k].at >= cell[k].at
<1>1. IInv /\ TimeInv /\ [Next]_vars => [Forward]_vars
  <2> SUFFICES ASSUME IInv, TimeInv, Next PROVE Forward
    OBVIOUS
  <2>1. \A k \in Locked : cell[k].at \in Nat
    BY KeysAreTyped DEF IInv, TypeOK, Value
  <2>2. ASSUME NEW r \in Loads, Store(r) PROVE Forward
    BY <2>2, StoreKeepsTime
  <2>3. ASSUME \A k \in Locked : cell'[k] = cell[k] \/ cell'[k] = Absent
        PROVE  Forward
    BY <2>1, <2>3
  <2>4. ASSUME UNCHANGED cell PROVE Forward
    BY <2>3, <2>4
  <2>5. ASSUME NEW k \in Keys, Expire(k) PROVE Forward
    BY <2>3, <2>5, KeysAreTyped DEF Expire, IInv, TypeOK
  <2>6. ASSUME NEW c \in Changes, Remove(c) PROVE Forward
    BY <2>3, <2>6, KeysAreTyped DEF Remove
  <2>7. ASSUME NEW r \in Loads,
               \/ Read(r) \/ TakeLock(r) \/ Reread(r) \/ FetchSucceeds(r)
               \/ FetchFails(r) \/ Fallback(r) \/ StoreLast(r)
               \/ \E k \in Keys : BeginLoad(r, k)
        PROVE  UNCHANGED cell
    BY <2>7 DEF Read, TakeLock, Reread, FetchSucceeds, FetchFails, Fallback,
       StoreLast, BeginLoad, valkey
  <2>8. ASSUME NEW c \in Changes,
               \/ Edit(c) \/ Switch(c) \/ ScanCells(c) \/ ScanLasts(c)
               \/ AbandonInvalidation(c)
        PROVE  UNCHANGED cell
    BY <2>8 DEF Edit, Switch, Commit, ScanCells, ScanLasts,
       AbandonInvalidation, valkey
  <2>9. ASSUME Crash PROVE UNCHANGED cell
    BY <2>9 DEF Crash, valkey
  <2>10. QED
    BY <2>2, <2>4, <2>5, <2>6, <2>7, <2>8, <2>9 DEF Next, LoadStep, Change
<1>2. QED
  BY <1>1, TimeInit, TimeStep, LocksAreHeld, PTL DEF Spec, NeverBackInTime

-----------------------------------------------------------------------------
(* The load that stored the value and has yet to store the copy holds the   *)
(* lock of this very key.                                                   *)
StoringLast(k) ==
    \E r \in Loads : key[r] = k /\ holder[k] = r /\ pc[r] = "storingLast"

FallbackInv ==
    faults = 0 => \A k \in Locked \cap Backed :
        \/ last[k] = Absent \/ cell[k] = Absent
        \/ last[k].at >= cell[k].at
        \/ StoringLast(k)

(* A step that stores nothing, and ends no load that is about to store the  *)
(* copy, keeps the fallback the latest.                                     *)
LEMMA NothingStored ==
    ASSUME faults' = 0 => faults = 0, FallbackInv,
           \A k \in Keys : cell'[k] = cell[k] \/ cell'[k] = Absent,
           \A k \in Keys : last'[k] = last[k] \/ last'[k] = Absent,
           \A q \in Loads : pc[q] = "storingLast" =>
              /\ pc'[q] = "storingLast" /\ key'[q] = key[q]
              /\ \A k \in Keys : holder[k] = q => holder'[k] = q
    PROVE  FallbackInv'
<1> SUFFICES ASSUME faults' = 0, NEW k \in Locked \cap Backed
             PROVE  \/ last'[k] = Absent \/ cell'[k] = Absent
                    \/ last'[k].at >= cell'[k].at
                    \/ StoringLast(k)'
  BY DEF FallbackInv
<1>1. \/ last[k] = Absent \/ cell[k] = Absent
      \/ last[k].at >= cell[k].at
      \/ StoringLast(k)
  BY DEF FallbackInv
<1>2. k \in Keys
  BY KeysAreTyped
<1>3. StoringLast(k) => StoringLast(k)'
  BY <1>2 DEF StoringLast
<1>4. QED
  BY <1>1, <1>2, <1>3

(* The load of a step moves; the loads about to store a copy stay.          *)
LEMMA OthersStay ==
    ASSUME IInv, NEW r \in Loads, pc[r] # "storingLast",
           \/ End(r)
           \/ /\ \E place \in Places : Goto(r, place)
              /\ UNCHANGED <<key, holder>>
    PROVE  \A q \in Loads : pc[q] = "storingLast" =>
              /\ pc'[q] = "storingLast" /\ key'[q] = key[q]
              /\ \A k \in Keys : holder[k] = q => holder'[k] = q
  BY DEF IInv, TypeOK, End, Unlock, Goto

(* A step takes no fault back.                                              *)
LEMMA FaultsGrow == IInv /\ [Next]_vars => (faults' = 0 => faults = 0)
<1> SUFFICES ASSUME IInv, [Next]_vars PROVE faults' = 0 => faults = 0
  OBVIOUS
<1>1. faults \in Nat
  BY DEF IInv, TypeOK
<1>2. faults' = faults \/ faults' = faults + 1
  <2>1. \A failed : Count(failed) => faults' = faults \/ faults' = faults + 1
    BY DEF Count
  <2>2. ASSUME NEW r \in Loads, LoadStep(r)
        PROVE  faults' = faults \/ faults' = faults + 1
    <3>1. CASE Read(r) \/ Reread(r) \/ Fallback(r)
      BY <2>1, <3>1 DEF Read, Reread, Fallback, Look
    <3>2. CASE Store(r) \/ StoreLast(r)
      BY <2>1, <3>2 DEF Store, StoreLast
    <3>3. CASE TakeLock(r) \/ FetchSucceeds(r) \/ FetchFails(r)
      BY <3>3 DEF TakeLock, FetchSucceeds, FetchFails, counts
    <3>4. QED
      BY <2>2, <3>1, <3>2, <3>3 DEF LoadStep
  <2>3. ASSUME NEW c \in Changes, Change(c)
        PROVE  faults' = faults \/ faults' = faults + 1
    BY <2>1, <2>3 DEF Change, Edit, Switch, Commit, ScanCells, ScanLasts,
       Remove, AbandonInvalidation, counts
  <2>4. QED
    BY <2>1, <2>2, <2>3 DEF Next, BeginLoad, Expire, Crash, vars, counts
<1>3. QED
  BY <1>1, <1>2

(* Every step keeps the fallback the latest.                                *)
LEMMA FallbackStep ==
    IInv /\ TimeInv /\ FallbackInv /\ [Next]_vars => FallbackInv'
<1> SUFFICES ASSUME IInv, TimeInv, FallbackInv, [Next]_vars
             PROVE  FallbackInv'
  OBVIOUS
<1>0. faults' = 0 => faults = 0
  BY FaultsGrow
<1>1. ASSUME NEW r \in Loads, NEW k \in Keys, BeginLoad(r, k)
      PROVE  FallbackInv'
  <2>1. \A q \in Loads : pc[q] = "storingLast" =>
           pc'[q] = "storingLast" /\ key'[q] = key[q]
    BY <1>1 DEF BeginLoad, Goto, IInv, TypeOK
  <2>2. UNCHANGED <<cell, last, holder>>
    BY <1>1 DEF BeginLoad, valkey
  <2>3. QED
    BY <1>0, <2>1, <2>2, NothingStored
<1>2. ASSUME NEW r \in Loads,
             \/ Read(r) \/ Reread(r) \/ FetchSucceeds(r)
             \/ FetchFails(r) \/ Fallback(r)
      PROVE  FallbackInv'
  <2>1. UNCHANGED <<cell, last>> /\ pc[r] # "storingLast"
    BY <1>2 DEF Read, Reread, FetchSucceeds, FetchFails, Fallback, valkey
  <2>2. \/ End(r)
        \/ /\ \E place \in Places : Goto(r, place)
           /\ UNCHANGED <<key, holder>>
    BY <1>2 DEF Read, Reread, FetchSucceeds, FetchFails, Fallback, Look,
       Answer, Wait, Fetch, Places, InFetch
  <2>3. QED
    BY <1>0, <2>1, <2>2, OthersStay, NothingStored
<1>3. ASSUME NEW r \in Loads, TakeLock(r) PROVE FallbackInv'
  <2>1. \A q \in Loads : pc[q] = "storingLast" =>
           /\ pc'[q] = "storingLast" /\ key'[q] = key[q]
           /\ \A k \in Keys : holder[k] = q => holder'[k] = q
    BY <1>3, KeysAreTyped DEF TakeLock, LockIsFree, Goto, IInv, TypeOK
  <2>2. UNCHANGED <<cell, last>>
    BY <1>3 DEF TakeLock, valkey
  <2>3. QED
    BY <1>0, <2>1, <2>2, NothingStored
<1>4. ASSUME NEW r \in Loads, Store(r) PROVE FallbackInv'
  <2> SUFFICES ASSUME faults' = 0, NEW k \in Locked \cap Backed
               PROVE  \/ last'[k] = Absent \/ cell'[k] = Absent
                      \/ last'[k].at >= cell'[k].at
                      \/ StoringLast(k)'
    BY DEF FallbackInv
  <2>1. /\ pc[r] = "storing" /\ key[r] \in Keys /\ k \in Keys
        /\ last' = last
    BY <1>4, KeysAreTyped DEF Store, IInv, LockInv
  <2>2. CASE k = key[r]
    <3>1. holder[k] = r
      BY <2>1, <2>2 DEF IInv, LockInv, Holding, InFetch
    <3>2. Goto(r, "storingLast") /\ UNCHANGED <<holder, key>>
      BY <1>4, <2>2 DEF Store
    <3>3. QED
      BY <2>2, <3>1, <3>2 DEF StoringLast, Goto, IInv, TypeOK
  <2>3. CASE k # key[r]
    <3>1. cell'[k] = cell[k]
      BY <1>4, <2>1, <2>3 DEF Store, IInv, TypeOK
    <3>2. \/ last[k] = Absent \/ cell[k] = Absent
          \/ last[k].at >= cell[k].at \/ StoringLast(k)
      BY <1>0 DEF FallbackInv
    <3>3. \/ End(r)
          \/ /\ \E place \in Places : Goto(r, place)
             /\ UNCHANGED <<key, holder>>
      BY <1>4 DEF Store, Answer, Places, InFetch
    <3>4. StoringLast(k) => StoringLast(k)'
      BY <2>1, <3>3, OthersStay DEF StoringLast
    <3>5. QED
      BY <2>1, <3>1, <3>2, <3>4
  <2>4. QED
    BY <2>2, <2>3
<1>5. ASSUME NEW r \in Loads, StoreLast(r) PROVE FallbackInv'
  <2> SUFFICES ASSUME faults' = 0, NEW k \in Locked \cap Backed
               PROVE  \/ last'[k] = Absent \/ cell'[k] = Absent
                      \/ last'[k].at >= cell'[k].at
                      \/ StoringLast(k)'
    BY DEF FallbackInv
  <2>1. /\ pc[r] = "storingLast" /\ key[r] \in Keys /\ k \in Keys
        /\ cell' = cell
    BY <1>5, KeysAreTyped DEF StoreLast, IInv, LockInv
  <2>2. PICK w \in WriteReply(last[key[r]], val[r]) :
          Count(w.failed) /\ last' = [last EXCEPT ![key[r]] = w.val]
    BY <1>5 DEF StoreLast, Remember
  <2>3. w.val = val[r]
    BY <1>0, <2>2 DEF WriteReply, Count, IInv, TypeOK
  <2>4. CASE k = key[r]
    <3>1. last'[k] = val[r]
      BY <2>1, <2>2, <2>3, <2>4 DEF IInv, TypeOK
    <3>2. cell[k].at <= val[r].at
      BY <2>1, <2>4 DEF TimeInv, Fetched
    <3>3. cell[k].at \in Nat /\ val[r].at \in Nat
      BY <2>1 DEF IInv, TypeOK, Value
    <3>4. QED
      BY <2>1, <3>1, <3>2, <3>3
  <2>5. CASE k # key[r]
    <3>1. last'[k] = last[k]
      BY <2>1, <2>2, <2>5 DEF IInv, TypeOK
    <3>2. \/ last[k] = Absent \/ cell[k] = Absent
          \/ last[k].at >= cell[k].at \/ StoringLast(k)
      BY <1>0 DEF FallbackInv
    <3>3. \A q \in Loads \ {r} :
             /\ pc'[q] = pc[q] /\ key'[q] = key[q]
             /\ holder[k] = q => holder'[k] = q
      BY <1>5, <2>1 DEF StoreLast, Answer, End, Unlock, Goto, IInv, TypeOK
    <3>4. StoringLast(k) => StoringLast(k)'
      BY <2>5, <3>3 DEF StoringLast
    <3>5. QED
      BY <2>1, <3>1, <3>2, <3>4
  <2>6. QED
    BY <2>4, <2>5
<1>6. ASSUME NEW c \in Changes, Change(c) PROVE FallbackInv'
  <2>1. UNCHANGED load
    BY <1>6 DEF Change, Edit, Switch, Commit, ScanCells, ScanLasts, Remove,
       AbandonInvalidation
  <2>2. /\ \A k \in Keys : cell'[k] = cell[k] \/ cell'[k] = Absent
        /\ \A k \in Keys : last'[k] = last[k] \/ last'[k] = Absent
    BY <1>6 DEF Change, Edit, Switch, Commit, ScanCells, ScanLasts, Remove,
       AbandonInvalidation, valkey
  <2>3. QED
    BY <1>0, <2>1, <2>2, NothingStored DEF load
<1>7. ASSUME NEW k \in Keys, Expire(k) PROVE FallbackInv'
  <2>1. UNCHANGED load
    BY <1>7 DEF Expire
  <2>2. /\ \A l \in Keys : cell'[l] = cell[l] \/ cell'[l] = Absent
        /\ \A l \in Keys : last'[l] = last[l] \/ last'[l] = Absent
    BY <1>7 DEF Expire, IInv, TypeOK
  <2>3. QED
    BY <1>0, <2>1, <2>2, NothingStored DEF load
<1>8. CASE Crash
  BY <1>8 DEF Crash, Count, FallbackInv, IInv, TypeOK
<1>9. CASE UNCHANGED vars
  BY <1>0, <1>9, NothingStored DEF vars, load, valkey
<1>10. QED
  BY <1>1, <1>2, <1>3, <1>4, <1>5, <1>6, <1>7, <1>8, <1>9 DEF Next, LoadStep

(* While no command fails, the copy a failed fetch falls back to is as new  *)
(* as the value pages are shown, or its load is about to store it.          *)
THEOREM FallbackStaysLatest == Spec => []FallbackIsLatest
<1>1. Init => FallbackInv
  BY KeysAreTyped DEF Init, FallbackInv
<1>2. FallbackInv => FallbackIsLatest
  BY DEF FallbackInv, FallbackIsLatest, StoringLast
<1>3. QED
  BY <1>1, <1>2, TimeInit, TimeStep, FallbackStep, LocksAreHeld, PTL DEF Spec

-----------------------------------------------------------------------------
(* Keys the invalidation knows; values fetched with details that are no     *)
(* longer the source's.                                                     *)
Known    == Named \cup Scanned
Stale(v) == v # Absent /\ v.version # details

(* A stale value that pages could read is about to be removed by a change,  *)
(* whose scan is still to come or has found it.                             *)
CellGoes(k) ==
    \/ state # "on"
    \/ \E c \in Changes : \/ cpc[c] = "scanCells"
                          \/ /\ cpc[c] \in {"scanLasts", "remove"}
                             /\ k \in Doomed(foundCells[c])
LastGoes(k) ==
    \/ state # "on"
    \/ \E c \in Changes : \/ cpc[c] \in {"scanCells", "scanLasts"}
                          \/ /\ cpc[c] = "remove"
                             /\ k \in Doomed(foundLasts[c])

Quiet == \A r \in Loads : pc[r] = "idle"

(* While no load overlaps an edit or an invalidation and no command fails,  *)
(* loads know the details of the source, and none is in flight next to a    *)
(* stale value.                                                             *)
SeparateInv ==
    overlaps = 0 /\ faults = 0 =>
    /\ \A r \in Loads : /\ pc[r] # "idle" => version[r] = details
                        /\ pc[r] \in Fetched => val[r].version = details
    /\ \A k \in Known : /\ Stale(cell[k]) => CellGoes(k) /\ Quiet
                        /\ Stale(last[k]) => LastGoes(k) /\ Quiet
    /\ Unmixed(Known)

(* A step of a load takes no overlap and no fault back.                     *)
LEMMA OverlapsGrow == IInv /\ [Next]_vars => (overlaps' = 0 => overlaps = 0)
<1> SUFFICES ASSUME IInv, [Next]_vars PROVE overlaps' = 0 => overlaps = 0
  OBVIOUS
<1>1. overlaps \in Nat
  BY DEF IInv, TypeOK
<1>2. overlaps' = overlaps \/ overlaps' = overlaps + 1
  BY DEF Next, LoadStep, Change, BeginLoad, Read, Reread, Fallback, Look, Count,
     Store, StoreLast, TakeLock, FetchSucceeds, FetchFails, Edit, Switch,
     ScanCells, ScanLasts, Remove, AbandonInvalidation, Expire, Crash, vars,
     counts
<1>3. QED
  BY <1>1, <1>2

(* What the steps of a load do to what loads know and have fetched: nothing *)
(* but with its own version, and the value of its fetch or of a cell.       *)
LEMMA LoadsKnow ==
    ASSUME IInv, NEW r \in Loads, pc[r] # "idle",
           version[r] = details, details' = details,
           \A q \in Loads : /\ pc[q] # "idle" => version[q] = details
                            /\ pc[q] \in Fetched => val[q].version = details,
           \/ End(r) \/ Fetch(r)
           \/ /\ \E place \in Places : /\ Goto(r, place)
                                       /\ place \in Fetched => pc[r] \in Fetched
              /\ UNCHANGED <<version, val>>
    PROVE  \A q \in Loads : /\ pc'[q] # "idle" => version'[q] = details'
                            /\ pc'[q] \in Fetched => val'[q].version = details'
<1> USE DEF IInv, TypeOK, Goto
<1>1. CASE End(r)
  BY <1>1 DEF End, Fetched
<1>2. CASE Fetch(r)
  BY <1>2 DEF Fetch, Fetched
<1>3. CASE /\ \E place \in Places :
                 Goto(r, place) /\ (place \in Fetched => pc[r] \in Fetched)
           /\ UNCHANGED <<version, val>>
  BY <1>3 DEF Fetched
<1>4. QED
  BY <1>1, <1>2, <1>3

(* An answer with a value of the version the request loaded mixes nothing.  *)
LEMMA AnswerUnmixed ==
    ASSUME IInv, NEW r \in Loads, NEW v, key[r] \in Keys, Unmixed(Known),
           Answer(r, v), key[r] \in Known => v.version = version[r]
    PROVE  Unmixed(Known)'
<1>1. shown' = [shown EXCEPT ![key[r]] =
                  [for |-> version[r], from |-> v.version]]
  BY DEF Answer
<1>2. Known \subseteq Keys
  BY KeysAreTyped DEF Known
<1>3. QED
  BY <1>1, <1>2 DEF IInv, TypeOK, Unmixed

(* A step of a load finds nothing stale and leaves nothing stale.           *)
LEMMA LoadSeparate ==
    ASSUME IInv, SeparateInv, NEW r \in Loads, LoadStep(r),
           overlaps = 0, faults = 0
    PROVE  /\ \A q \in Loads :
                 /\ pc'[q] # "idle" => version'[q] = details'
                 /\ pc'[q] \in Fetched => val'[q].version = details'
           /\ \A k \in Known : ~ Stale(cell[k])' /\ ~ Stale(last[k])'
           /\ Unmixed(Known)'
<1>1. /\ pc[r] # "idle" /\ key[r] \in Keys /\ UNCHANGED <<state, details>>
  BY DEF LoadStep, Read, TakeLock, Reread, FetchSucceeds, FetchFails, Fallback,
     Store, StoreLast, source, IInv, LockInv
<1>2. /\ \A q \in Loads : /\ pc[q] # "idle" => version[q] = details
                          /\ pc[q] \in Fetched => val[q].version = details
      /\ Unmixed(Known)
  BY DEF SeparateInv
<1>3. \A k \in Known : ~ Stale(cell[k]) /\ ~ Stale(last[k])
  BY <1>1 DEF SeparateInv, Quiet
<1>4. /\ version[r] = details
      /\ pc[r] \in Fetched => val[r].version = version[r]
  BY <1>1, <1>2
<1>5. Known \subseteq Keys
  BY KeysAreTyped DEF Known
<1>6. ASSUME NEW cells \in [Keys -> Value], NEW v \in ReadReply(cells[key[r]]),
             \A k \in Known : ~ Stale(cells[k]),
             v.val # Absent, Answer(r, v.val)
      PROVE  Unmixed(Known)' /\ End(r)
  <2>1. v.val = cells[key[r]]
    BY <1>6 DEF ReadReply
  <2>2. key[r] \in Known => v.val.version = version[r]
    BY <1>4, <1>6, <2>1 DEF Stale
  <2>3. QED
    BY <1>1, <1>2, <1>6, <2>2, AnswerUnmixed DEF Answer
<1>7. CASE Read(r) \/ Reread(r)
  <2>1. UNCHANGED <<cell, last>> /\ cell \in [Keys -> Value]
    BY <1>7 DEF Read, Reread, valkey, IInv, TypeOK
  <2>2. PICK v \in ReadReply(cell[key[r]]) :
          \/ v.val # Absent /\ Answer(r, v.val)
          \/ Wait(r) \/ Fetch(r)
    BY <1>7 DEF Read, Reread, Look
  <2>3. Unmixed(Known)' /\ (End(r) \/ Wait(r) \/ Fetch(r))
    BY <1>2, <1>3, <1>6, <2>1, <2>2 DEF Wait, Fetch, Unmixed
  <2>4. Wait(r) => /\ \E place \in Places :
                         /\ Goto(r, place)
                         /\ place \in Fetched => pc[r] \in Fetched
                   /\ UNCHANGED <<version, val>>
    BY DEF Wait, Places, Fetched
  <2>5. QED
    BY <1>1, <1>2, <1>3, <1>4, <2>1, <2>3, <2>4, LoadsKnow DEF Stale
<1>8. CASE Fallback(r)
  <2>1. UNCHANGED <<cell, last>> /\ last \in [Keys -> Value]
    BY <1>8 DEF Fallback, valkey, IInv, TypeOK
  <2>2. PICK v \in ReadReply(last[key[r]]) :
          \/ v.val # Absent /\ Answer(r, v.val)
          \/ End(r) /\ UNCHANGED shown
    BY <1>8 DEF Fallback, Look
  <2>3. Unmixed(Known)' /\ End(r)
    BY <1>2, <1>3, <1>6, <2>1, <2>2 DEF Unmixed
  <2>4. QED
    BY <1>1, <1>2, <1>3, <1>4, <2>1, <2>3, LoadsKnow DEF Stale
<1>9. CASE TakeLock(r) \/ FetchSucceeds(r) \/ FetchFails(r)
  <2>1. UNCHANGED <<cell, last, shown>>
    BY <1>9 DEF TakeLock, FetchSucceeds, FetchFails, valkey
  <2>2. \/ End(r)
        \/ /\ \E place \in Places : /\ Goto(r, place)
                                    /\ place \in Fetched => pc[r] \in Fetched
           /\ UNCHANGED <<version, val>>
    BY <1>9 DEF TakeLock, FetchSucceeds, FetchFails, Places, InFetch, Fetched
  <2>3. QED
    BY <1>1, <1>2, <1>3, <1>4, <2>1, <2>2, LoadsKnow DEF Stale, Unmixed
<1>10. ASSUME Store(r) \/ StoreLast(r)
       PROVE  /\ Unmixed(Known)'
              /\ \A q \in Loads :
                    /\ pc'[q] # "idle" => version'[q] = details'
                    /\ pc'[q] \in Fetched => val'[q].version = details'
  <2>1. pc[r] \in Fetched
    BY <1>10 DEF Store, StoreLast, Fetched
  <2>2. \/ Answer(r, val[r])
        \/ /\ Goto(r, "storingLast")
           /\ UNCHANGED <<version, val, shown>>
    BY <1>10 DEF Store, StoreLast
  <2>3. Unmixed(Known)'
    BY <1>1, <1>2, <1>4, <2>1, <2>2, AnswerUnmixed DEF Unmixed
  <2>4. \/ End(r)
        \/ /\ \E place \in Places : /\ Goto(r, place)
                                    /\ place \in Fetched => pc[r] \in Fetched
           /\ UNCHANGED <<version, val>>
    BY <2>1, <2>2 DEF Answer, Places, InFetch
  <2>5. QED
    BY <1>1, <1>2, <1>4, <2>3, <2>4, LoadsKnow
<1>11. CASE Store(r)
  <2>1. PICK w \in WriteReply(cell[key[r]], val[r]) :
          cell' = [cell EXCEPT ![key[r]] = w.val]
    BY <1>11 DEF Store
  <2>2. w.val = cell[key[r]] \/ w.val = val[r]
    BY <2>1 DEF WriteReply
  <2>3. /\ \A k \in Keys : cell'[k] = cell[k] \/ cell'[k] = val[r]
        /\ last' = last /\ val[r].version = details
    BY <1>4, <1>11, <2>1, <2>2 DEF Store, Fetched, IInv, TypeOK
  <2>4. QED
    BY <1>1, <1>3, <1>5, <1>10, <1>11, <2>3 DEF Stale
<1>12. CASE StoreLast(r)
  <2>1. PICK w \in WriteReply(last[key[r]], val[r]) :
          last' = [last EXCEPT ![key[r]] = w.val]
    BY <1>12 DEF StoreLast, Remember
  <2>2. w.val = last[key[r]] \/ w.val = val[r]
    BY <2>1 DEF WriteReply
  <2>3. /\ \A k \in Keys : last'[k] = last[k] \/ last'[k] = val[r]
        /\ cell' = cell /\ val[r].version = details
    BY <1>4, <1>12, <2>1, <2>2 DEF StoreLast, Fetched, IInv, TypeOK
  <2>4. QED
    BY <1>1, <1>3, <1>5, <1>10, <1>12, <2>3 DEF Stale
<1>13. QED
  BY <1>7, <1>8, <1>9, <1>11, <1>12 DEF LoadStep

(* A change leaves no stale value behind that it, or another one, would not *)
(* remove before the source answers pages again.                            *)
LEMMA ChangeSeparate ==
    ASSUME IInv, SeparateInv, NEW c \in Changes, Change(c),
           overlaps = 0, faults = 0, overlaps' = 0, faults' = 0
    PROVE  SeparateInv'
<1> USE DEF IInv, TypeOK
<1>1. /\ \A r \in Loads : /\ pc[r] # "idle" => version[r] = details
                          /\ pc[r] \in Fetched => val[r].version = details
      /\ \A k \in Known : /\ Stale(cell[k]) => CellGoes(k) /\ Quiet
                          /\ Stale(last[k]) => LastGoes(k) /\ Quiet
      /\ Unmixed(Known)
  BY DEF SeparateInv
<1>2. UNCHANGED <<load, shown>>
  BY DEF Change, Edit, Switch, Commit, ScanCells, ScanLasts, Remove,
     AbandonInvalidation
<1>3. Unmixed(Known)' /\ (Quiet' <=> Quiet)
  BY <1>1, <1>2 DEF Unmixed, Quiet, load
<1>4. \A r \in Loads : pc[r] \in Fetched => pc[r] # "idle"
  BY DEF Fetched
<1>5. CASE Edit(c)
  <2>1. Quiet
    BY <1>5 DEF Edit, Overlapping, Quiet
  <2>2. state' = "off"
    BY <1>5 DEF Edit
  <2>3. QED
    BY <1>2, <1>3, <1>4, <2>1, <2>2
    DEF SeparateInv, CellGoes, LastGoes, Quiet, load
<1>6. ASSUME details' = details,
             \A k \in Known : /\ Stale(cell[k])' => Stale(cell[k]) /\ CellGoes(k)'
                              /\ Stale(last[k])' => Stale(last[k]) /\ LastGoes(k)'
      PROVE  SeparateInv'
  BY <1>1, <1>2, <1>3, <1>6 DEF SeparateInv, load
<1>7. CASE Switch(c)
  <2>1. UNCHANGED <<cell, last, details>> /\ cpc' = [cpc EXCEPT ![c] = "scanCells"]
    BY <1>7 DEF Switch, Commit, valkey
  <2>2. \A k \in Known : CellGoes(k)' /\ LastGoes(k)'
    BY <2>1 DEF CellGoes, LastGoes
  <2>3. QED
    BY <1>6, <2>1, <2>2 DEF Stale
<1>8. CASE ScanCells(c)
  <2>1. /\ UNCHANGED <<cell, last, details, state, foundLasts>>
        /\ cpc[c] = "scanCells" /\ cpc' = [cpc EXCEPT ![c] = "scanLasts"]
        /\ foundCells' = [foundCells EXCEPT ![c] = Stored(cell)]
    BY <1>8 DEF ScanCells, valkey, source
  <2>2. ASSUME NEW k \in Known, Stale(cell[k]) PROVE CellGoes(k)'
    <3>1. k \in Doomed(Stored(cell))
      BY <2>2 DEF Known, Doomed, Stored, Stale
    <3>2. cpc'[c] = "scanLasts" /\ k \in Doomed(foundCells'[c])
      BY <2>1, <3>1
    <3>3. QED
      BY <3>2 DEF CellGoes, Doomed
  <2>3. \A k \in Known : LastGoes(k)'
    BY <2>1 DEF LastGoes
  <2>4. QED
    BY <1>6, <2>1, <2>2, <2>3 DEF Stale
<1>9. CASE ScanLasts(c)
  <2>1. /\ UNCHANGED <<cell, last, details, state, foundCells>>
        /\ cpc[c] = "scanLasts" /\ cpc' = [cpc EXCEPT ![c] = "remove"]
        /\ foundLasts' = [foundLasts EXCEPT ![c] = Stored(last)]
    BY <1>9 DEF ScanLasts, valkey, source
  <2>2. ASSUME NEW k \in Known, Stale(last[k]) PROVE LastGoes(k)'
    <3>1. k \in Doomed(Stored(last))
      BY <2>2 DEF Known, Doomed, Stored, Stale
    <3>2. cpc'[c] = "remove" /\ k \in Doomed(foundLasts'[c])
      BY <2>1, <3>1
    <3>3. QED
      BY <3>2 DEF LastGoes, Doomed
  <2>3. ASSUME NEW k \in Known, CellGoes(k) PROVE CellGoes(k)'
    BY <2>1, <2>3 DEF CellGoes, Doomed
  <2>4. QED
    BY <1>1, <1>6, <2>1, <2>2, <2>3 DEF Stale
<1>10. CASE Remove(c)
  <2>1. /\ UNCHANGED <<state, details>>
        /\ cpc[c] = "remove" /\ cpc' = [cpc EXCEPT ![c] = "idle"]
        /\ foundCells' = [foundCells EXCEPT ![c] = {}]
        /\ foundLasts' = [foundLasts EXCEPT ![c] = {}]
    BY <1>10 DEF Remove, source
  <2>2. \A k \in Known : k \in Keys
    BY KeysAreTyped DEF Known
  <2>3. ASSUME NEW k \in Known, Stale(cell'[k])
        PROVE  Stale(cell[k]) /\ CellGoes(k)'
    <3>1. k \notin Doomed(foundCells[c]) /\ cell'[k] = cell[k]
      BY <1>10, <2>2, <2>3 DEF Remove, Stale
    <3>2. CellGoes(k)
      BY <1>1, <2>3, <3>1
    <3>3. QED
      BY <2>1, <2>3, <3>1, <3>2 DEF CellGoes, Doomed
  <2>4. ASSUME NEW k \in Known, Stale(last'[k])
        PROVE  Stale(last[k]) /\ LastGoes(k)'
    <3>1. k \notin Doomed(foundLasts[c]) /\ last'[k] = last[k]
      BY <1>10, <2>2, <2>4 DEF Remove, Stale
    <3>2. LastGoes(k)
      BY <1>1, <2>4, <3>1
    <3>3. QED
      BY <2>1, <2>4, <3>1, <3>2 DEF LastGoes, Doomed
  <2>5. QED
    BY <1>6, <2>1, <2>3, <2>4 DEF Stale
<1>11. ~ AbandonInvalidation(c)
  BY DEF AbandonInvalidation, Count
<1>12. QED
  BY <1>5, <1>7, <1>8, <1>9, <1>10, <1>11 DEF Change

(* Every step keeps the configurations apart.                               *)
LEMMA SeparateStep == IInv /\ SeparateInv /\ [Next]_vars => SeparateInv'
<1> SUFFICES ASSUME IInv, SeparateInv, [Next]_vars, overlaps' = 0, faults' = 0
             PROVE  SeparateInv'
  BY DEF SeparateInv
<1>0. overlaps = 0 /\ faults = 0
  BY OverlapsGrow, FaultsGrow
<1>1. /\ \A r \in Loads : /\ pc[r] # "idle" => version[r] = details
                          /\ pc[r] \in Fetched => val[r].version = details
      /\ \A k \in Known : /\ Stale(cell[k]) => CellGoes(k) /\ Quiet
                          /\ Stale(last[k]) => LastGoes(k) /\ Quiet
      /\ Unmixed(Known)
  BY <1>0 DEF SeparateInv
<1>2. ASSUME NEW r \in Loads, LoadStep(r) PROVE SeparateInv'
  BY <1>0, <1>2, LoadSeparate DEF SeparateInv
<1>3. ASSUME NEW r \in Loads, NEW k \in Keys, BeginLoad(r, k)
      PROVE  SeparateInv'
  <2>1. state = "on" /\ \A c \in Changes : cpc[c] = "idle"
    BY <1>0, <1>3 DEF BeginLoad
  <2>2. \A l \in Known : ~ Stale(cell[l]) /\ ~ Stale(last[l])
    BY <1>1, <2>1 DEF CellGoes, LastGoes
  <2>3. \A q \in Loads : /\ pc'[q] # "idle" => version'[q] = details
                         /\ pc'[q] \in Fetched => val'[q].version = details
    BY <1>1, <1>3 DEF BeginLoad, Goto, IInv, TypeOK, Fetched
  <2>4. UNCHANGED <<cell, last, details, shown>>
    BY <1>3 DEF BeginLoad, valkey, source
  <2>5. QED
    BY <1>1, <2>2, <2>3, <2>4 DEF SeparateInv, Stale, Unmixed
<1>4. ASSUME NEW c \in Changes, Change(c) PROVE SeparateInv'
  BY <1>0, <1>4, ChangeSeparate
<1>5. ASSUME NEW k \in Keys, Expire(k) PROVE SeparateInv'
  <2>1. UNCHANGED <<source, load, change, shown>>
    BY <1>5 DEF Expire
  <2>2. /\ \A l \in Keys : cell'[l] = cell[l] \/ cell'[l] = Absent
        /\ \A l \in Keys : last'[l] = last[l] \/ last'[l] = Absent
    BY <1>5 DEF Expire, IInv, TypeOK
  <2>3. \A l \in Known : /\ Stale(cell[l])' => Stale(cell[l])
                         /\ Stale(last[l])' => Stale(last[l])
    BY <2>1, <2>2, KeysAreTyped DEF Known, Stale, source
  <2>4. \A l \in Known : /\ CellGoes(l) => CellGoes(l)'
                         /\ LastGoes(l) => LastGoes(l)'
    BY <2>1 DEF CellGoes, LastGoes, source, change, Doomed
  <2>5. QED
    BY <1>1, <2>1, <2>3, <2>4
    DEF SeparateInv, Quiet, Unmixed, source, load
<1>6. ~ Crash
  BY <1>0 DEF Crash, Count
<1>7. CASE UNCHANGED vars
  BY <1>1, <1>7 DEF vars, source, valkey, load, change, SeparateInv, CellGoes,
     LastGoes, Doomed, Quiet, Unmixed, Stale
<1>8. QED
  BY <1>2, <1>3, <1>4, <1>5, <1>6, <1>7 DEF Next

(* While no load overlaps an edit or the invalidation after a change, and   *)
(* no command fails, no answer for a key the invalidation knows comes from  *)
(* details the source no longer has.  What the hypotheses leave is the      *)
(* order of edits, activations, deactivations, scans, removals, failing     *)
(* fetches, their fallbacks and TTLs, for any keys: a value fetched with    *)
(* old details outlives the edit, in two copies, and is gone before a load  *)
(* can look (SeparateInv).  Of a load that spans the change nothing is      *)
(* said: such a load does publish what it fetched before.                   *)
THEOREM NotMixed == Spec => []ConfigurationsStaySeparate
<1>1. Init => SeparateInv
  BY KeysAreTyped
  DEF Init, SeparateInv, Known, Stale, Unmixed, Fetched
<1>2. SeparateInv => ConfigurationsStaySeparate
  BY DEF SeparateInv, ConfigurationsStaySeparate, Known
<1>3. QED
  BY <1>1, <1>2, SeparateStep, LocksAreHeld, PTL DEF Spec
=============================================================================
