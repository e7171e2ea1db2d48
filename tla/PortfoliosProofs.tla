---------------------------- MODULE PortfoliosProofs ----------------------------
(***************************************************************************)
(* Portfolios for any number of requests and portfolios.  DefaultInv is    *)
(* why the default survives: while a deletion overlaps no other write of   *)
(* the flag, nothing it has read can change before its commit, and no      *)
(* creation in flight can find the table emptied.  AloneInv is about the   *)
(* requests nobody overlapped: what they have read is what is stored, so   *)
(* that their commit meets no conflict and a new row gets the last number. *)
(***************************************************************************)
EXTENDS Portfolios, TLAPS

NextInv ==
    \A r \in Requests : /\ pc[r] # "delete" => next[r] = 0
                        /\ next[r] # 0 => next[r] # me[r]

DefaultInv ==
    deleteRaces = 0 =>
    /\ DefaultExists
    /\ \A q, r \in Requests :
          pc[q] \in Deletes /\ pc[r] \in Writes \cup Deletes => q = r
    /\ \A r \in Requests :
          /\ pc[r] = "insert" => live # {}
          /\ pc[r] = "delete" /\ next[r] = 0 =>
                live \subseteq {me[r]} \/ default \ {me[r]} # {}

IInv == TypeOK /\ NextInv

-----------------------------------------------------------------------------
(* What the end of a request leaves behind.                                 *)
LEMMA EndKeeps ==
    ASSUME IInv, NEW r \in Requests, End(r)
    PROVE  /\ pc' \in [Requests -> Places]
           /\ me' \in [Requests -> {0} \cup Ids]
           /\ next' \in [Requests -> {0} \cup Ids]
           /\ slot' \in [Requests -> Nat]
           /\ rows' \in [Requests -> SUBSET Ids]
           /\ goal' \in [Requests -> [Ids -> Nat]]
           /\ overlapped' \subseteq Requests /\ deleteRaces' \in Nat
           /\ NextInv'
<1> USE DEF IInv, TypeOK, End, Places
<1>1. goal' \in [Requests -> [Ids -> Nat]]
  BY DEF Unsorted
<1>2. NextInv'
  BY DEF NextInv
<1>3. QED
  BY <1>1, <1>2

(* A request begins at its place and is counted among those in flight.      *)
LEMMA BeginKeeps ==
    ASSUME IInv, NEW r \in Requests, NEW place \in Places, Begin(r, place)
    PROVE  /\ pc' \in [Requests -> Places] /\ overlapped' \subseteq Requests
           /\ deleteRaces' \in Nat
           /\ pc[r] = "idle" /\ next[r] = 0
  BY DEF IInv, TypeOK, NextInv, Begin, Places

(* A new row keeps the table typed.                                         *)
LEMMA AddRowKeeps ==
    ASSUME IInv, NEW place \in Nat, AddRow(born + 1, place)
    PROVE  /\ born' = born + 1 /\ born' \in 0..MaxPortfolios
           /\ live' = live \cup {born'} /\ live' \subseteq 1..born'
           /\ rank' \in [Ids -> Nat]
  BY BoundsAreNat DEF IInv, TypeOK, AddRow, Ids

(* Every step keeps the types, and a deletion never promotes the row it     *)
(* deletes.                                                                 *)
LEMMA TypeStep == IInv /\ [Next]_vars => IInv'
<1> SUFFICES ASSUME IInv, [Next]_vars PROVE IInv'
  OBVIOUS
<1> USE BoundsAreNat DEF IInv, TypeOK, table
<1>0. /\ {"idle", "order"} \subseteq Places /\ Writes \subseteq Places
      /\ Deletes \subseteq Places
  BY DEF Places
<1>20. live \subseteq Ids
  BY DEF Ids
<1>1. ASSUME NEW r \in Requests, NEW w \in BOOLEAN, BeginCreate(r, w)
      PROVE IInv'
  <2>1. /\ pc' \in [Requests -> Places] /\ overlapped' \subseteq Requests
        /\ deleteRaces' \in Nat /\ next[r] = 0
    BY <1>1, BeginKeeps DEF BeginCreate, Places, Writes
  <2>2. slot' \in [Requests -> Nat]
    BY <1>1 DEF BeginCreate, NextRank, Ids
  <2>3. NextInv'
    BY <1>1, <2>1 DEF BeginCreate, NextInv, Begin
  <2>4. QED
    BY <1>1, <2>1, <2>2, <2>3 DEF BeginCreate
<1>2. ASSUME NEW r \in Requests, NEW p \in live, BeginSetDefault(r, p)
      PROVE IInv'
  <2>1. /\ pc' \in [Requests -> Places] /\ overlapped' \subseteq Requests
        /\ deleteRaces' \in Nat /\ next[r] = 0
    BY <1>2, BeginKeeps DEF BeginSetDefault, Places, Writes
  <2>2. me' \in [Requests -> {0} \cup Ids]
    BY <1>2 DEF BeginSetDefault, Ids
  <2>3. NextInv'
    BY <1>2, <2>1 DEF BeginSetDefault, NextInv, Begin
  <2>4. QED
    BY <1>2, <2>1, <2>2, <2>3 DEF BeginSetDefault
<1>3. ASSUME NEW r \in Requests, NEW p \in live, BeginDelete(r, p)
      PROVE IInv'
  <2>1. /\ pc' \in [Requests -> Places] /\ overlapped' \subseteq Requests
        /\ deleteRaces' \in Nat /\ next[r] = 0
    BY <1>3, BeginKeeps DEF BeginDelete, Places, Deletes
  <2>2. me' \in [Requests -> {0} \cup Ids]
    BY <1>3 DEF BeginDelete, Ids
  <2>3. NextInv'
    BY <1>3, <2>1 DEF BeginDelete, NextInv, Begin
  <2>4. QED
    BY <1>3, <2>1, <2>2, <2>3 DEF BeginDelete
<1>4. ASSUME NEW r \in Requests, BeginReorder(r) PROVE IInv'
  <2>1. /\ pc' \in [Requests -> Places] /\ overlapped' \subseteq Requests
        /\ deleteRaces' \in Nat /\ next[r] = 0
    BY <1>4, BeginKeeps DEF BeginReorder, Places
  <2>2. PICK f \in Orders(live) :
          LET moved == {p \in live : f[p] # rank[p]} IN
          /\ rows' = [rows EXCEPT ![r] = moved]
          /\ goal' = [goal EXCEPT ![r] = [p \in Ids |->
                                           IF p \in moved THEN f[p] ELSE 0]]
    BY <1>4 DEF BeginReorder
  <2>3. f \in [Ids -> Nat]
    BY <2>2 DEF Orders
  <2>4. rows' \in [Requests -> SUBSET Ids]
    BY <1>20, <2>2
  <2>5. goal' \in [Requests -> [Ids -> Nat]]
    BY <2>2, <2>3
  <2>6. NextInv'
    BY <1>4, <2>1 DEF BeginReorder, NextInv, Begin
  <2>7. UNCHANGED <<born, live, default, rank, me, next, slot>>
    BY <1>4 DEF BeginReorder
  <2>8. QED
    BY <2>1, <2>4, <2>5, <2>6, <2>7
<1>5. ASSUME NEW r \in Requests, BeginEnsure(r) PROVE IInv'
  <2>1. /\ pc' \in [Requests -> Places] /\ overlapped' \subseteq Requests
        /\ deleteRaces' \in Nat /\ next[r] = 0
    BY <1>5, BeginKeeps DEF BeginEnsure, Places, Writes
  <2>2. NextInv'
    BY <1>5, <2>1 DEF BeginEnsure, NextInv, Begin
  <2>3. QED
    BY <1>5, <2>1, <2>2 DEF BeginEnsure
<1>6. ASSUME NEW r \in Requests, ClearForNew(r) \/ Clear(r) PROVE IInv'
  <2>1. rows' \in [Requests -> SUBSET Ids] /\ pc' \in [Requests -> Places]
    BY <1>0, <1>6, <1>20 DEF ClearForNew, Clear, Found, Continue, Writes
  <2>2. NextInv'
    BY <1>6 DEF ClearForNew, Clear, Continue, NextInv
  <2>3. UNCHANGED <<born, live, default, rank, me, next, slot, goal,
                    overlapped, deleteRaces>>
    BY <1>6 DEF ClearForNew, Clear, Continue
  <2>4. QED
    BY <2>1, <2>2, <2>3
<1>7. ASSUME NEW r \in Requests, Pick(r) PROVE IInv'
  <2>1. pc' = [pc EXCEPT ![r] = "delete"] /\ pc[r] = "pick"
        /\ UNCHANGED <<overlapped, deleteRaces>>
    BY <1>7 DEF Pick, Continue
  <2>2. next' \in [Requests -> {0} \cup Ids]
    BY <1>7, <1>20 DEF Pick, IsFirst
  <2>3. NextInv'
    BY <1>7, <2>1 DEF Pick, IsFirst, NextInv
  <2>4. UNCHANGED <<born, live, default, rank, me, slot, rows, goal>>
    BY <1>7 DEF Pick
  <2>5. pc' \in [Requests -> Places]
    BY <1>0, <2>1 DEF Deletes
  <2>6. QED
    BY <2>1, <2>2, <2>3, <2>4, <2>5
<1>8. ASSUME NEW r \in Requests, Heal(r) PROVE IInv'
  <2>1. /\ pc' \in [Requests -> Places] /\ me' \in [Requests -> {0} \cup Ids]
        /\ UNCHANGED <<overlapped, deleteRaces>>
    BY <1>0, <1>8, <1>20 DEF Heal, Continue, IsFirst, Writes
  <2>2. NextInv'
    BY <1>8 DEF Heal, Continue, NextInv
  <2>3. UNCHANGED <<born, live, default, rank, next, slot, rows, goal>>
    BY <1>8 DEF Heal
  <2>4. QED
    BY <2>1, <2>2, <2>3
<1>9. ASSUME NEW r \in Requests, InsertDefault(r) \/ Insert(r) \/ HealNew(r)
      PROVE IInv'
  <2>1. \E place \in Nat : AddRow(born + 1, place)
    BY <1>9 DEF InsertDefault, Insert, HealNew
  <2>2. End(r) /\ default' \subseteq default \cup {born + 1}
    BY <1>9 DEF InsertDefault, Insert, HealNew, MakeDefault
  <2>3. QED
    BY <2>1, <2>2, EndKeeps, AddRowKeeps
<1>10. ASSUME NEW r \in Requests, Promote(r) \/ HealFirst(r) PROVE IInv'
  <2>1. End(r) /\ UNCHANGED <<born, live, rank>> /\ default' \subseteq live
    BY <1>10 DEF Promote, HealFirst, MakeDefault
  <2>2. QED
    BY <2>1, EndKeeps
<1>11. ASSUME NEW r \in Requests, Reorder(r) PROVE IInv'
  <2>1. rank' \in [Ids -> Nat]
    BY <1>11 DEF Reorder
  <2>2. QED
    BY <1>11, <2>1, EndKeeps DEF Reorder
<1>12. ASSUME NEW r \in Requests, Delete(r) PROVE IInv'
  <2>1. default' \subseteq live' /\ live' \subseteq live
    <3>1. live' = live \ {me[r]}
      BY <1>12 DEF Delete
    <3>2. CASE next[r] = 0 /\ default' = default \ {me[r]}
      BY <3>1, <3>2
    <3>3. CASE next[r] \in live /\ MakeDefault({me[r]}, next[r])
      <4>1. next[r] # 0
        BY <3>3
      <4>2. next[r] # me[r]
        BY <4>1 DEF NextInv
      <4>3. default' = (default \ {me[r]}) \cup {next[r]}
        BY <3>3 DEF MakeDefault
      <4>4. QED
        BY <3>1, <3>3, <4>2, <4>3
    <3>4. QED
      BY <1>12, <3>2, <3>3 DEF Delete
  <2>2. rank' \in [Ids -> Nat]
    BY <1>12 DEF Delete
  <2>3. End(r) /\ born' = born
    BY <1>12 DEF Delete
  <2>4. QED
    BY <2>1, <2>2, <2>3, EndKeeps
<1>13. ASSUME NEW r \in Requests, GiveUp(r) PROVE IInv'
  BY <1>13, EndKeeps DEF GiveUp
<1>14. CASE UNCHANGED vars
  BY <1>14 DEF vars, request, NextInv
<1>15. QED
  BY <1>1, <1>2, <1>3, <1>4, <1>5, <1>6, <1>7, <1>8, <1>9, <1>10, <1>11,
     <1>12, <1>13, <1>14 DEF Next, Request

(* The typed table and requests every other argument starts from.           *)
THEOREM TableIsTyped == Spec => []IInv
<1>1. Init => IInv
  BY BoundsAreNat DEF Init, IInv, TypeOK, NextInv, Places, Unsorted, Ids
<1>2. QED
  BY <1>1, TypeStep, PTL DEF Spec

(* The table and the requests keep their types, and a default portfolio is  *)
(* a portfolio of the table.                                                *)
THEOREM TypeCorrect == Spec => []TypeOK
  BY TableIsTyped, PTL DEF IInv

-----------------------------------------------------------------------------
(* A race that was counted stays counted.                                   *)
LEMMA RacesOnlyGrow ==
    ASSUME IInv, [Next]_vars, deleteRaces' = 0
    PROVE  deleteRaces = 0
<1> USE DEF IInv, TypeOK
<1>1. ASSUME NEW r \in Requests, NEW place, Begin(r, place)
      PROVE deleteRaces = 0
  BY <1>1 DEF Begin
<1>2. CASE UNCHANGED deleteRaces
  BY <1>2
<1>3. QED
  BY <1>1, <1>2 DEF Next, Request, BeginCreate, BeginSetDefault, BeginDelete,
     BeginReorder, BeginEnsure, ClearForNew, InsertDefault, Insert, Clear,
     Promote, Reorder, Pick, Delete, Heal, HealNew, HealFirst, GiveUp, Continue,
     End, vars

(* No step lets a deletion in flight meet another write uncounted.          *)
LEMMA DeletesStayAlone ==
    ASSUME IInv, DefaultInv, [Next]_vars, deleteRaces = 0, deleteRaces' = 0,
           NEW q \in Requests, NEW r \in Requests,
           pc'[q] \in Deletes, pc'[r] \in Writes \cup Deletes
    PROVE  q = r
<1> USE DEF IInv, TypeOK, DefaultInv, Writes, Deletes
<1>1. ASSUME NEW s \in Requests, NEW place, Begin(s, place) PROVE q = r
  BY <1>1 DEF Begin, DeleteRace
<1>2. ASSUME NEW s \in Requests, NEW place, Continue(s, place),
             pc[s] \in Writes => place \in Writes,
             pc[s] \in Deletes => place \in Deletes,
             pc[s] \in Writes \cup Deletes
      PROVE q = r
  BY <1>2 DEF Continue
<1>3. ASSUME NEW s \in Requests, End(s) PROVE q = r
  BY <1>3 DEF End
<1>4. ASSUME NEW s \in Requests,
             ClearForNew(s) \/ Clear(s) \/ Pick(s) \/ Heal(s)
      PROVE q = r
  BY <1>2, <1>4 DEF ClearForNew, Clear, Pick, Heal
<1>5. CASE UNCHANGED vars
  BY <1>5 DEF vars, request
<1>6. QED
  BY <1>1, <1>3, <1>4, <1>5 DEF Next, Request, BeginCreate, BeginSetDefault,
     BeginDelete, BeginReorder, BeginEnsure, InsertDefault, Insert, Promote,
     Reorder, Delete, HealNew, HealFirst, GiveUp

(* Every step keeps the default of a table without deletion races.          *)
LEMMA DefaultInvStep ==
    ASSUME IInv, DefaultInv, [Next]_vars
    PROVE  DefaultInv'
<1> SUFFICES ASSUME deleteRaces' = 0 PROVE DefaultInv'
  BY DEF DefaultInv
<1> DEFINE Ready(r) == /\ pc[r] = "insert" => live # {}
                       /\ pc[r] = "delete" /\ next[r] = 0 =>
                            \/ live \subseteq {me[r]}
                            \/ default \ {me[r]} # {}
<1>1. deleteRaces = 0
  BY RacesOnlyGrow
<1>2. \A q, r \in Requests :
         pc'[q] \in Deletes /\ pc'[r] \in Writes \cup Deletes => q = r
  BY <1>1, DeletesStayAlone
<1>3. DefaultExists /\ \A r \in Requests : Ready(r)
  BY <1>1 DEF DefaultInv
<1>4. SUFFICES DefaultExists' /\ \A r \in Requests : Ready(r)'
  BY <1>2, <1>4 DEF DefaultInv
<1> USE DEF IInv, TypeOK, DefaultExists, table
<1>5. ASSUME NEW r \in Requests, NEW w \in BOOLEAN, BeginCreate(r, w)
      PROVE DefaultExists' /\ \A q \in Requests : Ready(q)'
  BY <1>3, <1>5 DEF BeginCreate, Begin
<1>6. ASSUME NEW r \in Requests, NEW p \in live, BeginSetDefault(r, p)
      PROVE DefaultExists' /\ \A q \in Requests : Ready(q)'
  BY <1>3, <1>6 DEF BeginSetDefault, Begin
<1>7. ASSUME NEW r \in Requests, NEW p \in live, BeginDelete(r, p)
      PROVE DefaultExists' /\ \A q \in Requests : Ready(q)'
  BY <1>3, <1>7 DEF BeginDelete, Begin
<1>8. ASSUME NEW r \in Requests, BeginReorder(r) \/ BeginEnsure(r)
      PROVE DefaultExists' /\ \A q \in Requests : Ready(q)'
  BY <1>3, <1>8 DEF BeginReorder, BeginEnsure, Begin
<1>9. ASSUME NEW r \in Requests, ClearForNew(r) \/ Clear(r) \/ Heal(r)
      PROVE DefaultExists' /\ \A q \in Requests : Ready(q)'
  BY <1>3, <1>9 DEF ClearForNew, Clear, Heal, Continue
<1>10. ASSUME NEW r \in Requests, Pick(r)
       PROVE DefaultExists' /\ \A q \in Requests : Ready(q)'
  BY <1>3, <1>10 DEF Pick, Continue, IsFirst
<1>11. ASSUME NEW r \in Requests,
              InsertDefault(r) \/ Insert(r) \/ HealNew(r) \/ Promote(r)
                \/ HealFirst(r)
       PROVE DefaultExists' /\ \A q \in Requests : Ready(q)'
  <2>1. /\ End(r) /\ pc[r] \in Writes /\ live \subseteq live'
        /\ default' # {}
    BY <1>3, <1>11 DEF InsertDefault, Insert, HealNew, Promote, HealFirst,
       MakeDefault, AddRow, Writes
  <2>2. \A q \in Requests : pc'[q] # "idle" =>
           /\ q # r /\ pc'[q] = pc[q] /\ me'[q] = me[q] /\ next'[q] = next[q]
    BY <2>1 DEF End
  <2>3. \A q \in Requests : pc'[q] # "delete"
    BY <1>1, <2>1, <2>2 DEF DefaultInv, Deletes, Writes
  <2>4. QED
    BY <1>3, <2>1, <2>2, <2>3
<1>12. ASSUME NEW r \in Requests, Delete(r)
       PROVE DefaultExists' /\ \A q \in Requests : Ready(q)'
  <2>1. End(r) /\ pc[r] = "delete" /\ live' = live \ {me[r]}
    BY <1>12 DEF Delete
  <2>2. \A q \in Requests : pc'[q] # "idle" => q # r /\ pc'[q] = pc[q]
    BY <2>1 DEF End
  <2>3. \A q \in Requests : pc'[q] # "delete" /\ pc'[q] # "insert"
    BY <1>1, <2>1, <2>2 DEF DefaultInv, Deletes, Writes
  <2>4. DefaultExists'
    BY <1>3, <1>12, <2>1 DEF Delete, MakeDefault
  <2>5. QED
    BY <2>3, <2>4
<1>13. ASSUME NEW r \in Requests, Reorder(r) \/ GiveUp(r)
       PROVE DefaultExists' /\ \A q \in Requests : Ready(q)'
  BY <1>3, <1>13 DEF Reorder, GiveUp, End
<1>14. CASE UNCHANGED vars
  BY <1>3, <1>14 DEF vars, request
<1>15. QED
  BY <1>5, <1>6, <1>7, <1>8, <1>9, <1>10, <1>11, <1>12, <1>13, <1>14
  DEF Next, Request

(* A user with portfolios has a default one, for any number of portfolios   *)
(* and requests in flight, as long as no deletion overlaps another write of *)
(* the default flag.                                                        *)
THEOREM DefaultIsKept == Spec => []DefaultSurvives
<1>1. Init => DefaultInv
  BY DEF Init, DefaultInv, DefaultExists, Deletes, Writes
<1>2. IInv /\ DefaultInv /\ [Next]_vars => DefaultInv'
  BY DefaultInvStep
<1>3. DefaultInv => DefaultSurvives
  BY DEF DefaultInv, DefaultSurvives
<1>4. QED
  BY <1>1, <1>2, <1>3, TableIsTyped, PTL DEF Spec

-----------------------------------------------------------------------------
(* What a request that nothing overlapped has read is still so: the rows    *)
(* its bulk UPDATE found are all rows, the portfolio it is about is there,  *)
(* its sort_order is not below any other, and the default it deletes is the *)
(* only one.                                                                *)
StillSo(r) ==
    /\ pc[r] \in {"insertDefault", "promote"} => rows[r] = live
    /\ pc[r] \in {"clear", "promote", "pick", "healFirst"} => me[r] \in live
    /\ pc[r] = "order" => rows[r] \subseteq live
    /\ pc[r] = "pick" => me[r] \in default
    /\ pc[r] = "delete" /\ next[r] # 0 =>
          next[r] \in live /\ me[r] \in default
    /\ pc[r] \in {"heal", "healNew", "healFirst"} => default = {}
    /\ pc[r] \in {"insert", "clearForNew", "insertDefault"} =>
          \A p \in live : rank[p] <= slot[r]

(* Nobody else is in flight next to a request that nothing overlapped.      *)
Alone(r) == \A q \in Requests : pc[q] # "idle" => q = r

AloneInv ==
    /\ \A p, q \in default : p = q
    /\ \A r \in Requests \ overlapped :
          pc[r] # "idle" => Alone(r) /\ StillSo(r)

(* A request that is still in flight and still not overlapped after a step  *)
(* took that step itself.                                                   *)
LEMMA OthersOverlap ==
    ASSUME IInv, AloneInv, NEW r \in Requests, NEW s \in Requests, Request(s),
           r \notin overlapped', pc'[r] # "idle"
    PROVE  s = r
<1> SUFFICES ASSUME s # r PROVE FALSE
  OBVIOUS
<1> USE DEF IInv, TypeOK, AloneInv, Alone
<1>1. ASSUME NEW place, Begin(s, place) PROVE FALSE
  BY <1>1 DEF Begin
<1>2. ASSUME NEW place, pc[s] # "idle", Continue(s, place) PROVE FALSE
  BY <1>2 DEF Continue
<1>3. ASSUME pc[s] # "idle", End(s) PROVE FALSE
  BY <1>3 DEF End
<1>4. QED
  BY <1>1, <1>2, <1>3 DEF Request, BeginCreate, BeginSetDefault, BeginDelete,
     BeginReorder, BeginEnsure, ClearForNew, InsertDefault, Insert, Clear,
     Promote, Reorder, Pick, Delete, Heal, HealNew, HealFirst, GiveUp

(* The partial unique index leaves at most one default.                     *)
LEMMA OneDefault ==
    ASSUME IInv, AloneInv, [Next]_vars
    PROVE  \A p, q \in default' : p = q
<1> USE DEF AloneInv
<1>1. ASSUME NEW out, NEW p, MakeDefault(out, p) PROVE default' = {p}
  BY <1>1 DEF MakeDefault, Conflict
<1>2. CASE default' \subseteq default
  BY <1>2
<1>3. ASSUME NEW r \in Requests, InsertDefault(r) \/ Promote(r) \/ HealNew(r)
                \/ HealFirst(r)
      PROVE  \A p, q \in default' : p = q
  BY <1>1, <1>3 DEF InsertDefault, Promote, HealNew, HealFirst
<1>4. ASSUME NEW r \in Requests, Delete(r)
      PROVE  \A p, q \in default' : p = q
  BY <1>1, <1>2, <1>4 DEF Delete
<1>5. QED
  BY <1>2, <1>3, <1>4 DEF Next, Request, BeginCreate, BeginSetDefault,
     BeginDelete, BeginReorder, BeginEnsure, ClearForNew, Insert, Clear,
     Reorder, Pick, Heal, GiveUp, table, vars

(* What the steps of a request alone in flight leave true for its next one. *)
LEMMA AloneStep ==
    ASSUME IInv, AloneInv, NEW r \in Requests, Request(r),
           r \notin overlapped', pc'[r] # "idle"
    PROVE  Alone(r)' /\ StillSo(r)'
<1> USE DEF IInv, TypeOK, StillSo, table
<1>1. ASSUME NEW place, Begin(r, place)
      PROVE /\ Alone(r)' /\ pc'[r] = place
            /\ next[r] = 0
  BY <1>1 DEF Begin, Alone, NextInv
<1>2. ASSUME NEW place, pc[r] # "idle", Continue(r, place)
      PROVE /\ Alone(r)' /\ pc'[r] = place
            /\ r \notin overlapped
            /\ StillSo(r)
  BY <1>2 DEF Continue, Alone, AloneInv
<1>3. ASSUME NEW w \in BOOLEAN, BeginCreate(r, w) PROVE Alone(r)' /\ StillSo(r)'
  <2>1. /\ Alone(r)' /\ next[r] = 0
        /\ pc'[r] \in {"insert", "clearForNew"}
    BY <1>1, <1>3 DEF BeginCreate
  <2>2. UNCHANGED <<live, rank, default>>
    BY <1>3 DEF BeginCreate
  <2>3. \A p \in live : rank[p] <= slot'[r]
    <3>1. CASE live = {}
      BY <3>1
    <3>2. ASSUME NEW top \in live, \A q \in live : rank[q] <= rank[top],
                 slot' = [slot EXCEPT ![r] = NextRank(rank[top])]
          PROVE  \A p \in live : rank[p] <= slot'[r]
      <4>1. \A p \in live : rank[p] \in Nat
        BY BoundsAreNat DEF Ids
      <4>2. slot'[r] = NextRank(rank[top])
        BY <3>2
      <4>3. QED
        BY <3>2, <4>1, <4>2 DEF NextRank
    <3>3. QED
      BY <1>3, <3>1, <3>2 DEF BeginCreate
  <2>4. QED
    BY <2>1, <2>2, <2>3
<1>4. ASSUME NEW p \in live, BeginSetDefault(r, p)
      PROVE Alone(r)' /\ StillSo(r)'
  BY <1>1, <1>4 DEF BeginSetDefault
<1>5. ASSUME NEW p \in live, BeginDelete(r, p) PROVE Alone(r)' /\ StillSo(r)'
  BY <1>1, <1>5 DEF BeginDelete
<1>6. ASSUME BeginReorder(r) PROVE Alone(r)' /\ StillSo(r)'
  <2>1. rows'[r] \subseteq live
    BY <1>6 DEF BeginReorder
  <2>2. QED
    BY <1>1, <1>6, <2>1 DEF BeginReorder
<1>7. ASSUME BeginEnsure(r) PROVE Alone(r)' /\ StillSo(r)'
  BY <1>1, <1>7 DEF BeginEnsure
<1>8. ASSUME ClearForNew(r) \/ Clear(r) PROVE Alone(r)' /\ StillSo(r)'
  <2>1. rows'[r] = live /\ UNCHANGED <<live, rank, default, me, next, slot>>
    BY <1>8 DEF ClearForNew, Clear, Found, Ids
  <2>2. QED
    BY <1>2, <1>8, <2>1 DEF ClearForNew, Clear
<1>9. ASSUME Pick(r) PROVE Alone(r)' /\ StillSo(r)'
  <2>1. /\ Alone(r)' /\ pc'[r] = "delete" /\ me[r] \in default
        /\ next[r] = 0
    BY <1>2, <1>9 DEF Pick, NextInv
  <2>2. next'[r] # 0 => next'[r] \in live
    BY <1>9, <2>1 DEF Pick
  <2>3. QED
    BY <1>9, <2>1, <2>2 DEF Pick
<1>10. ASSUME Heal(r) PROVE Alone(r)' /\ StillSo(r)'
  <2>1. pc[r] = "heal" /\ UNCHANGED <<live, default, rank, next, slot, rows>>
    BY <1>10 DEF Heal
  <2>2. CASE Continue(r, "healNew")
    BY <1>2, <2>1, <2>2
  <2>3. CASE me'[r] \in live /\ Continue(r, "healFirst")
    BY <1>2, <2>1, <2>3
  <2>4. QED
    BY <1>10, <2>2, <2>3 DEF Heal
<1>11. ~ End(r)
  BY DEF End
<1>12. QED
  BY <1>3, <1>4, <1>5, <1>6, <1>7, <1>8, <1>9, <1>10, <1>11
  DEF Request, InsertDefault, Insert, Promote, Reorder, Delete, HealNew,
      HealFirst, GiveUp

LEMMA AloneInvStep == IInv /\ AloneInv /\ [Next]_vars => AloneInv'
<1> SUFFICES ASSUME IInv, AloneInv, [Next]_vars PROVE AloneInv'
  OBVIOUS
<1>1. \A p, q \in default' : p = q
  BY OneDefault
<1>2. ASSUME NEW r \in Requests, r \notin overlapped', pc'[r] # "idle"
      PROVE Alone(r)' /\ StillSo(r)'
  <2>1. CASE Next
    <3>1. PICK s \in Requests : Request(s)
      BY <2>1 DEF Next
    <3>2. s = r
      BY <1>2, <3>1, OthersOverlap
    <3>3. QED
      BY <1>2, <3>1, <3>2, AloneStep
  <2>2. CASE UNCHANGED vars
    BY <1>2, <2>2 DEF vars, request, table, AloneInv, Alone, StillSo
  <2>3. QED
    BY <2>1, <2>2
<1>3. QED
  BY <1>1, <1>2 DEF AloneInv

THEOREM AloneIsUndisturbed == Spec => [](IInv /\ AloneInv)
<1>1. Init => AloneInv
  BY DEF Init, AloneInv
<1>2. QED
  BY <1>1, AloneInvStep, TableIsTyped, PTL DEF Spec

(* A request that no other overlapped is never turned down by its commit:   *)
(* neither by the unique index on the default flag nor for a row that is    *)
(* gone, whatever the table it began with.                                  *)
THEOREM AloneSucceeds == Spec => []AloneIsNotRefused
<1>1. IInv /\ AloneInv => AloneIsNotRefused
  BY DEF IInv, TypeOK, AloneInv, StillSo, AloneIsNotRefused, Refused, Gone,
     Conflict
<1>2. QED
  BY <1>1, AloneIsUndisturbed, PTL

(* A portfolio created by a request alone in flight is the last of the      *)
(* list, for any number of portfolios and although sort_orders may repeat.  *)
THEOREM CreatedLast == Spec => NewGoesLast
<1> DEFINE A == \A r \in Requests \ overlapped :
                  pc[r] \in {"insert", "insertDefault"} =>
                  \A p \in live, q \in live' \ live : Before(p, q)'
<1>1. ASSUME IInv, AloneInv, Next PROVE A
  <2> SUFFICES ASSUME NEW r \in Requests \ overlapped,
                      pc[r] \in {"insert", "insertDefault"},
                      NEW p \in live, NEW q \in live' \ live
               PROVE  Before(p, q)'
    OBVIOUS
  <2> USE DEF IInv, TypeOK
  <2>1. PICK s \in Requests : Request(s)
    BY <1>1 DEF Next
  <2>2. CASE s = r
    <3>1. AddRow(born + 1, slot[r])
      BY <2>1, <2>2 DEF Request, BeginCreate, BeginSetDefault, BeginDelete,
         BeginReorder, BeginEnsure, Begin, ClearForNew, Clear, Promote,
         Reorder, Pick, Delete, Heal, HealFirst, HealNew, GiveUp, table,
         Insert, InsertDefault
    <3>2. q = born + 1 /\ p < q /\ p \in Ids /\ q \in Ids
      BY <1>1, <3>1, BoundsAreNat DEF AddRow, Ids
    <3>3. /\ rank'[q] = slot[r] /\ rank'[p] = rank[p]
          /\ slot[r] \in Nat /\ rank[p] \in Nat
      BY <1>1, <3>1, <3>2 DEF AddRow
    <3>4. rank[p] <= slot[r]
      BY <1>1 DEF AloneInv, StillSo
    <3>5. QED
      BY <3>2, <3>3, <3>4 DEF Before
  <2>3. CASE s # r
    <3>1. pc[s] = "idle"
      BY <1>1, <2>3 DEF AloneInv, Alone
    <3>2. live' = live
      BY <2>1, <3>1 DEF Request, BeginCreate, BeginSetDefault, BeginDelete,
         BeginReorder, BeginEnsure, ClearForNew, Clear, Promote, Reorder,
         Pick, Delete, Heal, HealFirst, HealNew, GiveUp, table, Insert,
         InsertDefault
    <3>3. QED
      BY <3>2
  <2>4. QED
    BY <2>2, <2>3
<1>2. UNCHANGED vars => [A]_vars
  OBVIOUS
<1>3. IInv /\ AloneInv /\ [Next]_vars => [A]_vars
  BY <1>1
<1>4. QED
  BY <1>3, AloneIsUndisturbed, PTL DEF Spec, NewGoesLast
=============================================================================
