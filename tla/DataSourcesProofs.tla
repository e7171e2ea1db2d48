--------------------------- MODULE DataSourcesProofs ---------------------------
(***************************************************************************)
(* DataSources for every set of sources, families, details and requests.   *)
(* RivalInv is the argument for one active source per family: without      *)
(* rivals, whoever is about to switch a source on knows every other active *)
(* source of the family.  ClashInv is the argument for tested sources: an  *)
(* edit in flight has seen everything it has to reset, and what a test, a  *)
(* read or an activation in flight has loaded still describes the source.  *)
(***************************************************************************)
EXTENDS DataSources, TLAPS

RowsInv ==
    /\ \A r \in Requests : op[r] # "idle" => src[r] \in live \cup gone
    /\ live \cap gone = {}

RivalInv ==
    rivals = 0 =>
    /\ OneActive
    /\ \A q, r \in Requests :
          Activating(q) /\ Activating(r) /\ FamilyOf[src[q]] = FamilyOf[src[r]]
            => q = r
    /\ \A r \in Requests, t \in Sources :
          /\ op[r] = "activating" /\ On(t) /\ t # src[r]
          /\ FamilyOf[t] = FamilyOf[src[r]]
          => t \in others[r]

EditSees(r) ==
    LET now == table[src[r]] IN
    /\ now.active = "on" => row[r].active = "on"
    /\ now.status = "success" => row[r].status # "none"

ClashInv ==
    clashes = 0 =>
    /\ \A s \in live : table[s].active = "on" => s \in tested
    /\ \A s \in live : table[s].status = "success" => s \in tested
    /\ \A q, r \in Requests :
          op[q] \in Edits /\ op[r] \in Uses => src[q] # src[r]
    /\ \A r \in Requests : src[r] \in live =>
          /\ op[r] \in Edits => EditSees(r)
          /\ op[r] \in {"test", "read"} => Details(table[src[r]]) = Details(row[r])
          /\ Activating(r) => src[r] \in tested

IInv == TypeOK /\ RowsInv

-----------------------------------------------------------------------------
(* What the end of a request leaves behind.                                 *)
LEMMA EndKeepsTypes ==
    ASSUME TypeOK, NEW r \in Requests, End(r)
    PROVE  /\ op' \in [Requests -> Ops]
           /\ src' \in [Requests -> Sources \cup {None}]
           /\ row' \in [Requests -> Row]
           /\ others' \in [Requests -> SUBSET Sources]
           /\ rivals' \in Nat /\ clashes' \in Nat
  BY DEF TypeOK, End, Row, Fresh, Blank, Ops, races

(* Setting one column of a row leaves a row.                                *)
LEMMA SetColumn ==
    ASSUME NEW w \in Row
    PROVE  /\ \A a \in {"on", "off"} : [w EXCEPT !.active = a] \in Row
           /\ \A t \in {"none", "success", "failed"} :
                 [w EXCEPT !.status = t] \in Row
<1>1. \A a \in {"on", "off"} : [w EXCEPT !.active = a] \in Row
  BY DEF Row
<1>2. \A t \in {"none", "success", "failed"} : [w EXCEPT !.status = t] \in Row
  BY DEF Row
<1>3. QED
  BY <1>1, <1>2

(* An UPDATE built from rows writes a row.                                  *)
LEMMA StoreKeepsTypes ==
    ASSUME TypeOK, NEW r \in Requests, NEW new \in Row, NEW b, Store(r, new, b)
    PROVE  /\ live' = live /\ gone' = gone
           /\ table' \in [Sources -> Row]
<1>1. Written(table[src[r]], row[r], new, b) \in Row
  BY DEF Written, Store, TypeOK, Row
<1>2. QED
  BY <1>1 DEF Store, TypeOK

(* No id is used twice, and the request a row belongs to knows a real id.   *)
LEMMA RowsInvStep == TypeOK /\ RowsInv /\ [Next]_vars => RowsInv'
<1> SUFFICES ASSUME TypeOK, RowsInv, [Next]_vars PROVE RowsInv'
  OBVIOUS
<1> USE DEF TypeOK, RowsInv
<1>1. ASSUME NEW s \in Sources, Create(s) \/ StartOAuth(s) PROVE RowsInv'
  BY <1>1 DEF Create, StartOAuth, Insert, requests
<1>2. ASSUME NEW r \in Requests, NEW o \in Ops, NEW s \in Sources,
             Load(r, o, s)
      PROVE RowsInv'
  BY <1>2 DEF Load
<1>3. ASSUME NEW r \in Requests, LoadOthers(r) PROVE RowsInv'
  BY <1>3 DEF LoadOthers
<1>4. ASSUME NEW r \in Requests, End(r), UNCHANGED <<live, gone>>
      PROVE RowsInv'
  BY <1>4 DEF End
<1>5. ASSUME NEW r \in Requests, Delete(r) PROVE RowsInv'
  BY <1>5 DEF Delete, End
<1>6. ASSUME NEW r \in Requests,
             \/ Update(r) \/ Authorize(r) \/ Test(r) \/ Renew(r)
             \/ Activate(r) \/ Deactivate(r) \/ GiveUp(r)
      PROVE End(r) /\ UNCHANGED <<live, gone>>
  BY <1>6 DEF Update, Authorize, Test, Renew, Activate, Deactivate, GiveUp,
     Store
<1>7. CASE UNCHANGED vars
  BY <1>7 DEF vars, requests
<1>8. QED
  BY <1>1, <1>2, <1>3, <1>4, <1>5, <1>6, <1>7 DEF Next, Request

(* Every step keeps the types, whatever the requests in flight loaded.      *)
LEMMA TypeStep == TypeOK /\ RowsInv /\ [Next]_vars => TypeOK'
<1> SUFFICES ASSUME TypeOK, RowsInv, [Next]_vars PROVE TypeOK'
  OBVIOUS
<1> USE SourcesAreTyped, BoundsAreNat
        DEF TypeOK, Row, Fresh, Blank, Ops, Edits, Uses
<1>1. ASSUME NEW s \in Sources, Create(s) \/ StartOAuth(s) PROVE TypeOK'
  <2>1. PICK u \in Urls, c \in Creds \cup {None} : Insert(s, u, c)
    BY <1>1 DEF Create, StartOAuth
  <2>2. Fresh(u, c) \in Row
    OBVIOUS
  <2>3. table' \in [Sources -> Row] /\ live' \subseteq Sources
    BY <2>1, <2>2 DEF Insert
  <2>4. QED
    BY <2>1, <2>3 DEF Insert, requests, races
<1>2. ASSUME NEW r \in Requests, NEW o \in Ops, NEW s \in Sources,
             Load(r, o, s)
      PROVE TypeOK'
  BY <1>2 DEF Load, CountRaces
<1>3. ASSUME NEW r \in Requests, LoadOthers(r) PROVE TypeOK'
  BY <1>3 DEF LoadOthers, ActiveSiblings, races
<1>4. ASSUME NEW r \in Requests, Update(r) PROVE TypeOK'
  BY <1>4, EndKeepsTypes, StoreKeepsTypes DEF Update, Reset
<1>5. ASSUME NEW r \in Requests, Authorize(r) PROVE TypeOK'
  BY <1>5, EndKeepsTypes, StoreKeepsTypes DEF Authorize, Reset
<1>6. ASSUME NEW r \in Requests, Test(r) PROVE TypeOK'
  <2>1. PICK status \in {"success", "failed"}, renewed \in BOOLEAN :
          Store(r, [row[r] EXCEPT !.status = status], renewed)
    BY <1>6 DEF Test
  <2>2. row[r] \in Row /\ [row[r] EXCEPT !.status = status] \in Row
    <3> HIDE DEF Row
    <3>1. row[r] \in Row
      OBVIOUS
    <3>2. QED
      BY <3>1, SetColumn
  <2>3. table' \in [Sources -> Row] /\ live' = live /\ gone' = gone
    BY <2>1, <2>2, StoreKeepsTypes
  <2>4. src[r] \in Sources /\ tested' \subseteq tested \cup {src[r]}
    BY <1>6, <2>1 DEF Test, Judge, Store
  <2>5. QED
    BY <1>6, <2>3, <2>4, EndKeepsTypes DEF Test
<1>6b. ASSUME NEW r \in Requests, Renew(r) PROVE TypeOK'
  <2>1. table' \in [Sources -> Row] /\ live' = live /\ gone' = gone
    BY <1>6b, StoreKeepsTypes DEF Renew
  <2>2. src[r] \in Sources /\ tested' \subseteq tested \cup {src[r]}
    BY <1>6b DEF Renew, Judge, Store
  <2>3. QED
    BY <1>6b, <2>1, <2>2, EndKeepsTypes DEF Renew
<1>7. ASSUME NEW r \in Requests, Activate(r) PROVE TypeOK'
  BY <1>7, EndKeepsTypes DEF Activate, Written
<1>8. ASSUME NEW r \in Requests, Deactivate(r) PROVE TypeOK'
  <2> HIDE DEF Row
  <2>1. row[r] \in Row
    OBVIOUS
  <2>2. [row[r] EXCEPT !.active = "off"] \in Row
    BY <2>1, SetColumn
  <2>3. table' \in [Sources -> Row] /\ live' = live /\ gone' = gone
    BY <1>8, <2>2, StoreKeepsTypes DEF Deactivate
  <2>4. QED
    BY <1>8, <2>3, EndKeepsTypes DEF Deactivate
<1>9. ASSUME NEW r \in Requests, Delete(r) PROVE TypeOK'
  <2>1. src[r] \in Sources
    BY <1>9 DEF Delete, RowsInv
  <2>2. QED
    BY <1>9, <2>1, EndKeepsTypes DEF Delete
<1>10. ASSUME NEW r \in Requests, GiveUp(r) PROVE TypeOK'
  BY <1>10, EndKeepsTypes DEF GiveUp
<1>11. CASE UNCHANGED vars
  BY <1>11 DEF vars, requests, races
<1>12. QED
  BY <1>1, <1>2, <1>3, <1>4, <1>5, <1>6, <1>6b, <1>7, <1>8, <1>9, <1>10,
     <1>11
  DEF Next, Request

(* The typed rows every other argument starts from.                         *)
THEOREM RowsAreTyped == Spec => []IInv
<1>1. Init => IInv
  BY DEF Init, IInv, RowsInv, TypeOK, Row, Fresh, Blank, Ops
<1>2. IInv /\ [Next]_vars => IInv'
  BY TypeStep, RowsInvStep DEF IInv
<1>3. QED
  BY <1>1, <1>2, PTL DEF Spec

(* Rows, requests and counters keep their types in every reachable state.   *)
THEOREM TypeCorrect == Spec => []TypeOK
  BY RowsAreTyped, PTL DEF IInv

-----------------------------------------------------------------------------
(* Only an activation switches a source on.                                 *)
LEMMA OnlyActivateSwitchesOn ==
    ASSUME IInv, [Next]_vars, NEW t \in Sources, On(t)', ~ On(t)
    PROVE  \E r \in Requests : Activate(r)
<1> SUFFICES ASSUME \A r \in Requests : ~ Activate(r) PROVE FALSE
  OBVIOUS
<1> USE DEF IInv, TypeOK, On
<1>1. ASSUME NEW s \in Sources, Create(s) \/ StartOAuth(s) PROVE FALSE
  BY <1>1 DEF Create, StartOAuth, Insert, Fresh
<1>2. ASSUME NEW r \in Requests, NEW new, NEW b, Store(r, new, b),
             new.active = "on" => row[r].active = "on"
      PROVE FALSE
  BY <1>2 DEF Store, Written
<1>3. ASSUME NEW r \in Requests, Update(r) \/ Authorize(r) PROVE FALSE
  BY <1>2, <1>3 DEF Update, Authorize, Reset, Fresh
<1>4. ASSUME NEW r \in Requests, Test(r) PROVE FALSE
  <2>1. PICK status \in {"success", "failed"}, renewed \in BOOLEAN :
          Store(r, [row[r] EXCEPT !.status = status], renewed)
    BY <1>4 DEF Test
  <2>2. row[r] \in Row
    OBVIOUS
  <2>3. [row[r] EXCEPT !.status = status].active = row[r].active
    BY <2>2 DEF Row
  <2>4. QED
    BY <1>2, <2>1, <2>3
<1>5. ASSUME NEW r \in Requests, Deactivate(r) PROVE FALSE
  <2>1. row[r] \in Row
    OBVIOUS
  <2>2. [row[r] EXCEPT !.active = "off"].active = "off"
    BY <2>1 DEF Row
  <2>3. QED
    BY <1>2, <1>5, <2>2 DEF Deactivate
<1>6. ASSUME NEW r \in Requests, Delete(r) PROVE FALSE
  BY <1>6 DEF Delete
<1>7. ASSUME NEW r \in Requests, LoadOthers(r) \/ GiveUp(r) \/ Renew(r)
      PROVE FALSE
  BY <1>2, <1>7 DEF LoadOthers, GiveUp, Renew
<1>8. ASSUME NEW r \in Requests, NEW o \in Ops, NEW s \in Sources,
             Load(r, o, s)
      PROVE FALSE
  BY <1>8 DEF Load
<1>9. CASE UNCHANGED vars
  BY <1>9 DEF vars
<1>10. QED
  BY <1>1, <1>3, <1>4, <1>5, <1>6, <1>7, <1>8, <1>9 DEF Next, Request

(* What an activation leaves active was active, or is its own source; and   *)
(* the rows it loaded as active are off.                                    *)
LEMMA ActivateSwitches ==
    ASSUME IInv, NEW r \in Requests, Activate(r), NEW t \in Sources, On(t)'
    PROVE  (t = src[r] \/ On(t)) /\ (t # src[r] => t \notin others[r])
<1> USE DEF IInv, TypeOK, On, Activate
<1>1. CASE t = src[r]
  BY <1>1
<1>2. CASE t # src[r] /\ t \in others[r]
  <2>1. table[t] \in Row
    OBVIOUS
  <2>2. [table[t] EXCEPT !.active = "off"].active = "off"
    BY <2>1 DEF Row
  <2>3. QED
    BY <1>2, <2>2
<1>3. CASE t # src[r] /\ t \notin others[r]
  BY <1>3
<1>4. QED
  BY <1>1, <1>2, <1>3

(* A race that was counted stays counted.                                   *)
LEMMA RacesOnlyGrow ==
    ASSUME IInv, [Next]_vars
    PROVE  (rivals' = 0 => rivals = 0) /\ (clashes' = 0 => clashes = 0)
<1>1. ASSUME NEW r \in Requests, NEW o \in Ops, NEW s \in Sources,
             Load(r, o, s)
      PROVE (rivals' = 0 => rivals = 0) /\ (clashes' = 0 => clashes = 0)
  BY <1>1 DEF Load, CountRaces, IInv, TypeOK
<1>2. CASE UNCHANGED races
  BY <1>2 DEF races
<1>3. QED
  BY <1>1, <1>2 DEF Next, Request, Create, StartOAuth, Insert, LoadOthers,
     Update, Authorize, Test, Renew, Activate, Deactivate, Delete, GiveUp, End,
     vars

(* Every step keeps the knowledge of an activation without rivals.          *)
LEMMA RivalInvStep ==
    ASSUME IInv, RivalInv, [Next]_vars
    PROVE  RivalInv'
<1> SUFFICES ASSUME rivals' = 0 PROVE RivalInv'
  BY DEF RivalInv
<1> USE DEF IInv, TypeOK, Activating
<1>1. rivals = 0
  BY RacesOnlyGrow
<1>2. ASSUME NEW r \in Requests, Activate(r) PROVE RivalInv'
  <2>1. /\ op[r] = "activating" /\ op' = [op EXCEPT ![r] = "idle"]
        /\ src' = [src EXCEPT ![r] = None]
        /\ others' = [others EXCEPT ![r] = {}]
    BY <1>2 DEF Activate, End
  <2>2. OneActive'
    <3> SUFFICES ASSUME NEW s \in Sources, NEW t \in Sources, On(s)', On(t)',
                        FamilyOf[s] = FamilyOf[t]
                 PROVE  s = t
      BY DEF OneActive
    <3>1. (s = src[r] \/ On(s)) /\ (s # src[r] => s \notin others[r])
      BY <1>2, ActivateSwitches
    <3>2. (t = src[r] \/ On(t)) /\ (t # src[r] => t \notin others[r])
      BY <1>2, ActivateSwitches
    <3>3. QED
      BY <1>1, <2>1, <3>1, <3>2 DEF RivalInv, OneActive
  <2>3. ASSUME NEW q \in Requests, NEW p \in Requests,
               Activating(q)', Activating(p)',
               FamilyOf[src'[q]] = FamilyOf[src'[p]]
        PROVE q = p
    BY <1>1, <2>1, <2>3 DEF RivalInv
  <2>4. ASSUME NEW q \in Requests, NEW t \in Sources,
               op'[q] = "activating", On(t)', t # src'[q],
               FamilyOf[t] = FamilyOf[src'[q]]
        PROVE t \in others'[q]
    <3>1. q # r /\ op[q] = "activating" /\ src'[q] = src[q]
          /\ others'[q] = others[q]
      BY <2>1, <2>4
    <3>2. FamilyOf[src[q]] # FamilyOf[src[r]]
      BY <1>1, <2>1, <3>1 DEF RivalInv
    <3>3. On(t)
      BY <1>2, <2>4, <3>1, <3>2, ActivateSwitches
    <3>4. QED
      BY <1>1, <2>4, <3>1, <3>3 DEF RivalInv
  <2>5. QED
    BY <2>2, <2>3, <2>4 DEF RivalInv
<1>3. ASSUME \A r \in Requests : ~ Activate(r) PROVE RivalInv'
  <2>1. \A t \in Sources : On(t)' => On(t)
    BY <1>3, OnlyActivateSwitchesOn
  <2>2. OneActive'
    BY <1>1, <2>1 DEF RivalInv, OneActive
  <2>3. ASSUME NEW r \in Requests, NEW o \in Ops, NEW s \in Sources,
               Load(r, o, s)
        PROVE RivalInv'
    <3>1. /\ op[r] = "idle" /\ op' = [op EXCEPT ![r] = o]
          /\ src' = [src EXCEPT ![r] = s] /\ others' = others
          /\ ~ Rival(o, s) /\ o # "activating"
      BY <1>1, <2>3 DEF Load, CountRaces
    <3>2. QED
      BY <1>1, <2>1, <2>2, <3>1 DEF RivalInv, Rival
  <2>4. ASSUME NEW r \in Requests, LoadOthers(r) PROVE RivalInv'
    BY <1>1, <2>1, <2>2, <2>4 DEF LoadOthers, ActiveSiblings, RivalInv, On
  <2>5. CASE \/ UNCHANGED <<op, src, others>>
             \/ \E r \in Requests : End(r)
    BY <1>1, <2>1, <2>2, <2>5 DEF RivalInv, End
  <2>6. QED
    BY <1>3, <2>3, <2>4, <2>5 DEF Next, Request, Create, StartOAuth, Insert,
       Update, Authorize, Test, Renew, Deactivate, Delete, GiveUp, vars,
       requests
<1>4. QED
  BY <1>2, <1>3

(* At most one active source per family, for any number of sources and of   *)
(* requests in flight, as long as activations of a family do not overlap.   *)
THEOREM OneActivePerFamily == Spec => []OneActiveWithoutRivals
<1>1. Init => RivalInv
  BY DEF Init, RivalInv, OneActive, On, Activating
<1>2. IInv /\ RivalInv /\ [Next]_vars => RivalInv'
  BY RivalInvStep
<1>3. RivalInv => OneActiveWithoutRivals
  BY DEF RivalInv, OneActiveWithoutRivals
<1>4. QED
  BY <1>1, <1>2, <1>3, RowsAreTyped, PTL DEF Spec

-----------------------------------------------------------------------------
(* The edit of a source writes every column it has to reset.                *)
LEMMA EditResets ==
    ASSUME IInv, ClashInv, clashes = 0, NEW r \in Requests,
           Update(r) \/ Authorize(r)
    PROVE  /\ src[r] \in live /\ op[r] \in Edits
           /\ \A s \in Sources \ {src[r]} : table'[s] = table[s]
           /\ table'[src[r]].active # "on"
           /\ table'[src[r]].status # "success"
           /\ tested' = tested \ {src[r]}
           /\ live' = live /\ gone' = gone
<1>1. PICK new, b : /\ new.active = "off" /\ new.status = "none"
                    /\ Store(r, new, b)
  BY DEF Update, Authorize, Reset, Fresh
<1>2. op[r] \in Edits /\ src[r] \in live
  BY <1>1 DEF Update, Authorize, Edits, Store
<1>3. EditSees(r)
  BY <1>2 DEF ClashInv
<1>4. /\ Written(table[src[r]], row[r], new, b).active # "on"
      /\ Written(table[src[r]], row[r], new, b).status # "success"
  BY <1>1, <1>3 DEF EditSees, Written
<1>5. src[r] \in Sources /\ table \in [Sources -> Row]
  BY <1>2 DEF IInv, TypeOK
<1>6. QED
  BY <1>1, <1>2, <1>4, <1>5 DEF Store, Update, Authorize

(* A test or a renewal with details that nobody has edited leaves them      *)
(* alone, and a success is recorded as theirs.                              *)
LEMMA TestRecords ==
    ASSUME IInv, ClashInv, clashes = 0, NEW r \in Requests,
           Test(r) \/ Renew(r)
    PROVE  /\ src[r] \in live /\ op[r] \in {"test", "read"}
           /\ \A s \in Sources \ {src[r]} : table'[s] = table[s]
           /\ table'[src[r]].active = table[src[r]].active
           /\ Details(table'[src[r]]) = Details(table[src[r]])
           /\ table'[src[r]].status = "success" =>
                 table[src[r]].status = "success" \/ src[r] \in tested'
           /\ tested \subseteq tested' /\ tested' \subseteq tested \cup {src[r]}
           /\ live' = live /\ gone' = gone
<1> DEFINE s == src[r]
<1>1. row[r] \in Row
  BY DEF IInv, TypeOK
<1>2. PICK new, renewed, passed :
        /\ Store(r, new, renewed) /\ Judge(r, passed)
        /\ new.active = row[r].active
        /\ new.url = row[r].url /\ new.cred = row[r].cred
        /\ new.status = row[r].status \/ (new.status = "success" => passed)
        /\ op[r] \in {"test", "read"}
  <2>1. CASE Test(r)
    <3>1. PICK status \in {"success", "failed"}, renewed \in BOOLEAN :
            /\ Store(r, [row[r] EXCEPT !.status = status], renewed)
            /\ Judge(r, status = "success")
            /\ op[r] = "test"
      BY <2>1 DEF Test
    <3> DEFINE new == [row[r] EXCEPT !.status = status]
    <3>2. /\ new.active = row[r].active /\ new.status = status
          /\ new.url = row[r].url /\ new.cred = row[r].cred
      BY <1>1 DEF Row
    <3> HIDE DEF new
    <3>3. Store(r, new, renewed)
      BY <3>1 DEF new
    <3>4. QED
      BY <3>1, <3>2, <3>3
  <2>2. CASE Renew(r)
    BY <2>2 DEF Renew
  <2>3. QED
    BY <2>1, <2>2
<1>3. s \in live /\ s \in Sources
  BY <1>2 DEF Store, IInv, TypeOK
<1>4. Details(table[s]) = Details(row[r])
  BY <1>2, <1>3 DEF ClashInv
<1>5. table' = [table EXCEPT ![s] = Written(table[s], row[r], new, renewed)]
  BY <1>2 DEF Store
<1>6. table'[s] = Written(table[s], row[r], new, renewed)
  BY <1>3, <1>5 DEF IInv, TypeOK
<1>7. /\ table'[s].active = table[s].active
      /\ Details(table'[s]) = Details(table[s])
      /\ table'[s].status = "success" => table[s].status = "success" \/ passed
  BY <1>2, <1>4, <1>6 DEF Written, Details
<1>8. \A t \in Sources \ {s} : table'[t] = table[t]
  BY <1>3, <1>5 DEF IInv, TypeOK
<1>9. tested' = IF passed THEN tested \cup {s} ELSE tested
  BY <1>2, <1>4, <1>7 DEF Judge
<1>10. QED
  BY <1>2, <1>3, <1>7, <1>8, <1>9 DEF Store

(* An activation or deactivation writes no column but the flag.             *)
LEMMA SwitchWritesTheFlag ==
    ASSUME IInv, NEW r \in Requests, Activate(r) \/ Deactivate(r),
           NEW t \in Sources
    PROVE  /\ table'[t].status = table[t].status
           /\ Details(table'[t]) = Details(table[t])
           /\ table'[t].active = "on" =>
                 table[t].active = "on" \/ (t = src[r] /\ op[r] = "activating")
           /\ live' = live /\ gone' = gone /\ tested' = tested
<1> USE DEF IInv, TypeOK
<1>1. row[r] \in Row /\ table[t] \in Row
  OBVIOUS
<1> DEFINE On1  == [row[r] EXCEPT !.active = "on"]
           Off1 == [row[r] EXCEPT !.active = "off"]
<1>2. /\ On1.active = "on" /\ On1.status = row[r].status
      /\ On1.url = row[r].url /\ On1.cred = row[r].cred
      /\ Off1.active = "off" /\ Off1.status = row[r].status
      /\ Off1.url = row[r].url /\ Off1.cred = row[r].cred
  BY <1>1 DEF Row
<1>3. [table[t] EXCEPT !.active = "off"] \in Row
      /\ [table[t] EXCEPT !.active = "off"].active = "off"
      /\ [table[t] EXCEPT !.active = "off"].status = table[t].status
      /\ [table[t] EXCEPT !.active = "off"].url = table[t].url
      /\ [table[t] EXCEPT !.active = "off"].cred = table[t].cred
  BY <1>1 DEF Row
<1>4. CASE Activate(r)
  <2>1. /\ op[r] = "activating"
        /\ \/ t = src[r] /\ table'[t] = Written(table[t], row[r], On1, FALSE)
           \/ table'[t] = [table[t] EXCEPT !.active = "off"]
           \/ table'[t] = table[t]
        /\ live' = live /\ gone' = gone /\ tested' = tested
    BY <1>4 DEF Activate
  <2> HIDE DEF On1, Off1
  <2>2. CASE t = src[r] /\ table'[t] = Written(table[t], row[r], On1, FALSE)
    BY <1>2, <2>1, <2>2 DEF Written, Details
  <2>3. CASE table'[t] = [table[t] EXCEPT !.active = "off"]
    BY <1>3, <2>1, <2>3 DEF Details
  <2>4. CASE table'[t] = table[t]
    BY <2>1, <2>4
  <2>5. QED
    BY <2>1, <2>2, <2>3, <2>4
<1>5. CASE Deactivate(r)
  <2>1. /\ \/ table'[t] = Written(table[t], row[r], Off1, FALSE)
           \/ table'[t] = table[t]
        /\ live' = live /\ gone' = gone /\ tested' = tested
    BY <1>5 DEF Deactivate, Store
  <2> HIDE DEF On1, Off1
  <2>2. QED
    BY <1>2, <2>1 DEF Written, Details
<1>6. QED
  BY <1>4, <1>5

(* Every step keeps what edits, tests and activations in flight know.       *)
LEMMA ClashInvStep ==
    ASSUME IInv, ClashInv, [Next]_vars
    PROVE  ClashInv'
<1> SUFFICES ASSUME clashes' = 0 PROVE ClashInv'
  BY DEF ClashInv
<1> USE DEF IInv, TypeOK, RowsInv, Activating, EditSees, Edits, Uses
<1>1. clashes = 0
  BY RacesOnlyGrow
<1>2. ASSUME NEW s \in Sources, Create(s) \/ StartOAuth(s) PROVE ClashInv'
  BY <1>1, <1>2 DEF Create, StartOAuth, Insert, requests, ClashInv, Fresh
<1>3. ASSUME NEW r \in Requests, NEW o \in Ops, NEW s \in Sources,
             Load(r, o, s)
      PROVE ClashInv'
  <2>1. ~ Clash(o, s)
    BY <1>1, <1>3 DEF Load, CountRaces
  <2>2. /\ op' = [op EXCEPT ![r] = o] /\ src' = [src EXCEPT ![r] = s]
        /\ row' = [row EXCEPT ![r] = table[s]]
        /\ op[r] = "idle" /\ s \in live /\ o # "activating"
        /\ UNCHANGED <<live, table, tested>>
    BY <1>3 DEF Load
  <2>3. o = "activate" => s \in tested
    BY <1>1, <1>3, <2>2 DEF Load, Accepted, ClashInv
  <2>4. \A p, q \in Requests :
           op'[p] \in Edits /\ op'[q] \in Uses => src'[p] # src'[q]
    BY <1>1, <2>1, <2>2 DEF Clash, ClashInv
  <2>5. QED
    BY <1>1, <2>2, <2>3, <2>4 DEF ClashInv
<1>4. ASSUME NEW r \in Requests, LoadOthers(r) PROVE ClashInv'
  BY <1>1, <1>4 DEF LoadOthers, ClashInv
<1>5. ASSUME NEW r \in Requests, End(r)
      PROVE /\ \A q \in Requests : op'[q] # "idle" =>
                  /\ q # r /\ op'[q] = op[q]
                  /\ src'[q] = src[q] /\ row'[q] = row[q]
            /\ \A p, q \in Requests :
                  op'[p] \in Edits /\ op'[q] \in Uses => src'[p] # src'[q]
  BY <1>1, <1>5 DEF End, ClashInv
<1>6. ASSUME NEW r \in Requests, Update(r) \/ Authorize(r) PROVE ClashInv'
  <2>1. /\ src[r] \in live /\ op[r] \in Edits
        /\ \A s \in Sources \ {src[r]} : table'[s] = table[s]
        /\ table'[src[r]].active # "on"
        /\ table'[src[r]].status # "success"
        /\ tested' = tested \ {src[r]}
        /\ live' = live
    BY <1>1, <1>6, EditResets
  <2>2. End(r)
    BY <1>6 DEF Update, Authorize
  <2>3. QED
    BY <1>1, <1>5, <2>1, <2>2 DEF ClashInv
<1>7. ASSUME NEW r \in Requests, Test(r) \/ Renew(r) PROVE ClashInv'
  <2>1. End(r)
    BY <1>7 DEF Test, Renew
  <2>2. QED
    BY <1>1, <1>5, <1>7, <2>1, TestRecords DEF ClashInv
<1>8. ASSUME NEW r \in Requests, Activate(r) \/ Deactivate(r) PROVE ClashInv'
  <2>1. End(r)
    BY <1>8 DEF Activate, Deactivate
  <2>2. live' = live /\ tested' = tested
    BY <1>8 DEF Activate, Deactivate, Store
  <2>3. \A t \in Sources :
           /\ table'[t].status = table[t].status
           /\ Details(table'[t]) = Details(table[t])
           /\ table'[t].active = "on" =>
                 table[t].active = "on" \/ (t = src[r] /\ op[r] = "activating")
    BY <1>8, SwitchWritesTheFlag
  <2>4. \A s \in live' : table'[s].active = "on" => s \in tested'
    BY <1>1, <2>2, <2>3 DEF ClashInv
  <2>5. QED
    BY <1>1, <1>5, <2>1, <2>2, <2>3, <2>4 DEF ClashInv
<1>9. ASSUME NEW r \in Requests, Delete(r) PROVE ClashInv'
  <2>1. End(r)
    BY <1>9 DEF Delete
  <2>2. QED
    BY <1>1, <1>5, <1>9, <2>1 DEF Delete, ClashInv
<1>10. ASSUME NEW r \in Requests, GiveUp(r) PROVE ClashInv'
  BY <1>1, <1>5, <1>10 DEF GiveUp, ClashInv
<1>11. CASE UNCHANGED vars
  BY <1>1, <1>11 DEF vars, requests, ClashInv
<1>12. QED
  BY <1>2, <1>3, <1>4, <1>6, <1>7, <1>8, <1>9, <1>10, <1>11 DEF Next, Request

(* An active source's connection details have passed a test since they were *)
(* last changed, for any number of sources and of requests in flight, as    *)
(* long as no edit overlaps a test, a read or an activation of the source.  *)
THEOREM ActiveSourcesAreTested == Spec => []ActiveIsTested
<1>1. Init => ClashInv
  BY DEF Init, ClashInv, Edits, Uses, Activating
<1>2. IInv /\ ClashInv /\ [Next]_vars => ClashInv'
  BY ClashInvStep
<1>3. IInv /\ ClashInv => ActiveIsTested
  BY DEF ClashInv, ActiveIsTested, On
<1>4. QED
  BY <1>1, <1>2, <1>3, RowsAreTyped, PTL DEF Spec
=============================================================================
