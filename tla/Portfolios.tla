------------------------------- MODULE Portfolios -------------------------------
(***************************************************************************)
(* One user's portfolios (backend/app/portfolios): the list, its order and *)
(* the default portfolio.                                                  *)
(*                                                                         *)
(* Requests of one user interleave between their statements; a commit      *)
(* writes only columns left different from what the request loaded, fails  *)
(* as a whole when the only row it updates is gone (StaleDataError; of a   *)
(* batch of UPDATEs asyncpg reports no row count, and those that are gone  *)
(* are passed over) and when two rows would be the default (the partial    *)
(* index uq_portfolios_default_user).                                      *)
(*                                                                         *)
(* The bulk UPDATE of the default flag touches the rows it found when it   *)
(* began: the row locks it takes keep every other write of those rows      *)
(* until its commit, so the two are one step here, and rows inserted after *)
(* it began are not touched.                                               *)
(*                                                                         *)
(* A portfolio is its number in the order of creation (created_at); name   *)
(* and note decide nothing.                                                *)
(***************************************************************************)
EXTENDS Naturals, FiniteSets

CONSTANTS
    Requests,         \* requests that can be in flight together
    MaxPortfolios,    \* bound on the portfolios ever created
    MaxDeleteRaces    \* bound on deletions overlapping another write

ASSUME BoundsAreNat == MaxPortfolios \in Nat /\ MaxDeleteRaces \in Nat

VARIABLES
    born,        \* portfolios created so far
    live,        \* rows of the table
    default,     \* rows with is_default
    rank,        \* sort_order of each row
    pc,          \* of each request: the statement it is about to send
    me,          \* the portfolio it is about, or the one it promotes; 0: none
    next,        \* the portfolio a deletion promotes; 0: none
    slot,        \* the sort_order of the portfolio it creates
    rows,        \* rows found by its bulk UPDATE, or that its order moves
    goal,        \* the new sort_order of those
    overlapped,  \* requests another one overlapped so far
    deleteRaces

request == <<pc, me, next, slot, rows, goal>>
table   == <<born, live, default, rank>>
vars    == <<table, request, overlapped, deleteRaces>>

Ids == 1..MaxPortfolios

Writes  == {"clearForNew", "insertDefault", "insert", "clear", "promote",
            "heal", "healNew", "healFirst"}
Deletes == {"pick", "delete"}
Places  == {"idle", "order"} \cup Writes \cup Deletes

Unsorted == [p \in Ids |-> 0]

Init ==
    /\ born = 0 /\ live = {} /\ default = {} /\ rank = Unsorted
    /\ pc = [r \in Requests |-> "idle"]
    /\ me = [r \in Requests |-> 0] /\ next = [r \in Requests |-> 0]
    /\ slot = [r \in Requests |-> 0] /\ rows = [r \in Requests |-> {}]
    /\ goal = [r \in Requests |-> Unsorted]
    /\ overlapped = {} /\ deleteRaces = 0

-----------------------------------------------------------------------------
(* ORDER BY sort_order, created_at                                         *)
Before(p, q) == rank[p] < rank[q] \/ (rank[p] = rank[q] /\ p < q)
IsFirst(p, S) == p \in S /\ \A q \in S \ {p} : Before(p, q)

(* int(max_sort_order or -1) + 1: a maximum of 0 is taken for no maximum.  *)
AlwaysZero(top) == 0  \* mutant of NextRank
NextRank(top) == IF top = 0 THEN 0 ELSE top + 1

(* A deletion in flight together with another write of the default flag.   *)
DeleteRace(r, place) ==
    \E q \in Requests \ {r} :
       \/ place \in Deletes /\ pc[q] \in Writes \cup Deletes
       \/ place \in Writes /\ pc[q] \in Deletes

(* A request begins, next to those in flight.                              *)
Begin(r, place) ==
    LET inFlight == {q \in Requests \ {r} : pc[q] # "idle"} IN
    /\ pc[r] = "idle"
    /\ pc' = [pc EXCEPT ![r] = place]
    /\ overlapped' = IF inFlight = {} THEN overlapped \ {r}
                                      ELSE overlapped \cup inFlight \cup {r}
    /\ DeleteRace(r, place) => deleteRaces < MaxDeleteRaces
    /\ deleteRaces' =
         IF DeleteRace(r, place) THEN deleteRaces + 1 ELSE deleteRaces

Continue(r, place) ==
    pc' = [pc EXCEPT ![r] = place] /\ UNCHANGED <<overlapped, deleteRaces>>

(* The answer, or any failure before the commit took effect.               *)
End(r) ==
    /\ pc' = [pc EXCEPT ![r] = "idle"]
    /\ me' = [me EXCEPT ![r] = 0] /\ next' = [next EXCEPT ![r] = 0]
    /\ slot' = [slot EXCEPT ![r] = 0] /\ rows' = [rows EXCEPT ![r] = {}]
    /\ goal' = [goal EXCEPT ![r] = Unsorted]
    /\ overlapped' = overlapped \ {r}
    /\ UNCHANGED deleteRaces

GiveUp(r) == pc[r] # "idle" /\ End(r) /\ UNCHANGED table

(* The partial unique index: a commit may add p to the default rows, of     *)
(* which it clears or deletes those in `out'.                               *)
Conflict(out, p) == default \ (out \cup {p}) # {}
KeepsOthers(out, p) == default' = default \cup {p}  \* mutant of MakeDefault
MakeDefault(out, p) ==
    /\ ~ Conflict(out, p)
    /\ default' = (default \ out) \cup {p}

-----------------------------------------------------------------------------
(* create_portfolio: the maximum of sort_order, then with is_default or for *)
(* the first portfolio the bulk UPDATE, then the INSERT.                    *)
BeginCreate(r, wantsDefault) ==
    /\ born < MaxPortfolios
    /\ Begin(r, IF wantsDefault \/ live = {} THEN "clearForNew" ELSE "insert")
    /\ \/ live = {} /\ slot' = slot
       \/ \E p \in live : /\ \A q \in live : rank[q] <= rank[p]
                          /\ slot' = [slot EXCEPT ![r] = NextRank(rank[p])]
    /\ UNCHANGED <<table, me, next, rows, goal>>

FindsNothing(r) == {}  \* mutant of Found: the bulk UPDATE forgotten
Found(r) == live

ClearForNew(r) ==
    /\ pc[r] = "clearForNew"
    /\ rows' = [rows EXCEPT ![r] = Found(r)]
    /\ Continue(r, "insertDefault")
    /\ UNCHANGED <<table, me, next, slot, goal>>

AddRow(p, place) ==
    /\ born < MaxPortfolios /\ born' = p
    /\ live' = live \cup {p}
    /\ rank' = [rank EXCEPT ![p] = place]

InsertDefault(r) ==
    /\ pc[r] = "insertDefault"
    /\ MakeDefault(rows[r], born + 1)
    /\ AddRow(born + 1, slot[r])
    /\ End(r)

Insert(r) ==
    /\ pc[r] = "insert"
    /\ AddRow(born + 1, slot[r])
    /\ UNCHANGED default
    /\ End(r)

(* set_default_portfolio: the portfolio, the bulk UPDATE, its own UPDATE.   *)
BeginSetDefault(r, p) ==
    /\ p \in live
    /\ Begin(r, "clear")
    /\ me' = [me EXCEPT ![r] = p]
    /\ UNCHANGED <<table, next, slot, rows, goal>>

Clear(r) ==
    /\ pc[r] = "clear"
    /\ rows' = [rows EXCEPT ![r] = Found(r)]
    /\ Continue(r, "promote")
    /\ UNCHANGED <<table, me, next, slot, goal>>

Promote(r) ==
    /\ pc[r] = "promote"
    /\ me[r] \in live
    /\ MakeDefault(rows[r], me[r])
    /\ UNCHANGED <<born, live, rank>>
    /\ End(r)

(* reorder_portfolios: the submitted list has to be a permutation of the    *)
(* portfolios it loads; rows whose position does not change are not         *)
(* written.                                                                 *)
Orders(S) ==
    {f \in [Ids -> 0..MaxPortfolios] :
        /\ \A p \in S : f[p] < Cardinality(S)
        /\ \A p, q \in S : f[p] = f[q] => p = q
        /\ \A p \in Ids \ S : f[p] = 0}

BeginReorder(r) ==
    /\ Begin(r, "order")
    /\ \E f \in Orders(live) :
         LET moved == {p \in live : f[p] # rank[p]} IN
         /\ rows' = [rows EXCEPT ![r] = moved]
         /\ goal' = [goal EXCEPT ![r] = [p \in Ids |->
                                          IF p \in moved THEN f[p] ELSE 0]]
    /\ UNCHANGED <<table, me, next, slot>>

(* The single UPDATE of a commit finds no row.                              *)
Gone(S) == \E p \in S \ live : S = {p}

Reorder(r) ==
    /\ pc[r] = "order"
    /\ ~ Gone(rows[r])
    /\ rank' = [p \in Ids |-> IF p \in rows[r] \cap live THEN goal[r][p]
                                                        ELSE rank[p]]
    /\ UNCHANGED <<born, live, default>>
    /\ End(r)

(* delete_portfolio: the portfolio, and for a default one the first of the  *)
(* others; then the DELETE, the promotion and the commit.                   *)
BeginDelete(r, p) ==
    /\ p \in live
    /\ Begin(r, IF p \in default THEN "pick" ELSE "delete")
    /\ me' = [me EXCEPT ![r] = p]
    /\ UNCHANGED <<table, next, slot, rows, goal>>

(* Mutant of Pick: the deletion of a default portfolio promotes none.      *)
PicksNone(r) ==
    /\ pc[r] = "pick"
    /\ Continue(r, "delete")
    /\ UNCHANGED <<table, me, next, slot, rows, goal>>

Pick(r) ==
    /\ pc[r] = "pick"
    /\ LET rest == live \ {me[r]} IN
       \/ \E p \in rest :
             /\ IsFirst(p, rest)
             /\ next' = IF p \in default THEN next ELSE [next EXCEPT ![r] = p]
       \/ rest = {} /\ UNCHANGED next
    /\ Continue(r, "delete")
    /\ UNCHANGED <<table, me, slot, rows, goal>>

Delete(r) ==
    /\ pc[r] = "delete"
    /\ \/ /\ next[r] = 0
          /\ default' = default \ {me[r]}
       \/ /\ next[r] \in live
          /\ MakeDefault({me[r]}, next[r])
    /\ live' = live \ {me[r]}
    /\ rank' = [rank EXCEPT ![me[r]] = 0]
    /\ UNCHANGED born
    /\ End(r)

(* ensure_default_portfolio, which list_portfolios calls when it finds no   *)
(* portfolio and create_holding whenever it is given none.                  *)
BeginEnsure(r) ==
    /\ default = {}
    /\ Begin(r, "heal")
    /\ UNCHANGED <<table, me, next, slot, rows, goal>>

Heal(r) ==
    /\ pc[r] = "heal"
    /\ \/ live = {} /\ Continue(r, "healNew") /\ UNCHANGED me
       \/ \E p \in live : /\ IsFirst(p, live)
                          /\ me' = [me EXCEPT ![r] = p]
                          /\ Continue(r, "healFirst")
    /\ UNCHANGED <<table, next, slot, rows, goal>>

HealNew(r) ==
    /\ pc[r] = "healNew"
    /\ MakeDefault({}, born + 1)
    /\ AddRow(born + 1, 0)
    /\ End(r)

HealFirst(r) ==
    /\ pc[r] = "healFirst"
    /\ me[r] \in live
    /\ MakeDefault({}, me[r])
    /\ UNCHANGED <<born, live, rank>>
    /\ End(r)

-----------------------------------------------------------------------------
Request(r) ==
    \/ \E wantsDefault \in BOOLEAN : BeginCreate(r, wantsDefault)
    \/ ClearForNew(r) \/ InsertDefault(r) \/ Insert(r)
    \/ \E p \in live : BeginSetDefault(r, p) \/ BeginDelete(r, p)
    \/ Clear(r) \/ Promote(r)
    \/ BeginReorder(r) \/ Reorder(r)
    \/ Pick(r) \/ Delete(r)
    \/ BeginEnsure(r) \/ Heal(r) \/ HealNew(r) \/ HealFirst(r)
    \/ GiveUp(r)

Next == \E r \in Requests : Request(r)

Spec == Init /\ [][Next]_vars
-----------------------------------------------------------------------------
TypeOK ==
    /\ born \in 0..MaxPortfolios
    /\ live \subseteq 1..born /\ default \subseteq live
    /\ rank \in [Ids -> Nat]
    /\ pc \in [Requests -> Places]
    /\ me \in [Requests -> {0} \cup Ids] /\ next \in [Requests -> {0} \cup Ids]
    /\ slot \in [Requests -> Nat]
    /\ rows \in [Requests -> SUBSET Ids]
    /\ goal \in [Requests -> [Ids -> Nat]]
    /\ overlapped \subseteq Requests
    /\ deleteRaces \in Nat

(* "After the default portfolio is deleted a default is chosen again; with  *)
(* no portfolio left there may be none" (Portfolio-Management PRD 13.7).    *)
DefaultExists == live # {} => default # {}

(* The same while no deletion overlaps another write of the default flag:   *)
(* creations, changes of the default, reorderings and the lazy creation of  *)
(* the first portfolio may overlap one another as they like.                *)
DefaultSurvives == deleteRaces = 0 => DefaultExists

(* A request that nothing overlapped is never refused by its commit: the    *)
(* bulk UPDATE has made room for the new default in the unique index, the   *)
(* promoted portfolio is there, and there is no default to be in its way.   *)
Refused(r) ==
    \/ pc[r] = "insertDefault" /\ Conflict(rows[r], born + 1)
    \/ pc[r] = "promote" /\ (me[r] \notin live \/ Conflict(rows[r], me[r]))
    \/ pc[r] = "order" /\ Gone(rows[r])
    \/ /\ pc[r] = "delete" /\ next[r] # 0
       /\ next[r] \notin live \/ Conflict({me[r]}, next[r])
    \/ pc[r] = "healNew" /\ Conflict({}, born + 1)
    \/ pc[r] = "healFirst" /\ (me[r] \notin live \/ Conflict({}, me[r]))
AloneIsNotRefused == \A r \in Requests \ overlapped : ~ Refused(r)

(* A portfolio created while nothing overlapped comes last in the list,     *)
(* although two portfolios can have the same sort_order.                    *)
NewGoesLast ==
    [][\A r \in Requests \ overlapped :
          pc[r] \in {"insert", "insertDefault"} =>
          \A p \in live, q \in live' \ live : Before(p, q)']_vars
=============================================================================
