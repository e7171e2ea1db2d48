------------------------------ MODULE DataSources ------------------------------
(***************************************************************************)
(* One user's market-data sources (backend/app/settings): adding, editing, *)
(* authorising, testing, switching on and off, deleting, and the reads of  *)
(* the calendar, the radar and the overview, which renew a source's token. *)
(*                                                                         *)
(* Requests of one user overlap (two tabs, a test that waits for the       *)
(* upstream while the form is saved).  Each has a session of its own: it   *)
(* loads rows with SELECTs, decides on what it loaded, and its commit      *)
(* writes, row by row, only the columns it left different from what it     *)
(* loaded (the unit of work of the ORM, with READ COMMITTED underneath).   *)
(* A commit whose only UPDATE meets a deleted row fails; of several, those *)
(* of deleted rows are passed over, as asyncpg reports no row count then.  *)
(*                                                                         *)
(* A source's connection details are its address and its credentials; the  *)
(* rest of the form, and the other columns of a test, decide nothing.      *)
(***************************************************************************)
EXTENDS Naturals

CONSTANTS
    Sources,       \* rows that may be created
    OAuthSources,  \* those created by start_oauth
    Families,      \* module families: quotes and calendar
    FamilyOf,      \* the family of each source's provider type
    Urls, Creds,   \* addresses and credentials a form can hold
    None,          \* no source, no address, no credentials
    Requests,      \* requests that can be in flight together
    MaxRivals,     \* bound on activations that overlap one of their family
    MaxClashes     \* bound on edits overlapping a test, read or activation

ASSUME SourcesAreTyped ==
    /\ OAuthSources \subseteq Sources
    /\ FamilyOf \in [Sources -> Families]
    /\ None \notin Sources \cup Urls \cup Creds
ASSUME BoundsAreNat == MaxRivals \in Nat /\ MaxClashes \in Nat

VARIABLES
    live, gone,   \* ids of the rows in the table, and of deleted rows
    table,        \* id -> row
    op,           \* of each request: what it is doing, "idle" when free
    src, row,     \* its source, and the source's row as it was loaded
    others,       \* rows of the family it loaded as active
    tested,       \* sources whose present details have passed a test
    rivals, clashes

requests == <<op, src, row, others>>
races    == <<rivals, clashes>>
vars     == <<live, gone, table, requests, tested, races>>

Row == [active : {"on", "off"}, status : {"none", "success", "failed"},
        url : Urls \cup {None}, cred : Creds \cup {None}]
Unknown(u, c) ==  \* mutant of Fresh: a status the API does not declare
    [active |-> "off", status |-> "unknown", url |-> u, cred |-> c]
Fresh(u, c) ==
    [active |-> "off", status |-> "none", url |-> u, cred |-> c]
Blank == Fresh(None, None)

Details(w) == <<w.url, w.cred>>

Edits == {"update", "authorize"}
Uses  == {"test", "read", "activate", "activating"}
Ops   == {"idle", "deactivate", "delete"} \cup Edits \cup Uses

Init ==
    /\ live = {} /\ gone = {} /\ tested = {}
    /\ table = [s \in Sources |-> Blank]
    /\ op = [r \in Requests |-> "idle"]
    /\ src = [r \in Requests |-> None]
    /\ row = [r \in Requests |-> Blank]
    /\ others = [r \in Requests |-> {}]
    /\ rivals = 0 /\ clashes = 0

-----------------------------------------------------------------------------
(* One INSERT; a name taken meanwhile fails it.                             *)
Insert(s, u, c) ==
    /\ s \notin live \cup gone
    /\ table' = [table EXCEPT ![s] = Fresh(u, c)]
    /\ live' = live \cup {s}
    /\ UNCHANGED <<gone, requests, tested, races>>

Create(s) ==
    s \notin OAuthSources /\ \E u \in Urls, c \in Creds : Insert(s, u, c)

(* start_oauth for a new name: a source without an access token.  For a     *)
(* known source it only prepares the authorisation.                         *)
StartOAuth(s) ==
    s \in OAuthSources /\ \E u \in Urls : Insert(s, u, None)

-----------------------------------------------------------------------------
(* What the races are: an activation begun while another one of its family  *)
(* is in flight, and an edit of a source in flight together with a test, a  *)
(* read or an activation of that source.                                    *)
Activating(r) == op[r] \in {"activate", "activating"}

Rival(o, s) ==
    o = "activate" /\ \E q \in Requests :
        Activating(q) /\ FamilyOf[src[q]] = FamilyOf[s]

Clash(o, s) ==
    \E q \in Requests :
        /\ src[q] = s
        /\ \/ o \in Edits /\ op[q] \in Uses
           \/ o \in Uses /\ op[q] \in Edits

CountRaces(o, s) ==
    /\ Rival(o, s) => rivals < MaxRivals
    /\ rivals' = IF Rival(o, s) THEN rivals + 1 ELSE rivals
    /\ Clash(o, s) => clashes < MaxClashes
    /\ clashes' = IF Clash(o, s) THEN clashes + 1 ELSE clashes

(* get_owned_source, and the checks made on the row it returns.  A refused  *)
(* request changes nothing.                                                 *)
SkipsCheck(o, w) == TRUE  \* mutant of Accepted: activation of any source
Accepted(o, w) ==
    /\ o = "activate" => w.status = "success"
    /\ o \in {"deactivate", "read"} => w.active = "on"

Load(r, o, s) ==
    /\ op[r] = "idle" /\ s \in live
    /\ o \in Ops \ {"idle", "activating"}
    /\ o \in {"authorize", "read"} => s \in OAuthSources
    /\ Accepted(o, table[s])
    /\ CountRaces(o, s)
    /\ op' = [op EXCEPT ![r] = o]
    /\ src' = [src EXCEPT ![r] = s]
    /\ row' = [row EXCEPT ![r] = table[s]]
    /\ UNCHANGED <<live, gone, table, others, tested>>

(* activate_source loads the other sources of the module family; only those *)
(* that were active are going to be written.                                *)
Forgets(s) == {}  \* mutant of ActiveSiblings: the others are left alone
ActiveSiblings(s) ==
    {t \in live \ {s} : FamilyOf[t] = FamilyOf[s] /\ table[t].active = "on"}

LoadOthers(r) ==
    /\ op[r] = "activate"
    /\ op' = [op EXCEPT ![r] = "activating"]
    /\ others' = [others EXCEPT ![r] = ActiveSiblings(src[r])]
    /\ UNCHANGED <<live, gone, table, src, row, tested, races>>

(* The answer, or any failure on the way to it: an upstream error, a name   *)
(* already taken, a row deleted meanwhile, a client gone.                   *)
End(r) ==
    /\ op' = [op EXCEPT ![r] = "idle"]
    /\ src' = [src EXCEPT ![r] = None]
    /\ row' = [row EXCEPT ![r] = Blank]
    /\ others' = [others EXCEPT ![r] = {}]
    /\ UNCHANGED races

GiveUp(r) ==
    /\ op[r] # "idle"
    /\ End(r)
    /\ UNCHANGED <<live, gone, table, tested>>

-----------------------------------------------------------------------------
(* The UPDATE of one row: `now' is the row in the table, `old' as it was    *)
(* loaded, `new' as the handler left it.  Credentials are encrypted afresh  *)
(* whenever they are assigned, so an assignment always writes the column.   *)
Written(now, old, new, secretSet) ==
    [active |-> IF new.active # old.active THEN new.active ELSE now.active,
     status |-> IF new.status # old.status THEN new.status ELSE now.status,
     url    |-> IF new.url # old.url THEN new.url ELSE now.url,
     cred   |-> IF secretSet THEN new.cred ELSE now.cred]

Store(r, new, secretSet) ==
    /\ src[r] \in live
    /\ table' = [table EXCEPT ![src[r]] = Written(@, row[r], new, secretSet)]
    /\ UNCHANGED <<live, gone>>

(* _reset_connection_status                                                *)
KeepsOn(w, u, c) == [Fresh(u, c) EXCEPT !.active = w.active]  \* mutant of Reset
Reset(w, u, c)   == Fresh(u, c)

(* update_source with connectivity_changed: a new address, new credentials  *)
(* or both, or neither when the provider type moved within its family.      *)
(* Without it only the name is written, which is no step here.              *)
Update(r) ==
    /\ op[r] = "update"
    /\ \E u \in Urls, c \in Creds, secretSet \in BOOLEAN :
          Store(r, Reset(row[r], u, c), secretSet)
    /\ tested' = tested \ {src[r]}
    /\ End(r)

(* finish_oauth, after the code has been exchanged for a token.            *)
Authorize(r) ==
    /\ op[r] = "authorize"
    /\ \E c \in Creds : Store(r, Reset(row[r], row[r].url, c), TRUE)
    /\ tested' = tested \ {src[r]}
    /\ End(r)

(* A test that passed speaks for the details it ran with, if these are the  *)
(* ones in the table; details that changed have passed none.                *)
Judge(r, passed) ==
    LET s == src[r] IN
    tested' = IF passed /\ Details(table'[s]) = Details(row[r])
                THEN tested \cup {s}
              ELSE IF Details(table'[s]) # Details(table[s])
                THEN tested \ {s}
              ELSE tested

(* test_source_connection with its upstream call on the loaded details.  A  *)
(* test of an OAuth source may first renew the access token, which stores   *)
(* the loaded credentials again; without a token it fails at once.          *)
Test(r) ==
    /\ op[r] = "test"
    /\ \E status \in {"success", "failed"}, renewed \in BOOLEAN :
         /\ status = "success" \/ renewed => row[r].cred # None
         /\ renewed => src[r] \in OAuthSources
         /\ Store(r, [row[r] EXCEPT !.status = status], renewed)
         /\ Judge(r, status = "success")
    /\ End(r)

(* A read of the calendar, the radar or the market temperature through an   *)
(* active OAuth source whose token has run out.                             *)
Renew(r) ==
    /\ op[r] = "read" /\ row[r].cred # None
    /\ Store(r, row[r], TRUE)
    /\ Judge(r, FALSE)
    /\ End(r)

(* The single UPDATE of a commit finds no row.                              *)
Missed(rows) == \E t \in rows \ live : rows = {t}

(* The commit of activate_source writes the source and the rows it loaded  *)
(* as active.                                                              *)
Activate(r) ==
    LET s   == src[r]
        new == [row[r] EXCEPT !.active = "on"]
    IN
    /\ op[r] = "activating"
    /\ ~ Missed(others[r] \cup IF new # row[r] THEN {s} ELSE {})
    /\ table' = [t \in Sources |->
                   IF t = s /\ s \in live
                     THEN Written(table[t], row[r], new, FALSE)
                   ELSE IF t \in others[r] \cap live
                     THEN [table[t] EXCEPT !.active = "off"]
                   ELSE table[t]]
    /\ UNCHANGED <<live, gone, tested>>
    /\ End(r)

Deactivate(r) ==
    /\ op[r] = "deactivate"
    /\ Store(r, [row[r] EXCEPT !.active = "off"], FALSE)
    /\ UNCHANGED tested
    /\ End(r)

(* A DELETE of a row that is gone already goes unnoticed.                  *)
Delete(r) ==
    /\ op[r] = "delete"
    /\ live' = live \ {src[r]} /\ gone' = gone \cup {src[r]}
    /\ table' = [table EXCEPT ![src[r]] = Blank]
    /\ tested' = tested \ {src[r]}
    /\ End(r)

-----------------------------------------------------------------------------
Request(r) ==
    \/ \E o \in Ops, s \in Sources : Load(r, o, s)
    \/ LoadOthers(r)
    \/ Update(r) \/ Authorize(r) \/ Test(r) \/ Renew(r)
    \/ Activate(r) \/ Deactivate(r) \/ Delete(r)
    \/ GiveUp(r)

Next ==
    \/ \E s \in Sources : Create(s) \/ StartOAuth(s)
    \/ \E r \in Requests : Request(r)

Spec == Init /\ [][Next]_vars
-----------------------------------------------------------------------------
TypeOK ==
    /\ live \subseteq Sources /\ gone \subseteq Sources
    /\ tested \subseteq Sources
    /\ table \in [Sources -> Row]
    /\ op \in [Requests -> Ops]
    /\ src \in [Requests -> Sources \cup {None}]
    /\ row \in [Requests -> Row]
    /\ others \in [Requests -> SUBSET Sources]
    /\ rivals \in Nat /\ clashes \in Nat

On(s) == s \in live /\ table[s].active = "on"

(* "retain one active source inside each module family" (activate_source):  *)
(* whatever else runs in between.                                           *)
OneActive ==
    \A s, t \in Sources :
        On(s) /\ On(t) /\ FamilyOf[s] = FamilyOf[t] => s = t

(* As long as no two activations of a family overlap, edits, tests,         *)
(* deletions and deactivations can interleave with an activation as they    *)
(* like and there is still at most one active source per family.            *)
OneActiveWithoutRivals == rivals = 0 => OneActive

(* Data is only read through a source whose present connection details have *)
(* passed a test: an edit or a new authorisation takes the source out of    *)
(* use until it is tested again.  Needs that no edit overlaps a test, a     *)
(* read or an activation of the same source, and nothing else.              *)
ActiveIsTested == clashes = 0 => \A s \in Sources : On(s) => s \in tested

=============================================================================
