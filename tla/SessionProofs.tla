---------------------------- MODULE SessionProofs ----------------------------
(***************************************************************************)
(* Session for any accounts, sessions and bounds.  Known says what a       *)
(* request in flight knows: whose session it was authorised with.  It is   *)
(* needed because the commit of a request extends that very row, and       *)
(* PasswordInv because an expired session may be extended as well: it is   *)
(* about every row that is not revoked, accepted or not.                   *)
(***************************************************************************)
EXTENDS Session, TLAPS

Known(r) ==
    /\ r.phase \in {"sent", "checked"} /\ r.kind = "login" => r.user \in Users
    /\ r.phase = "ok" /\ r.kind = "read" => r.user \in Users
    /\ r.phase = "checked" /\ r.kind # "login" =>
          /\ r.sid \in Sessions /\ r.user \in Users
          /\ sessions[r.sid].user = r.user

RowInv == \A s \in Sessions : sessions[s].live => sessions[s].user \in Users
ReqInv == \A k \in Slots : Known(req[k])

IInv == TypeOK /\ RowInv /\ ReqInv

PasswordInv ==
    \A s \in Sessions :
        /\ sessions[s].user \in Users /\ ~sessions[s].revoked
        /\ sessions[s].made # password[sessions[s].user]
        => sessions[s].overlapped

-----------------------------------------------------------------------------
(* An answered request is a request, and knows nothing of a session.        *)
LEMMA AnswerIsRequest ==
    ASSUME NEW r \in Request, NEW phase \in Answers
    PROVE  /\ Answer(r, phase) \in Request
           /\ Answer(r, phase).phase = phase /\ Answer(r, phase).kind = r.kind
           /\ Answer(r, phase).user = None /\ Answer(r, phase).sid = None
<1>1. r.kind \in Kinds
  BY DEF Request
<1>2. 0 \in 0..MaxChanges
  BY SessionAssumption
<1>3. /\ Answer(r, phase).phase = phase /\ Answer(r, phase).kind = r.kind
      /\ Answer(r, phase).sid = None /\ Answer(r, phase).user = None
      /\ Answer(r, phase).pw = 0
  BY DEF Answer, Idle
<1>4. Answer(r, phase) \in Request
  BY <1>1, <1>2 DEF Answer, Idle, Request
<1>5. QED
  BY <1>3, <1>4

LEMMA IdleIsRequest == Idle \in Request /\ Idle.phase = "idle"
  BY SessionAssumption DEF Idle, Request, Kinds

(* Rows keep their types and their owners when one is extended, or when     *)
(* those of an account are revoked.                                         *)
LEMMA RowsAreKept ==
    ASSUME NEW rows \in [Sessions -> Row], NEW u \in Users
    PROVE  /\ RevokedFor(rows, u) \in [Sessions -> Row]
           /\ \A s \in Sessions :
                 /\ RevokedFor(rows, u)[s].user = rows[s].user
                 /\ RevokedFor(rows, u)[s].live = rows[s].live
                 /\ RevokedFor(rows, u)[s].made = rows[s].made
                 /\ RevokedFor(rows, u)[s].overlapped = rows[s].overlapped
                 /\ rows[s].revoked => RevokedFor(rows, u)[s].revoked
                 /\ rows[s].user = u => RevokedFor(rows, u)[s].revoked
                 /\ rows[s].user # u => RevokedFor(rows, u)[s] = rows[s]
  BY DEF RevokedFor, Row

LEMMA ExtensionKeeps ==
    ASSUME TypeOK, NEW s \in Sessions
    PROVE  /\ Extended(s) \in [Sessions -> Row]
           /\ \A t \in Sessions :
                 /\ Extended(s)[t].user = sessions[t].user
                 /\ Extended(s)[t].made = sessions[t].made
                 /\ Extended(s)[t].revoked = sessions[t].revoked
                 /\ Extended(s)[t].overlapped = sessions[t].overlapped
                 /\ t # s => Extended(s)[t] = sessions[t]
  BY DEF TypeOK, Extended, Row

-----------------------------------------------------------------------------
(* What is left of the requests when the page drops its reads.              *)
LEMMA DropsKeep ==
    ASSUME NEW r \in [Slots -> Request], \A k \in Slots : Known(r[k])
    PROVE  /\ Unread(r) \in [Slots -> Request] /\ WithoutQueries(r) \in [Slots -> Request]
           /\ \A k \in Slots : Known(Unread(r)[k]) /\ Known(WithoutQueries(r)[k])
<1>1. Known(Idle)
  BY IdleIsRequest DEF Known
<1>2. Unread(r) \in [Slots -> Request] /\ \A k \in Slots : Known(Unread(r)[k])
  <2>1. \A k \in Slots : Unread(r)[k] \in {r[k], Idle}
    BY DEF Unread, Slots
  <2>2. Unread(r) \in [Slots -> Request]
    BY IdleIsRequest, <2>1 DEF Unread
  <2>3. QED
    BY <1>1, <2>1, <2>2
<1>3. \A k \in Slots : WithoutQueries(r)[k] \in {Unread(r)[k], Idle}
  BY <1>2 DEF WithoutQueries
<1>4. WithoutQueries(r) \in [Slots -> Request]
  BY <1>2, IdleIsRequest DEF WithoutQueries
<1>5. QED
  BY <1>1, <1>2, <1>3, <1>4

(* A step that leaves every row with its owner need only be looked at       *)
(* request by request.                                                      *)
LEMMA OwnersStay ==
    ASSUME IInv,
           \A s \in Sessions : sessions[s].user \in Users => sessions'[s].user = sessions[s].user,
           \A s \in Sessions : sessions'[s].live => sessions'[s].user \in Users,
           \A k \in Slots : req'[k] = req[k] \/ Known(req'[k])
    PROVE  RowInv' /\ ReqInv'
<1>1. \A k \in Slots : Known(req'[k])
  BY DEF IInv, ReqInv
<1>2. ReqInv'
  BY <1>1 DEF ReqInv, Known
<1>3. QED
  BY <1>2 DEF RowInv

(* A new request of the page.                                               *)
LEMMA SentIsRequest ==
    ASSUME TypeOK, NEW k \in Slots, NEW kind \in Kinds, NEW u \in Users \cup {None},
           kind = "login" => u \in Users
    PROVE  /\ Sent(k, kind, u) \in [Slots -> Request]
           /\ \A j \in Slots : Sent(k, kind, u)[j] = req[j] \/ Known(Sent(k, kind, u)[j])
<1> DEFINE r == [phase |-> "sent", kind |-> kind, sid |-> cookie, user |-> u, pw |-> 0]
<1>1. r \in Request
  BY SessionAssumption DEF Request, TypeOK
<1>2. Known(r)
  BY DEF Known
<1>3. QED
  BY <1>1, <1>2 DEF Sent, TypeOK

-----------------------------------------------------------------------------
(* Every step keeps the types, and what requests know of their sessions.    *)
(* First what the server does.                                              *)
LEMMA ServerStepKeeps ==
    ASSUME IInv, NEW k \in Slots, ServerStep(k) PROVE IInv'
<1> USE SessionAssumption
<1>0. /\ TypeOK /\ RowInv /\ req \in [Slots -> Request] /\ req[k] \in Request
      /\ Known(req[k])
  BY DEF IInv, TypeOK, ReqInv
<1>1. CASE Authorise(k) /\ Valid(req[k].sid)
  <2>1. /\ req[k].sid \in Sessions /\ sessions[req[k].sid].user \in Users
        /\ req[k].kind # "login"
    BY <1>0, <1>1 DEF Valid, Request, RowInv, Authorise
  <2> DEFINE r == [req[k] EXCEPT !.phase = "checked", !.user = sessions[req[k].sid].user]
  <2>2. req' = [req EXCEPT ![k] = r]
    BY <1>1 DEF Authorise
  <2>3. /\ r \in Request
        /\ r.sid = req[k].sid /\ r.phase = "checked" /\ r.kind = req[k].kind
        /\ r.user = sessions[req[k].sid].user
    BY <1>0, <2>1 DEF Request
  <2>4. Known(r)
    BY <2>1, <2>3 DEF Known
  <2>5. TypeOK'
    BY <1>0, <1>1, <2>2, <2>3 DEF TypeOK, Authorise, server, client
  <2>6. sessions' = sessions /\ \A j \in Slots : req'[j] = req[j] \/ Known(req'[j])
    BY <1>0, <1>1, <2>2, <2>4 DEF Authorise, server
  <2>7. QED
    BY <1>0, <2>5, <2>6, OwnersStay DEF IInv, RowInv
<1>2. CASE Authorise(k) /\ ~Valid(req[k].sid)
  <2>1. req' = [req EXCEPT ![k] = Answer(req[k], "denied")]
    BY <1>2 DEF Authorise
  <2>2. Answer(req[k], "denied") \in Request /\ Known(Answer(req[k], "denied"))
    BY <1>0, AnswerIsRequest DEF Known, Answers
  <2>3. TypeOK'
    BY <1>0, <1>2, <2>1, <2>2 DEF TypeOK, Authorise, server, client
  <2>4. sessions' = sessions /\ \A j \in Slots : req'[j] = req[j] \/ Known(req'[j])
    BY <1>0, <1>2, <2>1, <2>2 DEF Authorise, server
  <2>5. QED
    BY <1>0, <2>3, <2>4, OwnersStay DEF IInv, RowInv
<1>3. CASE Serve(k)
  <2> DEFINE sid == req[k].sid
  <2> DEFINE r == [Answer(req[k], "ok") EXCEPT !.user = req[k].user]
  <2>1. sid \in Sessions /\ req[k].user \in Users /\ sessions[sid].user = req[k].user
    BY <1>0, <1>3 DEF Serve, Known
  <2>2. sessions' = Extended(sid) /\ req' = [req EXCEPT ![k] = r]
    BY <1>3 DEF Serve
  <2>3. r \in Request /\ Known(r)
    <3>1. /\ Answer(req[k], "ok") \in Request /\ Answer(req[k], "ok").phase = "ok"
      BY <1>0, AnswerIsRequest DEF Answers
    <3>2. r \in Request /\ r.phase = "ok" /\ r.user = req[k].user
      BY <2>1, <3>1 DEF Request
    <3>3. QED
      BY <2>1, <3>2 DEF Known
  <2>4. TypeOK'
    BY <1>0, <1>3, <2>1, <2>2, <2>3, ExtensionKeeps DEF TypeOK, Serve, client
  <2>5. /\ \A s \in Sessions : sessions'[s].user = sessions[s].user
        /\ \A s \in Sessions : sessions'[s].live => sessions'[s].user \in Users
    <3>1. \A s \in Sessions : sessions'[s].user = sessions[s].user
      BY <1>0, <2>1, <2>2, ExtensionKeeps
    <3>2. \A s \in Sessions \ {sid} : sessions'[s] = sessions[s]
      BY <1>0, <2>1, <2>2, ExtensionKeeps
    <3>3. QED
      BY <1>0, <2>1, <3>1, <3>2 DEF RowInv
  <2>6. \A j \in Slots : req'[j] = req[j] \/ Known(req'[j])
    BY <1>0, <2>2, <2>3
  <2>7. QED
    BY <2>4, <2>5, <2>6, OwnersStay DEF IInv
<1>4. QED
  BY <1>1, <1>2, <1>3 DEF ServerStep

LEMMA AccountStepKeeps ==
    ASSUME IInv, AccountStep PROVE IInv'
<1> USE SessionAssumption
<1> DEFINE a == req["account"]
<1>0. /\ TypeOK /\ RowInv /\ req \in [Slots -> Request] /\ a \in Request /\ Known(a)
      /\ "account" \in Slots
  BY DEF IInv, TypeOK, ReqInv, Slots
<1>1. /\ Answer(a, "ok") \in Request /\ Answer(a, "failed") \in Request
      /\ Known(Answer(a, "failed"))
      /\ a.kind # "read" => Known(Answer(a, "ok"))
  BY <1>0, AnswerIsRequest DEF Known, Answers
<1>2. CASE VerifyLogin
  <2>1. a.user \in Users
    BY <1>0, <1>2 DEF VerifyLogin, Known
  <2> DEFINE r == [a EXCEPT !.phase = "checked", !.pw = password[a.user]]
  <2>2. r \in Request /\ Known(r)
    <3>1. r \in Request /\ r.phase = "checked" /\ r.kind = "login" /\ r.user = a.user
      BY <1>0, <1>2, <2>1 DEF Request, TypeOK, VerifyLogin
    <3>2. QED
      BY <2>1, <3>1 DEF Known
  <2>3. req' \in [Slots -> Request] /\ \A j \in Slots : req'[j] = req[j] \/ Known(req'[j])
    <3>1. CASE req' = [req EXCEPT !["account"] = r]
      BY <1>0, <2>2, <3>1
    <3>2. CASE req' = [req EXCEPT !["account"] = Answer(a, "failed")]
      BY <1>0, <1>1, <3>2
    <3>3. req' = [req EXCEPT !["account"] = r]
            \/ req' = [req EXCEPT !["account"] = Answer(a, "failed")]
      BY <1>0, <1>2 DEF VerifyLogin
    <3>4. QED
      BY <3>1, <3>2, <3>3
  <2>4. TypeOK' /\ sessions' = sessions
    BY <1>0, <1>2, <2>3 DEF TypeOK, VerifyLogin, server, client
  <2>5. QED
    BY <1>0, <2>3, <2>4, OwnersStay DEF IInv, RowInv
<1>3. CASE CommitLogin
  <2>1. PICK s \in Sessions :
          /\ sessions[s] = Unused
          /\ sessions' = [sessions EXCEPT ![s] =
                 [user |-> a.user, made |-> a.pw, live |-> TRUE, revoked |-> FALSE,
                  overlapped |-> a.pw # password[a.user]]]
          /\ req' = [req EXCEPT !["account"] =
                 [Answer(a, "ok") EXCEPT !.user = a.user, !.sid = s]]
    BY <1>3 DEF CommitLogin
  <2>2. a.user \in Users /\ a.kind = "login" /\ a.pw \in 0..MaxChanges
    BY <1>0, <1>3 DEF CommitLogin, Known, Request
  <2> DEFINE r == [Answer(a, "ok") EXCEPT !.user = a.user, !.sid = s]
  <2>3. r \in Request /\ Known(r)
    <3>1. r \in Request
      BY <1>1, <2>2 DEF Request
    <3>2. r.kind = "login" /\ r.phase = "ok"
      BY <1>0, <2>2, AnswerIsRequest DEF Answers, Answer, Idle
    <3>3. QED
      BY <3>1, <3>2 DEF Known
  <2>4. sessions' \in [Sessions -> Row]
    <3>1. (a.pw # password[a.user]) \in BOOLEAN
      OBVIOUS
    <3>2. QED
      BY <1>0, <2>1, <2>2, <3>1 DEF TypeOK, Row
  <2>5. TypeOK'
    BY <1>0, <1>3, <2>1, <2>3, <2>4 DEF TypeOK, CommitLogin, client
  <2>6. /\ \A t \in Sessions : sessions[t].user \in Users => sessions'[t].user = sessions[t].user
        /\ \A t \in Sessions : sessions'[t].live => sessions'[t].user \in Users
    BY <1>0, <2>1, <2>2 DEF RowInv, TypeOK, Unused
  <2>7. \A j \in Slots : req'[j] = req[j] \/ Known(req'[j])
    BY <1>0, <2>1, <2>3
  <2>8. QED
    BY <2>5, <2>6, <2>7, OwnersStay DEF IInv
<1>4. CASE CommitLogout
  <2>1. a.sid \in Sessions /\ sessions[a.sid].user \in Users
    BY <1>0, <1>4 DEF CommitLogout, Known
  <2>2. /\ sessions' = [Extended(a.sid) EXCEPT ![a.sid].revoked = TRUE]
        /\ req' = [req EXCEPT !["account"] = Answer(a, "ok")] /\ a.kind = "logout"
    BY <1>4 DEF CommitLogout
  <2>3. Extended(a.sid) \in [Sessions -> Row]
    BY <1>0, <2>1, ExtensionKeeps
  <2>4. TypeOK'
    <3>1. sessions' \in [Sessions -> Row]
      <4>1. [Extended(a.sid)[a.sid] EXCEPT !.revoked = TRUE] \in Row
        BY <2>1, <2>3 DEF Row
      <4>2. QED
        BY <2>1, <2>2, <2>3, <4>1
    <3>2. QED
      BY <1>0, <1>1, <1>4, <2>2, <3>1 DEF TypeOK, CommitLogout, client
  <2>5. /\ \A s \in Sessions : sessions'[s].user = sessions[s].user
        /\ \A s \in Sessions \ {a.sid} : sessions'[s] = sessions[s]
    <3>1. \A s \in Sessions : sessions'[s].user = Extended(a.sid)[s].user
      BY <2>1, <2>2, <2>3 DEF Row
    <3>2. \A s \in Sessions \ {a.sid} : sessions'[s] = Extended(a.sid)[s]
      BY <2>1, <2>2, <2>3
    <3>3. QED
      BY <1>0, <2>1, <3>1, <3>2, ExtensionKeeps
  <2>6. \A j \in Slots : req'[j] = req[j] \/ Known(req'[j])
    BY <1>0, <1>1, <2>2
  <2>7. QED
    BY <1>0, <2>1, <2>4, <2>5, <2>6, OwnersStay DEF IInv, RowInv
<1>5. CASE CommitChange
  <2>1. a.sid \in Sessions /\ sessions[a.sid].user \in Users /\ a.user \in Users
    BY <1>0, <1>5 DEF CommitChange, Known
  <2>2. /\ Extended(a.sid) \in [Sessions -> Row]
        /\ \A s \in Sessions : Extended(a.sid)[s].user = sessions[s].user
        /\ \A s \in Sessions \ {a.sid} : Extended(a.sid)[s] = sessions[s]
    BY <1>0, <2>1, ExtensionKeeps
  <2>3. /\ password' \in [Users -> 0..MaxChanges] /\ sessions' \in [Sessions -> Row]
        /\ \A s \in Sessions : sessions'[s].user = Extended(a.sid)[s].user
        /\ \A s \in Sessions : sessions'[s].live = Extended(a.sid)[s].live
        /\ \/ req' = [req EXCEPT !["account"] = Answer(a, "ok")]
           \/ req' = [req EXCEPT !["account"] = Answer(a, "failed")]
    <3>1. CASE /\ password[a.user] < MaxChanges
               /\ password' = [password EXCEPT ![a.user] = @ + 1]
               /\ sessions' = RevokedFor(Extended(a.sid), a.user)
               /\ req' = [req EXCEPT !["account"] = Answer(a, "ok")]
      <4>1. password[a.user] + 1 \in 0..MaxChanges
        BY <1>0, <2>1, <3>1 DEF TypeOK
      <4>2. password' \in [Users -> 0..MaxChanges]
        BY <1>0, <2>1, <3>1, <4>1 DEF TypeOK
      <4>3. QED
        BY <2>1, <2>2, <3>1, <4>2, RowsAreKept
    <3>2. CASE /\ sessions' = Extended(a.sid) /\ password' = password
               /\ req' = [req EXCEPT !["account"] = Answer(a, "failed")]
      BY <1>0, <2>2, <3>2 DEF TypeOK
    <3>3. QED
      BY <1>5, <3>1, <3>2 DEF CommitChange
  <2>4. /\ req' \in [Slots -> Request] /\ a.kind = "change"
        /\ \A j \in Slots : req'[j] = req[j] \/ Known(req'[j])
    BY <1>0, <1>1, <1>5, <2>3 DEF CommitChange
  <2>5. TypeOK'
    BY <1>0, <1>5, <2>3, <2>4 DEF TypeOK, CommitChange, client
  <2>6. QED
    BY <1>0, <2>1, <2>2, <2>3, <2>4, <2>5, OwnersStay DEF IInv, RowInv
<1>6. QED
  BY <1>2, <1>3, <1>4, <1>5 DEF AccountStep

(* What other devices and the clock do to the rows.                         *)
LEMMA ElsewhereKeeps ==
    ASSUME IInv, \/ \E u \in Users : ChangeElsewhere(u)
                 \/ \E s \in Sessions : Expire(s) \/ LogoutElsewhere(s)
    PROVE  IInv'
<1> USE SessionAssumption
<1>0. TypeOK /\ RowInv
  BY DEF IInv
<1>1. ASSUME NEW u \in Users, ChangeElsewhere(u) PROVE IInv'
  <2>1. password[u] + 1 \in 0..MaxChanges /\ sessions \in [Sessions -> Row]
    BY <1>0, <1>1 DEF ChangeElsewhere, TypeOK
  <2>2. /\ sessions' \in [Sessions -> Row]
        /\ \A s \in Sessions : sessions'[s].user = sessions[s].user
        /\ \A s \in Sessions : sessions'[s].live = sessions[s].live
    BY <1>1, <2>1, RowsAreKept DEF ChangeElsewhere
  <2>3. TypeOK' /\ req' = req
    BY <1>0, <1>1, <2>1, <2>2 DEF ChangeElsewhere, Fault, TypeOK, client
  <2>4. QED
    BY <1>0, <2>2, <2>3, OwnersStay DEF IInv, RowInv
<1>2. ASSUME NEW s \in Sessions, Expire(s) \/ LogoutElsewhere(s) PROVE IInv'
  <2>1. /\ [sessions[s] EXCEPT !.live = FALSE] \in Row
        /\ [sessions[s] EXCEPT !.revoked = TRUE] \in Row
    <3>1. sessions[s] \in Row
      BY <1>0 DEF TypeOK
    <3>2. \A r \in Row : [r EXCEPT !.live = FALSE] \in Row
      BY DEF Row
    <3>3. \A r \in Row : [r EXCEPT !.revoked = TRUE] \in Row
      BY DEF Row
    <3>4. QED
      BY <3>1, <3>2, <3>3
  <2>2. \/ sessions' = [sessions EXCEPT ![s].live = FALSE]
        \/ sessions' = [sessions EXCEPT ![s].revoked = TRUE]
    BY <1>2 DEF Expire, LogoutElsewhere
  <2>3. sessions' \in [Sessions -> Row]
    BY <1>0, <2>1, <2>2 DEF TypeOK
  <2>4. /\ \A t \in Sessions : sessions'[t].user = sessions[t].user
        /\ \A t \in Sessions : sessions'[t].live => sessions[t].live
    <3>1. sessions \in [Sessions -> Row] /\ \A t \in Sessions \ {s} : sessions'[t] = sessions[t]
      BY <1>0, <2>2 DEF TypeOK
    <3>2. /\ sessions'[s].user = sessions[s].user
          /\ sessions'[s].live => sessions[s].live
      BY <2>2, <3>1 DEF Row
    <3>3. QED
      BY <3>1, <3>2
  <2>5. TypeOK' /\ req' = req
    BY <1>0, <1>2, <2>3 DEF Expire, LogoutElsewhere, Fault, TypeOK, client
  <2>6. QED
    BY <1>0, <2>4, <2>5, OwnersStay DEF IInv, RowInv
<1>3. QED
  BY <1>1, <1>2

(* The page sends.                                                          *)
LEMMA SendingKeeps ==
    ASSUME IInv,
           \/ SendMe \/ \E kind \in {"read", "write"} : SendData(kind)
           \/ \E u \in Users : SubmitLogin(u)
           \/ \E kind \in {"logout", "change"} : SubmitAccount(kind)
    PROVE  IInv'
<1>0. TypeOK /\ RowInv /\ None \notin Users /\ Slots = {"me", "data", "account"}
  BY SessionAssumption DEF IInv, Slots
<1>1. \E k \in Slots, kind \in Kinds, u \in Users \cup {None} :
          (kind = "login" => u \in Users) /\ req' = Sent(k, kind, u)
  <2>1. CASE SendMe
    BY <1>0, <2>1 DEF SendMe, Kinds
  <2>2. CASE \E kind \in {"read", "write"} : SendData(kind)
    BY <1>0, <2>2 DEF SendData, Kinds
  <2>3. CASE \E u \in Users : SubmitLogin(u)
    BY <1>0, <2>3 DEF SubmitLogin, Kinds
  <2>4. CASE \E kind \in {"logout", "change"} : SubmitAccount(kind)
    BY <1>0, <2>4 DEF SubmitAccount, Kinds
  <2>5. QED
    BY <2>1, <2>2, <2>3, <2>4
<1>2. req' \in [Slots -> Request] /\ \A j \in Slots : req'[j] = req[j] \/ Known(req'[j])
  BY <1>0, <1>1, SentIsRequest
<1>3. UNCHANGED <<server, cookie, page, cache, faults>>
  BY DEF SendMe, SendData, SubmitLogin, SubmitAccount, client
<1>4. me' \in [data : Users \cup {SignedOut, None}, error : BOOLEAN]
  <2>1. CASE SendMe
    <3>1. [me EXCEPT !.error = @ /\ me.data # None]
              \in [data : Users \cup {SignedOut, None}, error : BOOLEAN]
      BY <1>0 DEF TypeOK
    <3>2. QED
      BY <2>1, <3>1 DEF SendMe
  <2>2. CASE UNCHANGED me
    BY <1>0, <2>2 DEF TypeOK
  <2>3. QED
    BY <2>1, <2>2 DEF SendData, SubmitLogin, SubmitAccount, client
<1>5. TypeOK'
  BY <1>0, <1>2, <1>3, <1>4 DEF TypeOK, server
<1>6. QED
  BY <1>0, <1>2, <1>3, <1>5, OwnersStay DEF IInv, RowInv, server

(* The page receives, or loses, or moves.                                   *)
LEMMA PageStepKeeps ==
    ASSUME IInv,
           \/ AuthRedirect \/ GuestRedirect \/ Reload
           \/ ReceiveMe \/ ReceiveData \/ ReceiveAccount
           \/ \E k \in Slots : Lose(k)
    PROVE  IInv'
<1> USE SessionAssumption
<1> DEFINE Session == [data : Users \cup {SignedOut, None}, error : BOOLEAN]
<1> DEFINE Answering(k) == [req EXCEPT ![k] = Idle]
<1>0. /\ TypeOK /\ RowInv /\ Slots = {"me", "data", "account"}
      /\ req \in [Slots -> Request] /\ \A k \in Slots : Known(req[k])
  BY DEF IInv, TypeOK, ReqInv, Slots
<1>1. /\ \A u \in Users \cup {None, SignedOut} : Is(u) \in Session
      /\ Cleared \subseteq Users /\ me \in Session
  BY <1>0 DEF Is, Cleared, TypeOK
<1>2. Idle \in Request /\ Known(Idle)
  BY IdleIsRequest DEF Known
<1>3. \A k \in Slots : /\ Answering(k) \in [Slots -> Request]
                       /\ \A j \in Slots : Known(Answering(k)[j])
  BY <1>0, <1>2
<1>4. \A k \in Slots : /\ Unread(Answering(k)) \in [Slots -> Request]
                       /\ WithoutQueries(Answering(k)) \in [Slots -> Request]
                       /\ WithoutQueries(Unread(Answering(k))) \in [Slots -> Request]
                       /\ \A j \in Slots : /\ Known(Unread(Answering(k))[j])
                                           /\ Known(WithoutQueries(Answering(k))[j])
                                           /\ Known(WithoutQueries(Unread(Answering(k)))[j])
  BY <1>3, DropsKeep
<1>5. WithoutQueries(req) \in [Slots -> Request] /\ \A j \in Slots : Known(WithoutQueries(req)[j])
  BY <1>0, DropsKeep
<1> HIDE DEF Answering
<1>6. /\ UNCHANGED server /\ cookie' \in Sessions \cup {None} /\ page' \in {"login", "app"}
      /\ me' \in Session /\ cache' \subseteq Users /\ faults' \in 0..MaxFaults
      /\ req' \in [Slots -> Request] /\ \A j \in Slots : Known(req'[j])
  <2> USE <1>0, <1>1
  <2>1. CASE AuthRedirect \/ GuestRedirect
    BY <1>5, <2>1 DEF AuthRedirect, GuestRedirect, GoTo, TypeOK
  <2>2. CASE Reload
    <3>1. req' \in [Slots -> Request] /\ \A j \in Slots : req'[j] = Idle
      BY <1>2, <2>2 DEF Reload
    <3>2. me' \in Session
      BY <2>2 DEF Reload
    <3>3. QED
      BY <1>2, <2>2, <3>1, <3>2 DEF Reload, Fault, GoTo, TypeOK
  <2>3. CASE ReceiveMe
    <3>1. [me EXCEPT !.error = TRUE] \in Session /\ req["me"].user \in Users \cup {None}
      BY DEF Request
    <3>2. me' \in Session
      BY <2>3, <3>1 DEF ReceiveMe
    <3>3. QED
      BY <1>3, <2>3, <3>2 DEF ReceiveMe, TypeOK, Answering
  <2>4. CASE ReceiveData
    <3>1. /\ req["data"].phase = "ok" /\ req["data"].kind = "read" => req["data"].user \in Users
      BY DEF Known
    <3>2. cache' \subseteq Users /\ me' \in Session
      BY <2>4, <3>1 DEF ReceiveData, Unauthorised, TypeOK
    <3>3. req' \in {Answering("data"), Unread(Answering("data"))}
      BY <2>4 DEF ReceiveData, Unauthorised, Answering
    <3>4. req' \in [Slots -> Request] /\ \A j \in Slots : Known(req'[j])
      BY <1>3, <1>4, <3>3
    <3>5. QED
      BY <2>4, <3>2, <3>4 DEF ReceiveData, TypeOK
  <2>5. CASE ReceiveAccount
    <3>1. req["account"].sid \in Sessions \cup {None} /\ req["account"].user \in Users \cup {None}
      BY DEF Request
    <3>2. req' \in {Answering("account"), Unread(Answering("account")),
                    WithoutQueries(Answering("account")),
                    WithoutQueries(Unread(Answering("account")))}
      BY <2>5 DEF ReceiveAccount, ReceiveLogin, ReceiveLogout, ReceiveChange, ReceiveRefusal,
                  Unauthorised, Answering
    <3>3. req' \in [Slots -> Request] /\ \A j \in Slots : Known(req'[j])
      BY <1>3, <1>4, <3>2
    <3>4. me' \in Session /\ cache' \subseteq Users
      BY <2>5, <3>1 DEF ReceiveAccount, ReceiveLogin, ReceiveLogout, ReceiveChange,
                        ReceiveRefusal, Unauthorised, TypeOK
    <3>5. QED
      BY <2>5, <3>1, <3>3, <3>4 DEF ReceiveAccount, ReceiveLogin, ReceiveLogout, ReceiveChange,
                                    ReceiveRefusal, GoTo, TypeOK
  <2>6. ASSUME NEW k \in Slots, Lose(k)
        PROVE  /\ UNCHANGED <<server, client>> /\ faults' \in 0..MaxFaults
               /\ req' \in [Slots -> Request] /\ \A j \in Slots : Known(req'[j])
    <3>1. Answer(req[k], "failed") \in Request /\ Known(Answer(req[k], "failed"))
      BY AnswerIsRequest DEF Known, Answers
    <3>2. req' \in {[req EXCEPT ![k] = Answer(req[k], "failed")], Answering(k)}
      BY <2>6 DEF Lose, Answering
    <3>3. req' \in [Slots -> Request] /\ \A j \in Slots : Known(req'[j])
      BY <1>3, <3>1, <3>2
    <3>4. QED
      BY <2>6, <3>3 DEF Lose, Fault, TypeOK
  <2>7. CASE \E k \in Slots : Lose(k)
    BY <2>6, <2>7 DEF client, TypeOK
  <2>8. QED
    BY <2>1, <2>2, <2>3, <2>4, <2>5, <2>7
<1>7. TypeOK'
  BY <1>0, <1>6 DEF TypeOK, server
<1>8. QED
  BY <1>0, <1>6, <1>7, OwnersStay DEF IInv, RowInv, server

LEMMA TypeStep == IInv /\ [Next]_vars => IInv'
<1> SUFFICES ASSUME IInv, [Next]_vars PROVE IInv'
  OBVIOUS
<1>1. CASE UNCHANGED vars
  BY <1>1 DEF IInv, TypeOK, RowInv, ReqInv, Known, vars
<1>2. CASE Next
  BY <1>2, ServerStepKeeps, AccountStepKeeps, ElsewhereKeeps, SendingKeeps, PageStepKeeps
     DEF Next
<1>3. QED
  BY <1>1, <1>2

LEMMA TypeStart == Init => IInv
<1> SUFFICES ASSUME Init PROVE IInv
  OBVIOUS
<1> USE SessionAssumption
<1>1. Unused \in Row /\ Unused.live = FALSE
  BY DEF Unused, Row
<1>2. TypeOK
  BY <1>1, IdleIsRequest DEF Init, TypeOK
<1>3. RowInv
  BY <1>1 DEF Init, RowInv
<1>4. ReqInv
  BY IdleIsRequest DEF Init, ReqInv, Known
<1>5. QED
  BY <1>2, <1>3, <1>4 DEF IInv

LEMMA InvariantHolds == Spec => []IInv
  BY TypeStart, TypeStep, PTL DEF Spec

(* Rows, requests, cookie and cache are always of their types               *)
(* (user_sessions, lib/query-cache.ts).                                     *)
THEOREM TypeCorrect == Spec => []TypeOK
  BY InvariantHolds, PTL DEF IInv

-----------------------------------------------------------------------------
(* What steps do to the rows.  Nothing but a login makes one, and nothing   *)
(* but a change of the password needs to touch those of other requests.     *)
Lasts(s) ==
    /\ sessions'[s].user = sessions[s].user /\ sessions'[s].made = sessions[s].made
    /\ sessions[s].overlapped => sessions'[s].overlapped
    /\ sessions[s].revoked => sessions'[s].revoked

Opened(s) ==
    /\ sessions[s] = Unused /\ sessions'[s].user \in Users
    /\ sessions'[s].made # password[sessions'[s].user] => sessions'[s].overlapped
    /\ \A t \in Sessions \ {s} : Lasts(t)

AllEnded(u) ==
    /\ \A v \in Users \ {u} : password'[v] = password[v]
    /\ \A s \in Sessions : Lasts(s) /\ (sessions[s].user = u => sessions'[s].revoked)

LEMMA RowSteps ==
    ASSUME IInv, [Next]_vars
    PROVE  \/ UNCHANGED password /\ \A s \in Sessions : Lasts(s)
           \/ UNCHANGED password /\ \E s \in Sessions : Opened(s)
           \/ \E u \in Users : AllEnded(u)
<1> DEFINE a == req["account"]
<1>0. /\ TypeOK /\ sessions \in [Sessions -> Row] /\ Known(a)
      /\ \A k \in Slots : Known(req[k])
  BY DEF IInv, TypeOK, ReqInv, Slots
<1>1. ASSUME UNCHANGED server
      PROVE  UNCHANGED password /\ \A s \in Sessions : Lasts(s)
  BY <1>1 DEF server, Lasts
<1>2. ASSUME NEW s \in Sessions, UNCHANGED password, sessions' = Extended(s)
      PROVE  UNCHANGED password /\ \A t \in Sessions : Lasts(t)
  BY <1>0, <1>2, ExtensionKeeps DEF Lasts
<1>3. ASSUME NEW k \in Slots, Serve(k)
      PROVE  UNCHANGED password /\ \A s \in Sessions : Lasts(s)
  <2>1. req[k].sid \in Sessions /\ UNCHANGED password /\ sessions' = Extended(req[k].sid)
    BY <1>0, <1>3 DEF Serve, Known
  <2>2. QED
    BY <1>2, <2>1
<1>4. ASSUME CommitLogin
      PROVE  UNCHANGED password /\ \E s \in Sessions : Opened(s)
  <2>1. PICK s \in Sessions :
          /\ sessions[s] = Unused
          /\ sessions' = [sessions EXCEPT ![s] =
                 [user |-> a.user, made |-> a.pw, live |-> TRUE, revoked |-> FALSE,
                  overlapped |-> a.pw # password[a.user]]]
    BY <1>4 DEF CommitLogin
  <2>2. a.user \in Users /\ UNCHANGED password
    BY <1>0, <1>4 DEF CommitLogin, Known
  <2>3. \A t \in Sessions \ {s} : Lasts(t)
    BY <1>0, <2>1 DEF Lasts
  <2>4. /\ sessions'[s].user = a.user /\ sessions'[s].made = a.pw
        /\ a.pw # password[a.user] => sessions'[s].overlapped
    BY <1>0, <2>1
  <2>5. QED
    BY <2>1, <2>2, <2>3, <2>4 DEF Opened
<1>5. ASSUME CommitLogout
      PROVE  UNCHANGED password /\ \A s \in Sessions : Lasts(s)
  <2>1. a.sid \in Sessions /\ UNCHANGED password
    BY <1>0, <1>5 DEF CommitLogout, Known
  <2>2. /\ Extended(a.sid) \in [Sessions -> Row]
        /\ sessions' = [Extended(a.sid) EXCEPT ![a.sid].revoked = TRUE]
    BY <1>0, <1>5, <2>1, ExtensionKeeps DEF CommitLogout
  <2>3. \A s \in Sessions \ {a.sid} : sessions'[s] = Extended(a.sid)[s]
    BY <2>1, <2>2
  <2>4. /\ sessions'[a.sid].user = Extended(a.sid)[a.sid].user
        /\ sessions'[a.sid].made = Extended(a.sid)[a.sid].made
        /\ sessions'[a.sid].overlapped = Extended(a.sid)[a.sid].overlapped
        /\ sessions'[a.sid].revoked
    BY <2>1, <2>2 DEF Row
  <2>5. QED
    BY <1>0, <2>1, <2>3, <2>4, ExtensionKeeps DEF Lasts
<1>6. ASSUME CommitChange
      PROVE  \/ UNCHANGED password /\ \A s \in Sessions : Lasts(s)
             \/ AllEnded(a.user) /\ a.user \in Users
  <2>1. a.sid \in Sessions /\ a.user \in Users
    BY <1>0, <1>6 DEF CommitChange, Known
  <2>2. CASE UNCHANGED password /\ sessions' = Extended(a.sid)
    BY <1>2, <2>1, <2>2
  <2>3. CASE /\ password' = [password EXCEPT ![a.user] = @ + 1]
             /\ sessions' = RevokedFor(Extended(a.sid), a.user)
    <3>1. Extended(a.sid) \in [Sessions -> Row]
      BY <1>0, <2>1, ExtensionKeeps
    <3>2. \A s \in Sessions : Lasts(s) /\ (sessions[s].user = a.user => sessions'[s].revoked)
      <4>1. ASSUME NEW s \in Sessions
            PROVE  Lasts(s) /\ (sessions[s].user = a.user => sessions'[s].revoked)
        <5>1. /\ sessions'[s].user = Extended(a.sid)[s].user
              /\ sessions'[s].made = Extended(a.sid)[s].made
              /\ sessions'[s].overlapped = Extended(a.sid)[s].overlapped
              /\ Extended(a.sid)[s].revoked => sessions'[s].revoked
              /\ Extended(a.sid)[s].user = a.user => sessions'[s].revoked
          BY <2>1, <2>3, <3>1, RowsAreKept
        <5>2. QED
          BY <1>0, <2>1, <5>1, ExtensionKeeps DEF Lasts
      <4>2. QED
        BY <4>1
    <3>3. QED
      BY <1>0, <2>1, <2>3, <3>2 DEF AllEnded, TypeOK
  <2>4. QED
    BY <1>6, <2>2, <2>3 DEF CommitChange
<1>7. ASSUME NEW u \in Users, ChangeElsewhere(u) PROVE AllEnded(u)
  <2>1. \A s \in Sessions : Lasts(s) /\ (sessions[s].user = u => sessions'[s].revoked)
    <3>1. ASSUME NEW s \in Sessions
          PROVE  /\ sessions'[s].user = sessions[s].user /\ sessions'[s].made = sessions[s].made
                 /\ sessions'[s].overlapped = sessions[s].overlapped
                 /\ sessions[s].revoked => sessions'[s].revoked
                 /\ sessions[s].user = u => sessions'[s].revoked
      BY <1>0, <1>7, RowsAreKept DEF ChangeElsewhere
    <3>2. QED
      BY <3>1 DEF Lasts
  <2>2. QED
    BY <1>0, <1>7, <2>1 DEF ChangeElsewhere, AllEnded, TypeOK
<1>8. ASSUME NEW s \in Sessions, Expire(s) \/ LogoutElsewhere(s)
      PROVE  UNCHANGED password /\ \A t \in Sessions : Lasts(t)
  <2>1. \/ sessions' = [sessions EXCEPT ![s].live = FALSE]
        \/ sessions' = [sessions EXCEPT ![s].revoked = TRUE]
    BY <1>8 DEF Expire, LogoutElsewhere
  <2>2. \A t \in Sessions \ {s} : sessions'[t] = sessions[t]
    BY <1>0, <2>1
  <2>3. Lasts(s)
    BY <1>0, <2>1 DEF Lasts, Row
  <2>4. QED
    BY <1>8, <2>2, <2>3 DEF Lasts, Expire, LogoutElsewhere
<1>9. CASE UNCHANGED server
  BY <1>1, <1>9
<1>10. CASE ~UNCHANGED server
  <2>1. \/ \E k \in Slots : Serve(k)
        \/ CommitLogin \/ CommitLogout \/ CommitChange
        \/ \E u \in Users : ChangeElsewhere(u)
        \/ \E s \in Sessions : Expire(s) \/ LogoutElsewhere(s)
    BY <1>10 DEF Next, vars, server, ServerStep, AccountStep, ReceiveAccount, Authorise, Lose,
                 SendData, VerifyLogin, SubmitLogin, SubmitAccount, SendMe, AuthRedirect,
                 GuestRedirect, Reload, ReceiveMe, ReceiveData, ReceiveLogin, ReceiveLogout,
                 ReceiveChange, ReceiveRefusal
  <2>2. QED
    BY <1>3, <1>4, <1>5, <1>6, <1>7, <1>8, <2>1
<1>11. QED
  BY <1>9, <1>10

(* A revoked session stays revoked, whatever was authorised before          *)
(* (get_auth_context, CommitLogout).                                        *)
THEOREM RevokedStays == Spec => RevokedForGood
<1>1. ASSUME IInv, [Next]_vars
      PROVE  [\A s \in Sessions : sessions[s].revoked => sessions'[s].revoked]_sessions
  <2>1. \A s \in Sessions : sessions[s] = Unused => ~sessions[s].revoked
    BY DEF Unused
  <2>2. QED
    BY <1>1, <2>1, RowSteps DEF Lasts, Opened, AllEnded
<1>2. QED
  BY <1>1, InvariantHolds, PTL DEF Spec, RevokedForGood

(* A row that is not revoked was opened with the current password, or its   *)
(* login was overlapped by the change (change_password).                    *)
LEMMA PasswordStep == IInv /\ PasswordInv /\ [Next]_vars => PasswordInv'
<1> SUFFICES ASSUME IInv, PasswordInv, [Next]_vars PROVE PasswordInv'
  OBVIOUS
<1>1. CASE UNCHANGED password /\ \A s \in Sessions : Lasts(s)
  BY <1>1 DEF PasswordInv, Lasts
<1>2. CASE UNCHANGED password /\ \E s \in Sessions : Opened(s)
  BY <1>2 DEF PasswordInv, Lasts, Opened
<1>3. ASSUME NEW u \in Users, AllEnded(u) PROVE PasswordInv'
  BY <1>3 DEF PasswordInv, Lasts, AllEnded
<1>4. QED
  BY <1>1, <1>2, <1>3, RowSteps

(* No accepted session is of an old password (change_password revokes all   *)
(* sessions of the user; login verifies before it inserts).                 *)
THEOREM OldPasswords == Spec => []OldPasswordOpensNothing
<1>1. Init => PasswordInv
  BY SessionAssumption DEF Init, PasswordInv, Unused
<1>2. IInv /\ PasswordInv => OldPasswordOpensNothing
  BY DEF IInv, RowInv, PasswordInv, OldPasswordOpensNothing, Valid
<1>3. QED
  BY <1>1, <1>2, PasswordStep, InvariantHolds, PTL DEF Spec

-----------------------------------------------------------------------------
(* Why the cache is of one account: the read in flight was sent with the    *)
(* cookie of today, since a login and a logout cancel those of yesterday,   *)
(* and the row of a cookie never changes its account.                       *)
Owner == sessions[cookie].user

CacheInv ==
    /\ req["account"].kind = "login" /\ req["account"].phase = "ok" =>
          req["account"].sid \in Sessions /\ sessions[req["account"].sid].user \in Users
    /\ cookie # None =>
          /\ Owner \in Users /\ cache \subseteq {Owner}
          /\ req["data"].kind = "read" =>
                /\ req["data"].phase \in {"sent", "checked"} => req["data"].sid = cookie
                /\ req["data"].phase = "ok" => req["data"].user = Owner

OwnersKept ==
    \A s \in Sessions : sessions[s].user \in Users => sessions'[s].user = sessions[s].user

(* What a step may do to the account slot and to the data slot while the    *)
(* cookie stays: no new session, no read of another session.                *)
AccountQuiet ==
    \/ req'["account"] = req["account"]
    \/ req'["account"].kind # "login"
    \/ req'["account"].phase # "ok"

DataQuiet ==
    \/ req'["data"] = req["data"]
    \/ req'["data"].kind # "read"
    \/ req'["data"].phase \notin {"sent", "checked", "ok"}
    \/ /\ req'["data"].phase = "sent"
       /\ req'["data"].sid = cookie
    \/ /\ req["data"].kind = "read" /\ req["data"].phase = "sent"
       /\ req'["data"].phase = "checked" /\ req'["data"].sid = req["data"].sid
    \/ /\ req["data"].kind = "read" /\ req["data"].phase = "checked"
       /\ req'["data"].phase = "ok" /\ req'["data"].user = req["data"].user

CacheQuiet == cookie' = cookie /\ cache' \subseteq cache

(* Steps in which the cookie stays and the cache gets nothing new.          *)
LEMMA SameCookie ==
    ASSUME IInv, CacheInv, OwnersKept, CacheQuiet, AccountQuiet, DataQuiet
    PROVE  CacheInv'
<1> USE SessionAssumption
<1>1. \A s \in Sessions : sessions[s].user \in Users => sessions'[s].user = sessions[s].user
  BY DEF OwnersKept
<1>2. cookie \in Sessions \cup {None} /\ Known(req["data"])
  BY DEF IInv, TypeOK, ReqInv, Slots
<1>3. cookie # None => Owner' = Owner
  BY <1>1, <1>2 DEF CacheInv, CacheQuiet, Owner
<1>4. req["data"].kind = "read" /\ req["data"].phase = "checked" =>
          req["data"].user = sessions[req["data"].sid].user
  BY <1>2 DEF Known
<1>a. req'["account"].kind = "login" /\ req'["account"].phase = "ok" =>
          /\ req'["account"].sid \in Sessions
          /\ sessions'[req'["account"].sid].user \in Users
  <2>1. CASE req'["account"] = req["account"]
    BY <1>1, <2>1 DEF CacheInv
  <2>2. QED
    BY <2>1 DEF AccountQuiet
<1>5. CASE cookie = None
  BY <1>a, <1>5 DEF CacheInv, CacheQuiet
<1>6. CASE cookie # None
  <2>1. Owner' \in Users /\ cache' \subseteq {Owner'}
    BY <1>3, <1>6 DEF CacheInv, CacheQuiet
  <2>2. req'["data"].kind = "read" =>
           /\ req'["data"].phase \in {"sent", "checked"} => req'["data"].sid = cookie
           /\ req'["data"].phase = "ok" => req'["data"].user = Owner'
    <3>1. CASE req'["data"] = req["data"]
      BY <1>3, <1>6, <3>1 DEF CacheInv
    <3>2. CASE /\ req["data"].kind = "read" /\ req["data"].phase = "sent"
               /\ req'["data"].phase = "checked" /\ req'["data"].sid = req["data"].sid
      BY <1>6, <3>2 DEF CacheInv
    <3>3. CASE /\ req["data"].kind = "read" /\ req["data"].phase = "checked"
               /\ req'["data"].phase = "ok" /\ req'["data"].user = req["data"].user
      <4>1. req["data"].sid = cookie /\ req["data"].user = Owner
        BY <1>4, <1>6, <3>3 DEF CacheInv, Owner
      <4>2. QED
        BY <1>3, <1>6, <3>3, <4>1
    <3>4. QED
      BY <3>1, <3>2, <3>3 DEF DataQuiet
  <2>3. QED
    BY <1>a, <1>6, <2>1, <2>2 DEF CacheInv, CacheQuiet
<1>7. QED
  BY <1>5, <1>6

(* What the insert of a login leaves: a row of the user who signs in, and   *)
(* its id in the answer.                                                    *)
Opens(s) ==
    LET r == req["account"] IN
    /\ sessions[s] = Unused
    /\ sessions' = [sessions EXCEPT ![s] =
           [user |-> r.user, made |-> r.pw, live |-> TRUE, revoked |-> FALSE,
            overlapped |-> r.pw # password[r.user]]]
    /\ req' = [req EXCEPT !["account"] =
           [Answer(r, "ok") EXCEPT !.user = r.user, !.sid = s]]

(* The insert of a login opens one row (CommitLogin). *)
LEMMA LoginOpens == CommitLogin => \E s \in Sessions : Opens(s)
BY DEF CommitLogin, Opens

LEMMA CacheStep == IInv /\ CacheInv /\ [Next]_vars => CacheInv'
<1> SUFFICES ASSUME IInv, CacheInv, [Next]_vars PROVE CacheInv'
  OBVIOUS
<1> DEFINE a == req["account"]
<1> DEFINE d == req["data"]
<1>0. /\ {"me", "data", "account"} = Slots /\ req \in [Slots -> Request]
      /\ a \in Request /\ d \in Request /\ cookie \in Sessions \cup {None}
  BY DEF IInv, TypeOK, Slots
<1>1. /\ Idle.kind = "me" /\ Idle.phase = "idle" /\ OwnersKept
      /\ Slots = {"me", "data", "account"} /\ "me" # "data" /\ "data" # "account"
  BY SessionAssumption, RowSteps DEF Idle, OwnersKept, Lasts, Opened, AllEnded, Unused, Slots
<1>2. ASSUME NEW k \in Slots, Authorise(k) PROVE CacheInv'
  <2>1. UNCHANGED <<cookie, cache>> /\ \A j \in Slots \ {k} : req'[j] = req[j]
    BY <1>0, <1>2 DEF Authorise, client
  <2>2. /\ req[k].phase = "sent" /\ req[k].kind # "login" /\ req'[k].kind = req[k].kind
        /\ \/ req'[k].phase = "denied"
           \/ req'[k].phase = "checked" /\ req'[k].sid = req[k].sid
    <3>1. CASE req' = [req EXCEPT ![k] = [req[k] EXCEPT !.phase = "checked",
                                             !.user = sessions[req[k].sid].user]]
      BY <1>0, <1>2, <3>1 DEF Authorise, Request
    <3>2. CASE req' = [req EXCEPT ![k] = Answer(req[k], "denied")]
      BY <1>0, <1>2, <3>2, AnswerIsRequest DEF Authorise, Answers
    <3>3. QED
      BY <1>2, <3>1, <3>2 DEF Authorise
  <2>3. CacheQuiet /\ AccountQuiet /\ DataQuiet
    BY <1>0, <1>1, <2>1, <2>2 DEF CacheQuiet, AccountQuiet, DataQuiet
  <2>4. QED
    BY <1>1, <2>3, SameCookie
<1>3. ASSUME NEW k \in Slots, Serve(k) PROVE CacheInv'
  <2>1. UNCHANGED <<cookie, cache>> /\ \A j \in Slots \ {k} : req'[j] = req[j]
    BY <1>0, <1>3 DEF Serve, client
  <2>2. /\ req[k].phase = "checked" /\ req[k].kind # "login" /\ req'[k].kind = req[k].kind
        /\ req'[k].phase = "ok" /\ req'[k].user = req[k].user
    <3>1. /\ req'[k] = [Answer(req[k], "ok") EXCEPT !.user = req[k].user]
          /\ req[k].phase = "checked" /\ req[k].kind # "login"
      BY <1>0, <1>3 DEF Serve
    <3>2. /\ Answer(req[k], "ok") \in Request /\ Answer(req[k], "ok").phase = "ok"
          /\ Answer(req[k], "ok").kind = req[k].kind
      BY <1>0, AnswerIsRequest DEF Answers
    <3>3. QED
      BY <3>1, <3>2 DEF Request
  <2>3. CacheQuiet /\ AccountQuiet /\ DataQuiet
    BY <1>0, <1>1, <2>1, <2>2 DEF CacheQuiet, AccountQuiet, DataQuiet
  <2>4. QED
    BY <1>1, <2>3, SameCookie
<1>4. ASSUME NEW k \in Slots, Lose(k) PROVE CacheInv'
  <2>1. /\ UNCHANGED <<cookie, cache>> /\ \A j \in Slots \ {k} : req'[j] = req[j]
        /\ k # "me" => req'[k] = Idle
    BY <1>0, <1>4 DEF Lose, client
  <2>2. CacheQuiet /\ AccountQuiet /\ DataQuiet
    BY <1>0, <1>1, <2>1 DEF CacheQuiet, AccountQuiet, DataQuiet
  <2>3. QED
    BY <1>1, <2>2, SameCookie
<1>5. CASE VerifyLogin
  <2>1. UNCHANGED <<cookie, cache>> /\ req'["data"] = d
    BY <1>0, <1>5 DEF VerifyLogin, client
  <2>2. req'["account"].phase # "ok"
    <3>1. CASE req' = [req EXCEPT !["account"].phase = "checked",
                             !["account"].pw = password[req["account"].user]]
      BY <1>0, <3>1 DEF Request
    <3>2. CASE req' = [req EXCEPT !["account"] = Answer(@, "failed")]
      BY <1>0, <3>2, AnswerIsRequest DEF Answers
    <3>3. QED
      BY <1>5, <3>1, <3>2 DEF VerifyLogin
  <2>3. CacheQuiet /\ AccountQuiet /\ DataQuiet
    BY <1>0, <1>1, <2>1, <2>2 DEF CacheQuiet, AccountQuiet, DataQuiet
  <2>4. QED
    BY <1>1, <2>3, SameCookie
<1>6. CASE CommitLogin
  <2>1. PICK s \in Sessions : Opens(s)
    BY <1>6, LoginOpens
  <2>2. a.user \in Users /\ UNCHANGED <<cookie, cache>>
    BY <1>0, <1>6 DEF CommitLogin, Known, IInv, ReqInv, client
  <2>3. req'["account"].sid = s /\ req'["data"] = d
    BY <1>0, <2>1, AnswerIsRequest DEF Answers, Request, Opens
  <2>4. sessions \in [Sessions -> Row] /\ sessions'[s].user \in Users
    BY <2>1, <2>2 DEF IInv, TypeOK, Opens
  <2>5. cookie # None => Owner' = Owner
    BY <1>0, <2>1, <2>2, <2>4, SessionAssumption DEF CacheInv, Owner, Unused, Opens
  <2>6. QED
    BY <2>2, <2>3, <2>4, <2>5 DEF CacheInv
<1>7. CASE CommitLogout \/ CommitChange
  <2>1. UNCHANGED <<cookie, cache>> /\ req'["data"] = d
    BY <1>0, <1>7 DEF CommitLogout, CommitChange, client
  <2>2. a.kind # "login"
           /\ req'["account"] \in {Answer(a, "ok"), Answer(a, "failed")}
    BY <1>0, <1>7 DEF CommitLogout, CommitChange
  <2>3. req'["account"].kind # "login"
    BY <1>0, <2>2, AnswerIsRequest DEF Answers
  <2>4. CacheQuiet /\ AccountQuiet /\ DataQuiet
    BY <1>0, <1>1, <2>1, <2>3 DEF CacheQuiet, AccountQuiet, DataQuiet
  <2>5. QED
    BY <1>1, <2>4, SameCookie
<1>8. CASE \/ \E u \in Users : ChangeElsewhere(u)
           \/ \E s \in Sessions : Expire(s) \/ LogoutElsewhere(s)
           \/ UNCHANGED vars
  <2>1. UNCHANGED <<cookie, cache, req>>
    BY <1>8 DEF ChangeElsewhere, Expire, LogoutElsewhere, client, vars
  <2>2. CacheQuiet /\ AccountQuiet /\ DataQuiet
    BY <2>1 DEF CacheQuiet, AccountQuiet, DataQuiet
  <2>3. QED
    BY <1>1, <2>2, SameCookie
<1>9. ASSUME NEW k \in Slots, NEW kind \in Kinds, NEW u, req' = Sent(k, kind, u),
             UNCHANGED <<cookie, cache>>
      PROVE  CacheInv'
  <2>1. /\ \A j \in Slots \ {k} : req'[j] = req[j]
        /\ req'[k].phase = "sent" /\ req'[k].sid = cookie
    BY <1>0, <1>9 DEF Sent
  <2>2. CacheQuiet /\ AccountQuiet /\ DataQuiet
    BY <1>0, <1>1, <1>9, <2>1 DEF CacheQuiet, AccountQuiet, DataQuiet
  <2>3. QED
    BY <1>1, <2>2, SameCookie
<1>10. CASE \/ SendMe \/ \E kind \in {"read", "write"} : SendData(kind)
            \/ \E u \in Users : SubmitLogin(u)
            \/ \E kind \in {"logout", "change"} : SubmitAccount(kind)
  <2>1. UNCHANGED <<cookie, cache>>
    BY <1>10 DEF SendMe, SendData, SubmitLogin, SubmitAccount, client
  <2>2. \E k \in Slots, kind \in Kinds, u \in Users \cup {None} : req' = Sent(k, kind, u)
    BY <1>0, <1>10 DEF SendMe, SendData, SubmitLogin, SubmitAccount, Kinds
  <2>3. QED
    BY <1>9, <2>1, <2>2
<1>11. ASSUME NEW r \in [Slots -> Request]
       PROVE  /\ Unread(r)["data"] \in {r["data"], Idle} /\ Unread(r)["account"] = r["account"]
              /\ WithoutQueries(r)["data"] \in {r["data"], Idle}
              /\ WithoutQueries(r)["account"] = r["account"]
              /\ WithoutQueries(Unread(r))["data"] \in {r["data"], Idle}
              /\ WithoutQueries(Unread(r))["account"] = r["account"]
  <2>1. /\ Unread(r)["data"] \in {r["data"], Idle} /\ Unread(r)["account"] = r["account"]
        /\ Unread(r) \in [Slots -> Request]
    BY <1>0, <1>1, IdleIsRequest DEF Unread
  <2>2. \A v \in [Slots -> Request] :
           /\ WithoutQueries(v)["data"] = Unread(v)["data"]
           /\ WithoutQueries(v)["account"] = Unread(v)["account"]
    BY <1>0, IdleIsRequest DEF WithoutQueries, Unread
  <2>3. /\ Unread(Unread(r))["data"] \in {Unread(r)["data"], Idle}
        /\ Unread(Unread(r))["account"] = Unread(r)["account"]
    BY <1>0, <1>1, <2>1, IdleIsRequest DEF Unread
  <2>4. QED
    BY <2>1, <2>2, <2>3
<1>12. CASE AuthRedirect \/ GuestRedirect
  <2>1. req' = WithoutQueries(req) /\ UNCHANGED <<cookie, cache>>
    BY <1>12 DEF AuthRedirect, GuestRedirect
  <2>2. req'["data"] \in {d, Idle} /\ req'["account"] = a
    BY <1>0, <1>11, <2>1
  <2>3. CacheQuiet /\ AccountQuiet /\ DataQuiet
    BY <1>0, <1>1, <2>1, <2>2 DEF CacheQuiet, AccountQuiet, DataQuiet
  <2>4. QED
    BY <1>1, <2>3, SameCookie
<1>13. CASE Reload
  <2>1. /\ req'["data"] = Idle /\ req'["account"] = Idle /\ UNCHANGED cookie
        /\ cache' \subseteq cache
    BY <1>0, <1>13 DEF Reload
  <2>2. CacheQuiet /\ AccountQuiet /\ DataQuiet
    BY <1>0, <1>1, <2>1 DEF CacheQuiet, AccountQuiet, DataQuiet
  <2>3. QED
    BY <1>1, <2>2, SameCookie
<1>14. CASE ReceiveMe
  <2>1. req'["data"] = d /\ req'["account"] = a /\ UNCHANGED <<cookie, cache>>
    BY <1>0, <1>14 DEF ReceiveMe
  <2>2. CacheQuiet /\ AccountQuiet /\ DataQuiet
    BY <1>0, <1>1, <2>1 DEF CacheQuiet, AccountQuiet, DataQuiet
  <2>3. QED
    BY <1>1, <2>2, SameCookie
<1> DEFINE Without(k) == [req EXCEPT ![k] = Idle]
<1>15. \A k \in Slots : /\ Without(k) \in [Slots -> Request] /\ Without(k)[k] = Idle
                          /\ \A j \in Slots \ {k} : Without(k)[j] = req[j]
  BY <1>0, IdleIsRequest
<1>16. CASE ReceiveData
  <2>1. UNCHANGED <<sessions, cookie>>
    BY <1>16 DEF ReceiveData, server
  <2>2. req' \in {Without("data"), Unread(Without("data"))}
    BY <1>16 DEF ReceiveData, Unauthorised
  <2>3. req'["data"] = Idle /\ req'["account"] = a
    <3>1. /\ Unread(Without("data"))["data"] \in {Without("data")["data"], Idle}
          /\ Unread(Without("data"))["account"] = Without("data")["account"]
      BY <1>0, <1>11, <1>15
    <3>2. Without("data")["data"] = Idle /\ Without("data")["account"] = a
      BY <1>0, <1>1, <1>15
    <3>3. QED
      BY <2>2, <3>1, <3>2
  <2>4. \/ cache' \subseteq cache
        \/ /\ d.phase = "ok" /\ d.kind = "read"
           /\ cache' = cache \cup {d.user}
    BY <1>16 DEF ReceiveData, Unauthorised, Cleared
  <2>5. QED
    BY <1>1, <2>1, <2>3, <2>4 DEF CacheInv, Owner
<1>17. CASE ReceiveLogin
  <2>1. /\ cookie' = a.sid /\ a.kind = "login" /\ a.phase = "ok" /\ cache' = {}
        /\ UNCHANGED sessions
        /\ req' \in {Unread(Without("account")), WithoutQueries(Unread(Without("account")))}
    BY <1>17 DEF ReceiveLogin, Answered, Cleared, server
  <2>2. req'["account"] = Idle /\ req'["data"].kind # "read"
    <3>1. Without("account")["account"] = Idle
      BY <1>0
    <3>2. req'["account"] = Idle
      <4>1. /\ Unread(Without("account"))["account"] = Idle
            /\ WithoutQueries(Unread(Without("account")))["account"] = Idle
        BY <1>0, <1>11, <1>15, <3>1
      <4>2. QED
        BY <2>1, <4>1
    <3>3. Unread(Without("account"))["data"].kind # "read"
      BY <1>0, <1>1, <1>15 DEF Unread
    <3>4. WithoutQueries(Unread(Without("account")))["data"]
              \in {Unread(Without("account"))["data"], Idle}
      BY <1>0, <1>1, <1>15, IdleIsRequest DEF WithoutQueries, Unread
    <3>5. QED
      BY <1>1, <2>1, <3>2, <3>3, <3>4
  <2>3. QED
    BY <1>1, <2>1, <2>2 DEF CacheInv, Owner
<1>18. CASE ReceiveLogout \/ ReceiveChange
  <2>1. /\ cookie' = None
        /\ req' \in {Without("account"), Unread(Without("account")),
                     WithoutQueries(Without("account")),
                     WithoutQueries(Unread(Without("account")))}
    BY <1>18 DEF ReceiveLogout, ReceiveChange
  <2>2. Without("account")["account"] = Idle
    BY <1>0
  <2>3. req'["account"] = Idle
    <3>1. Without("account") \in [Slots -> Request]
      BY <1>0, <1>15
    <3>2. /\ Unread(Without("account"))["account"] = Idle
          /\ WithoutQueries(Without("account"))["account"] = Idle
          /\ WithoutQueries(Unread(Without("account")))["account"] = Idle
      BY <1>11, <2>2, <3>1
    <3>3. QED
      BY <2>1, <2>2, <3>2
  <2>4. QED
    BY <1>1, <2>1, <2>3 DEF CacheInv
<1>19. CASE ReceiveRefusal
  <2>1. UNCHANGED cookie /\ cache' \subseteq cache
    BY <1>19 DEF ReceiveRefusal, Unauthorised, Cleared
  <2>2. req' \in {Without("account"), Unread(Without("account"))}
    BY <1>19 DEF ReceiveRefusal, Unauthorised
  <2>3. /\ Without("account")["account"] = Idle /\ Without("account")["data"] = d
    BY <1>0
  <2>4. req'["account"] = Idle /\ req'["data"] \in {d, Idle}
    BY <1>0, <1>11, <1>15, <2>2, <2>3
  <2>5. CacheQuiet /\ AccountQuiet /\ DataQuiet
    BY <1>0, <1>1, <2>1, <2>4 DEF CacheQuiet, AccountQuiet, DataQuiet
  <2>6. QED
    BY <1>1, <2>5, SameCookie
<1>20. QED
  BY <1>2, <1>3, <1>4, <1>5, <1>6, <1>7, <1>8, <1>10, <1>12, <1>13, <1>14, <1>16, <1>17,
     <1>18, <1>19 DEF Next, ServerStep, AccountStep, ReceiveAccount

(* The data the page reads from its cache are of the account it is signed   *)
(* in with, whatever was in flight when that changed (lib/query-cache.ts).  *)
THEOREM CacheIsOfOneAccount == Spec => []CacheOfOneAccount
<1>1. Init => CacheInv
  BY SessionAssumption DEF Init, CacheInv, Idle, Slots
<1>2. CacheInv => CacheOfOneAccount
  BY DEF CacheInv, CacheOfOneAccount, Owner
<1>3. QED
  BY <1>1, <1>2, CacheStep, InvariantHolds, PTL DEF Spec
==============================================================================
