------------------------------- MODULE Session -------------------------------
(***************************************************************************)
(* The signed-in session, from the rows of user_sessions to the guards of  *)
(* the router: one browser page with its cookie, its query cache and the   *)
(* requests it has in flight, the endpoints of /api/auth with the          *)
(* authorisation every other endpoint begins with, and the rest of the     *)
(* world (another device that changes the password, sessions that expire). *)
(*                                                                         *)
(* A request that needs a session is served in two steps, because          *)
(* get_auth_context reads the session and the user and commits before the  *)
(* endpoint does its work; a login reads the password hash in one step and *)
(* inserts the session in another.  The page keeps at most one request per *)
(* slot: the session query, a read or a write of the user's data, and  *)
(* one account operation (login, logout or password change).               *)
(*                                                                         *)
(* Of React Query the model keeps what the page relies on: one fetch per   *)
(* key, an error leaves the data of the last success in place, setting the *)
(* data by hand clears the error, and a query whose last component leaves  *)
(* the page is cancelled (its answer is dropped); a mutation is not.       *)
(***************************************************************************)
EXTENDS Naturals, FiniteSets

CONSTANTS
    Users,          \* the accounts
    Sessions,       \* the session ids the server may hand out
    None,           \* no session, no user, nothing loaded yet
    SignedOut,      \* the null the page stores for "nobody is signed in"
    MaxChanges,     \* bound: password changes of one account
    MaxFaults       \* bound: answers lost, reloads, what others do to the sessions

ASSUME SessionAssumption ==
    /\ None \notin Users \cup Sessions /\ SignedOut \notin Users \cup {None}
    /\ MaxChanges \in Nat /\ MaxFaults \in Nat

VARIABLES
    password,       \* server: how often each user's password was changed
    sessions,       \* server: the rows of user_sessions
    cookie,         \* browser: the session id in the cookie, or None
    page,           \* browser: "login" or "app" (any page below AuthGuard)
    me,             \* browser: the session query (data, and whether it failed)
    cache,          \* browser: the users whose data the query cache holds
    req,            \* the request in each slot
    faults          \* how many of these happened so far

server == <<password, sessions>>
client == <<cookie, page, me, cache>>
vars   == <<password, sessions, cookie, page, me, cache, req, faults>>

Slots == {"me", "data", "account"}
Kinds == {"me", "read", "write", "login", "logout", "change"}
Answers == {"ok", "denied", "failed"}

Unused  == [user |-> None, made |-> 0, live |-> FALSE, revoked |-> FALSE, overlapped |-> FALSE]
Idle    == [phase |-> "idle", kind |-> "me", sid |-> None, user |-> None, pw |-> 0]

Row     == [user : Users \cup {None}, made : 0..MaxChanges, live : BOOLEAN,
            revoked : BOOLEAN, overlapped : BOOLEAN]
Request == [phase : {"idle", "sent", "checked"} \cup Answers, kind : Kinds,
            sid : Sessions \cup {None}, user : Users \cup {None}, pw : 0..MaxChanges]

TypeOK ==
    /\ password \in [Users -> 0..MaxChanges]
    /\ sessions \in [Sessions -> Row]
    /\ cookie \in Sessions \cup {None}
    /\ page \in {"login", "app"}
    /\ me \in [data : Users \cup {SignedOut, None}, error : BOOLEAN]
    /\ cache \subseteq Users
    /\ req \in [Slots -> Request]
    /\ faults \in 0..MaxFaults

Init ==
    /\ password = [u \in Users |-> 0]
    /\ sessions = [s \in Sessions |-> Unused]
    /\ cookie = None
    /\ page = "app"
    /\ me = [data |-> None, error |-> FALSE]
    /\ cache = {}
    /\ req = [k \in Slots |-> Idle]
    /\ faults = 0

Fault == faults < MaxFaults /\ faults' = faults + 1

(***************************************************************************)
(* The server.                                                             *)
(***************************************************************************)

\* What get_auth_context accepts.
Valid(s) == s # None /\ sessions[s].live /\ ~sessions[s].revoked

\* A mutant of Extended: writes the row back as it was read.
WritesWholeRow(s) == [sessions EXCEPT ![s].live = TRUE, ![s].revoked = FALSE]

\* The commit of get_auth_context moves expires_at on and writes no other
\* column that matters here: not revoked_at.
Extended(s) == [sessions EXCEPT ![s].live = TRUE]

\* What is left of a request once it is answered.
Answer(r, phase) == [Idle EXCEPT !.phase = phase, !.kind = r.kind]

\* get_auth_context reads the session of the cookie and its user.
Authorise(k) ==
    LET r == req[k] IN
    /\ r.phase = "sent" /\ r.kind # "login"
    /\ \/ /\ Valid(r.sid)
          /\ req' = [req EXCEPT ![k] = [r EXCEPT !.phase = "checked",
                                     !.user = sessions[r.sid].user]]
       \/ /\ ~Valid(r.sid)
          /\ req' = [req EXCEPT ![k] = Answer(r, "denied")]
    /\ UNCHANGED <<server, client, faults>>

\* /auth/me, and every endpoint of the user's data.
Serve(k) ==
    /\ req[k].phase = "checked" /\ req[k].kind \in {"me", "read", "write"}
    /\ sessions' = Extended(req[k].sid)
    /\ req' = [req EXCEPT ![k] = [Answer(@, "ok") EXCEPT !.user = req[k].user]]
    /\ UNCHANGED <<password, client, faults>>

\* login: the rate limit, the SELECT of the user and the verification.
VerifyLogin ==
    /\ req["account"].phase = "sent" /\ req["account"].kind = "login"
    /\ \/ req' = [req EXCEPT !["account"].phase = "checked",
                             !["account"].pw = password[req["account"].user]]
       \/ req' = [req EXCEPT !["account"] = Answer(@, "failed")]
    /\ UNCHANGED <<server, client, faults>>

\* login: the INSERT of the session.  overlapped records that the password
\* was changed after the verification had read it.
CommitLogin ==
    LET r == req["account"] IN
    /\ r.phase = "checked" /\ r.kind = "login"
    /\ \E s \in Sessions :
          /\ sessions[s] = Unused
          /\ sessions' = [sessions EXCEPT ![s] =
                 [user |-> r.user, made |-> r.pw, live |-> TRUE, revoked |-> FALSE,
                  overlapped |-> r.pw # password[r.user]]]
          /\ req' = [req EXCEPT !["account"] =
                 [Answer(r, "ok") EXCEPT !.user = r.user, !.sid = s]]
    /\ UNCHANGED <<password, client, faults>>

CommitLogout ==
    LET r == req["account"] IN
    /\ r.phase = "checked" /\ r.kind = "logout"
    /\ sessions' = [Extended(r.sid) EXCEPT ![r.sid].revoked = TRUE]
    /\ req' = [req EXCEPT !["account"] = Answer(r, "ok")]
    /\ UNCHANGED <<password, client, faults>>

\* A mutant of RevokedFor: revokes only what has expired.
RevokesExpired(rows, u) ==
    [s \in Sessions |-> IF rows[s].user = u /\ ~rows[s].live
                        THEN [rows[s] EXCEPT !.revoked = TRUE] ELSE rows[s]]

\* Every session of u that is not revoked yet.
RevokedFor(rows, u) ==
    [s \in Sessions |-> IF rows[s].user = u THEN [rows[s] EXCEPT !.revoked = TRUE] ELSE rows[s]]

\* change_password: the new hash and the revocation of all sessions of the
\* user are one transaction; a wrong current password is refused with 400.
CommitChange ==
    LET r == req["account"] IN
    /\ r.phase = "checked" /\ r.kind = "change"
    /\ \/ /\ password[r.user] < MaxChanges
          /\ password' = [password EXCEPT ![r.user] = @ + 1]
          /\ sessions' = RevokedFor(Extended(r.sid), r.user)
          /\ req' = [req EXCEPT !["account"] = Answer(r, "ok")]
       \/ /\ sessions' = Extended(r.sid)
          /\ req' = [req EXCEPT !["account"] = Answer(r, "failed")]
          /\ UNCHANGED password
    /\ UNCHANGED <<client, faults>>

\* The same transaction, committed for another device of u.
ChangeElsewhere(u) ==
    /\ password[u] < MaxChanges /\ Fault
    /\ password' = [password EXCEPT ![u] = @ + 1]
    /\ sessions' = RevokedFor(sessions, u)
    /\ UNCHANGED <<client, req>>

\* A logout another tab of this browser sent with the cookie, or a page that
\* is gone.
LogoutElsewhere(s) ==
    /\ Valid(s) /\ Fault
    /\ sessions' = [sessions EXCEPT ![s].revoked = TRUE]
    /\ UNCHANGED <<password, client, req>>

\* session_idle_hours without a request.
Expire(s) ==
    /\ sessions[s].live /\ Fault
    /\ sessions' = [sessions EXCEPT ![s].live = FALSE]
    /\ UNCHANGED <<password, client, req>>

(***************************************************************************)
(* The page: what it shows and what it sends.                              *)
(***************************************************************************)

\* The pending state of the session query: nothing loaded, no failure.
Pending == me.data = None /\ ~me.error

\* AuthGuard renders the page, or sends the visitor to the login.
Shown           == page = "app" /\ ~me.error /\ me.data \in Users
AuthGuardLeaves == page = "app" /\ ~Pending /\ (me.error \/ me.data \notin Users)

\* GuestGuard renders the login, or sends the visitor to the overview.
LoginShown       == page = "login" /\ ~Pending /\ me.data \notin Users
GuestGuardLeaves == page = "login" /\ ~Pending /\ me.data \in Users

Sent(k, kind, u) ==
    [req EXCEPT ![k] = [phase |-> "sent", kind |-> kind, sid |-> cookie, user |-> u, pw |-> 0]]

\* The session query is fetched when a guard mounts and, once stale, when the
\* window is focused: at any time, one fetch at once.  A query that has no data
\* yet is pending again; AuthGuard has rendered its redirect by then.
SendMe ==
    /\ req["me"].phase = "idle" /\ ~(AuthGuardLeaves /\ me.data = None)
    /\ req' = Sent("me", "me", None)
    /\ me' = [me EXCEPT !.error = @ /\ me.data # None]
    /\ UNCHANGED <<server, cookie, page, cache, faults>>

\* A page reads, polls or writes the data of the signed-in user.
SendData(kind) ==
    /\ kind \in {"read", "write"} /\ Shown /\ req["data"].phase = "idle"
    /\ req' = Sent("data", kind, None)
    /\ UNCHANGED <<server, client, faults>>

SubmitLogin(u) ==
    /\ LoginShown /\ req["account"].phase = "idle"
    /\ req' = Sent("account", "login", u)
    /\ UNCHANGED <<server, client, faults>>

\* The buttons of the shell and of the account settings.
SubmitAccount(kind) ==
    /\ kind \in {"logout", "change"} /\ Shown /\ req["account"].phase = "idle"
    /\ req' = Sent("account", kind, None)
    /\ UNCHANGED <<server, client, faults>>

\* The read in flight is cancelled; a write is not.
Unread(r) == [r EXCEPT !["data"] = IF @.kind = "read" THEN Idle ELSE @]

\* Leaving a page unmounts the components of its queries, which cancels them.
WithoutQueries(r) == [Unread(r) EXCEPT !["me"] = Idle]

GoTo(p) == page' = p

AuthRedirect ==
    /\ AuthGuardLeaves /\ GoTo("login")
    /\ req' = WithoutQueries(req)
    /\ UNCHANGED <<server, cookie, me, cache, faults>>

GuestRedirect ==
    /\ GuestGuardLeaves /\ GoTo("app")
    /\ req' = WithoutQueries(req)
    /\ UNCHANGED <<server, cookie, me, cache, faults>>

(***************************************************************************)
(* The page: the answers.                                                  *)
(***************************************************************************)

\* A mutant of Is: the query holds the cookie, not the account.
HoldsCookie(u) == [data |-> cookie, error |-> FALSE]

Is(u) == [data |-> u, error |-> FALSE]

\* A mutant of Cleared: the entries of the former account stay.
KeepsEntries == cache

\* clearUserScopedQueryCache: every query but the session's is cancelled and
\* removed.
Cleared    == {}

\* A mutant of Unauthorised: the session query keeps its data.
OnlyClears(r) == cache' = {} /\ req' = Unread(r) /\ UNCHANGED me

\* The listener of dibobo:unauthorized.
Unauthorised(r) ==
    /\ cache' = Cleared
    /\ me' = Is(SignedOut)
    /\ req' = Unread(r)

ReceiveMe ==
    /\ req["me"].phase \in Answers
    /\ me' = IF req["me"].phase = "ok" THEN Is(req["me"].user) ELSE [me EXCEPT !.error = TRUE]
    /\ req' = [req EXCEPT !["me"] = Idle]
    /\ UNCHANGED <<server, cookie, page, cache, faults>>

\* The answer to a read enters the cache; a 401 to a read or a write raises
\* the event.
ReceiveData ==
    LET r == req["data"] IN
    /\ \/ /\ r.phase = "ok"
          /\ cache' = IF r.kind = "read" THEN cache \cup {r.user} ELSE cache
          /\ req' = [req EXCEPT !["data"] = Idle]
          /\ UNCHANGED me
       \/ /\ r.phase = "denied"
          /\ Unauthorised([req EXCEPT !["data"] = Idle])
    /\ UNCHANGED <<server, cookie, page, faults>>

Answered(kind, phase) == req["account"].kind = kind /\ req["account"].phase = phase

\* useLoginMutation and LoginPage: the cookie of the answer, the cache of the
\* former account cleared, the session set, the overview opened.
ReceiveLogin ==
    /\ Answered("login", "ok")
    /\ cookie' = req["account"].sid
    /\ cache' = Cleared
    /\ me' = Is(req["account"].user)
    /\ GoTo("app")
    /\ req' = LET r == Unread([req EXCEPT !["account"] = Idle])
              IN  IF page = "login" THEN WithoutQueries(r) ELSE r
    /\ UNCHANGED <<server, faults>>

\* useLogoutMutation and the shell.
ReceiveLogout ==
    /\ Answered("logout", "ok")
    /\ cookie' = None
    /\ cache' = Cleared
    /\ me' = Is(SignedOut)
    /\ GoTo("login")
    /\ req' = LET r == Unread([req EXCEPT !["account"] = Idle])
              IN  IF page = "app" THEN WithoutQueries(r) ELSE r
    /\ UNCHANGED <<server, faults>>

\* useChangePasswordMutation sets the session and leaves the cache alone.
ReceiveChange ==
    /\ Answered("change", "ok")
    /\ cookie' = None
    /\ me' = Is(SignedOut)
    /\ GoTo("login")
    /\ req' = LET r == [req EXCEPT !["account"] = Idle]
              IN  IF page = "app" THEN WithoutQueries(r) ELSE r
    /\ UNCHANGED <<server, cache, faults>>

\* A refused login shows its message and raises no event; a 401 for a logout
\* or a change raises it; a 400 is shown.
ReceiveRefusal ==
    LET r == req["account"] IN
    /\ \/ /\ r.phase = "denied"
          /\ Unauthorised([req EXCEPT !["account"] = Idle])
       \/ /\ r.phase = "failed"
          /\ req' = [req EXCEPT !["account"] = Idle]
          /\ UNCHANGED <<me, cache>>
    /\ UNCHANGED <<server, cookie, page, faults>>

\* The network loses a request or its answer.  The server may have done the
\* work, and a cookie in a lost answer is not stored.
Lose(k) ==
    /\ req[k].phase \in {"sent"} \cup Answers /\ Fault
    /\ req' = [req EXCEPT ![k] = IF k = "me" THEN Answer(@, "failed") ELSE Idle]
    /\ UNCHANGED <<server, client>>

\* The visitor reloads the page: the cookie is all that stays.
Reload ==
    /\ Fault
    /\ \E p \in {"login", "app"} : GoTo(p)
    /\ me' = [data |-> None, error |-> FALSE]
    /\ cache' = {}
    /\ req' = [k \in Slots |-> Idle]
    /\ UNCHANGED <<server, cookie>>

ServerStep(k) == Authorise(k) \/ Serve(k)
AccountStep   == VerifyLogin \/ CommitLogin \/ CommitLogout \/ CommitChange
ReceiveAccount == ReceiveLogin \/ ReceiveLogout \/ ReceiveChange \/ ReceiveRefusal

Next ==
    \/ \E k \in Slots : ServerStep(k) \/ Lose(k)
    \/ \E kind \in {"read", "write"} : SendData(kind)
    \/ AccountStep
    \/ \E u \in Users : ChangeElsewhere(u) \/ SubmitLogin(u)
    \/ \E s \in Sessions : Expire(s) \/ LogoutElsewhere(s)
    \/ \E kind \in {"logout", "change"} : SubmitAccount(kind)
    \/ SendMe \/ AuthRedirect \/ GuestRedirect \/ Reload
    \/ ReceiveMe \/ ReceiveData \/ ReceiveAccount

Spec == Init /\ [][Next]_vars

\* The server answers, the browser delivers and React renders what has
\* changed.  The session query is sure to be fetched only while a guard waits for
\* it, and nothing says that a page on screen reads again: refetchInterval is on
\* only while the data say polling_enabled.  Faults are bounded: the network
\* comes back.
Fairness ==
    /\ \A k \in Slots : WF_vars(ServerStep(k))
    /\ WF_vars(AccountStep)
    /\ WF_vars(ReceiveMe) /\ WF_vars(ReceiveData) /\ WF_vars(ReceiveAccount)
    /\ WF_vars(SendMe /\ Pending) /\ WF_vars(AuthRedirect) /\ WF_vars(GuestRedirect)

FairSpec == Spec /\ Fairness

(***************************************************************************)
(* Properties.                                                             *)
(***************************************************************************)

\* The cache holds no data of another account than the one the cookie is of,
\* whatever was in flight when the account changed (lib/query-cache.ts).
CacheOfOneAccount == cookie # None => \A u \in cache : u = sessions[cookie].user

\* A session that is still accepted was opened with the current password,
\* unless the password was changed between the login's verification and its
\* insert (change_password revokes all sessions of the user).
OldPasswordOpensNothing ==
    \A s \in Sessions :
        Valid(s) /\ sessions[s].made # password[sessions[s].user] => sessions[s].overlapped

\* A revoked session stays revoked, also when a request that was authorised
\* before the revocation extends it afterwards (get_auth_context).
RevokedForGood ==
    [][\A s \in Sessions : sessions[s].revoked => sessions'[s].revoked]_sessions

\* The page on screen asks the server again and again, because it polls (open
\* holdings and quotes during trading hours: holdings/queries.ts:57,
\* global-market-queries.ts:26) or because the visitor navigates, writes or comes
\* back to its window.  A page of closed holdings, of the journal or of the
\* settings that is left alone does not, and goes on showing the account.
KeepsAsking == []<>(~Shown \/ req["data"].phase = "sent" \/ req["me"].phase = "sent")

\* A page that keeps asking does not go on showing an account whose session has
\* ended: some request is refused and the page is left, or the visitor signs in
\* again (main.tsx, lib/api.ts and auth-guard.tsx).
StaleDisplayEnds ==
    KeepsAsking => ((Shown /\ ~Valid(cookie)) ~> (~Shown \/ Valid(cookie)))

\* A visitor whose session has ended gets to the login page, if the page asks at
\* all (Dibobo-V1-PRD.md:208).
EndedSessionReachesLogin ==
    KeepsAsking => ((page = "app" /\ ~Valid(cookie)) ~> (LoginShown \/ Valid(cookie)))
=============================================================================
