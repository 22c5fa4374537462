------------------------------ MODULE Accounts ------------------------------
(***************************************************************************)
(* Login, refresh tokens and user management of the Go business layer.     *)
(*                                                                         *)
(* net/http runs every request in a goroutine of its own.  A request makes *)
(* one database call after the other, each of them one SQL statement and   *)
(* atomic, and other requests run in between.  A database call may fail,   *)
(* may take effect although its answer is lost, and is cut short when the  *)
(* client goes away, because it runs under the context of the request; the *)
(* handler then returns.  The process may stop at any time, the database   *)
(* stays.                                                                  *)
(*                                                                         *)
(* Passwords given are right, tokens presented are signed; access tokens   *)
(* past their time are gone.  Requests that change nothing (me, the list   *)
(* of users, refusals) are left out, and so is the audit log, which is     *)
(* written at the end of a request, fails unnoticed and is never read.     *)
(***************************************************************************)
EXTENDS Naturals, Sequences

CONSTANTS
  Users,        \* user names
  Admin,        \* bootstrap_admin_username
  Requests,     \* requests that run at the same time
  MaxSessions,  \* bound on logins
  MaxTokens,    \* bound on refresh tokens
  MaxChanges    \* bound on changes to the users

ASSUME AccountsAssumption ==
  /\ Admin \in Users
  /\ MaxSessions \in Nat /\ MaxTokens \in Nat /\ MaxChanges \in Nat

\* operator and viewer are told apart nowhere.
Roles == {"admin", "viewer"}

VARIABLES
  account,   \* table users: role and active of each name
  refresh,   \* table refresh_tokens
  access,    \* access tokens clients have
  held,      \* refresh tokens clients have, by their row
  request,   \* what each request has yet to do
  sessions,  \* history: logins
  changes    \* history: changes to the users

accountsVars == <<account, refresh, access, held, request, sessions, changes>>

Status    == [active : BOOLEAN, role : Roles]
NoAccount == [active |-> FALSE, role |-> "none"]

Token == [user : Users, revoked : BOOLEAN, expired : BOOLEAN, session : Nat]
\* A running request: the database call that comes next, the user and the role
\* found, the session it is about, and every status the user has had since it
\* began (both history).
Running == [step : {"find", "tokens", "revoke", "change"}, user : Users,
            role : Roles \cup {"none"}, session : Nat, seen : SUBSET (Status \cup {NoAccount})]
Idle == [step |-> "idle"]

\* store.Bootstrap
AccountsInit ==
  /\ account = [u \in Users |-> IF u = Admin THEN [active |-> TRUE, role |-> "admin"]
                                             ELSE NoAccount]
  /\ refresh = <<>>
  /\ access = {}
  /\ held = {}
  /\ request = [h \in Requests |-> Idle]
  /\ sessions = 0
  /\ changes = 0

Begin(step, u, session) ==
  [step |-> step, user |-> u, role |-> account[u].role, session |-> session,
   seen |-> {account[u]}]

\* A database call fails, the client goes away or the process stops.
Ends(h) ==
  /\ request' = [request EXCEPT ![h] = Idle]
  /\ UNCHANGED <<account, refresh, access, held, sessions, changes>>

-----------------------------------------------------------------------------
(* Sessions                                                                *)

\* Mutant: users who are not active may log in.
Login_Inactive(h, u) ==
  /\ request[h] = Idle
  /\ account[u] # NoAccount
  /\ sessions < MaxSessions
  /\ sessions' = sessions + 1
  /\ request' = [request EXCEPT ![h] = Begin("tokens", u, sessions + 1)]
  /\ UNCHANGED <<account, refresh, access, held, changes>>

\* login, to FindByUsername and VerifyPassword.
Login(h, u) ==
  /\ request[h] = Idle
  /\ account[u].active
  /\ sessions < MaxSessions
  /\ sessions' = sessions + 1
  /\ request' = [request EXCEPT ![h] = Begin("tokens", u, sessions + 1)]
  /\ UNCHANGED <<account, refresh, access, held, changes>>

Live(t) == ~refresh[t].revoked /\ ~refresh[t].expired

\* Mutant: a token that is revoked is good until it expires.
UseRefresh_RevokedAccepted(t) ==
  /\ ~refresh[t].expired
  /\ refresh' = [refresh EXCEPT ![t].revoked = TRUE]

\* store.UseRefresh: one UPDATE tests and revokes.
UseRefresh(t) ==
  /\ Live(t)
  /\ refresh' = [refresh EXCEPT ![t].revoked = TRUE]

\* refresh, to UseRefresh.
Refresh(h, t, answered) ==
  /\ request[h] = Idle
  /\ UseRefresh(t)
  /\ request' = IF answered
                THEN [request EXCEPT ![h] = Begin("find", refresh[t].user, refresh[t].session)]
                ELSE request
  /\ UNCHANGED <<account, access, held, sessions, changes>>

\* refresh, Find: the token is used up, whether the user is active or not.
RefreshFind(h) ==
  /\ request[h].step = "find"
  /\ request' = IF account[request[h].user].active
                THEN [request EXCEPT ![h].step = "tokens",
                                     ![h].role = account[request[h].user].role]
                ELSE [request EXCEPT ![h] = Idle]
  /\ UNCHANGED <<account, refresh, access, held, sessions, changes>>

\* store.SaveRefresh
SaveRefresh(r) ==
  /\ Len(refresh) < MaxTokens
  /\ refresh' = Append(refresh, [user |-> r.user, revoked |-> FALSE, expired |-> FALSE,
                                 session |-> r.session])

\* The client gets both tokens of request r, the refresh token in row t.
AnswerTokens(r, t) ==
  /\ access' = access \cup {[user |-> r.user, role |-> r.role]}
  /\ held' = held \cup {t}

\* Mutant: the tokens are handed out although the refresh token is not stored.
Tokens_ErrorIgnored(h, answered) ==
  /\ request[h].step = "tokens"
  /\ IF answered THEN SaveRefresh(request[h]) ELSE UNCHANGED refresh
  /\ AnswerTokens(request[h], Len(refresh) + 1)
  /\ request' = [request EXCEPT ![h] = Idle]
  /\ UNCHANGED <<account, sessions, changes>>

\* tokens: signs an access token, stores a refresh token and answers with both.
Tokens(h, answered) ==
  /\ request[h].step = "tokens"
  /\ SaveRefresh(request[h])
  /\ IF answered THEN AnswerTokens(request[h], Len(refresh) + 1) ELSE UNCHANGED <<access, held>>
  /\ request' = [request EXCEPT ![h] = Idle]
  /\ UNCHANGED <<account, sessions, changes>>

\* The time of a revoked token makes no difference.
Expire(t) ==
  /\ Live(t)
  /\ refresh' = [refresh EXCEPT ![t].expired = TRUE]
  /\ UNCHANGED <<account, access, held, request, sessions, changes>>

AccessExpires(a) ==
  /\ access' = access \ {a}
  /\ UNCHANGED <<account, refresh, held, request, sessions, changes>>

-----------------------------------------------------------------------------
(* Requests with an access token                                           *)

\* auth: the user is looked up again; the role in the token is not used.
Logout(h, a) ==
  /\ request[h] = Idle
  /\ account[a.user].active
  /\ request' = [request EXCEPT ![h] = Begin("revoke", a.user, 0)]
  /\ UNCHANGED <<account, refresh, access, held, sessions, changes>>

\* logout: any refresh token, which need not be the user's.
Revoke(h, t) ==
  /\ request[h].step = "revoke"
  /\ UseRefresh(t)
  /\ request' = [request EXCEPT ![h] = Idle]
  /\ UNCHANGED <<account, access, held, sessions, changes>>

\* Mutant: the role in the access token counts.
AdminRequest_RoleInToken(h, a) ==
  /\ request[h] = Idle
  /\ account[a.user].active
  /\ a.role = "admin"
  /\ request' = [request EXCEPT ![h] = Begin("change", a.user, 0)]
  /\ UNCHANGED <<account, refresh, access, held, sessions, changes>>

\* auth and admin, then users or user up to its UPDATE or INSERT.
AdminRequest(h, a) ==
  /\ request[h] = Idle
  /\ account[a.user].active
  /\ account[a.user].role = "admin"
  /\ request' = [request EXCEPT ![h] = Begin("change", a.user, 0)]
  /\ UNCHANGED <<account, refresh, access, held, sessions, changes>>

\* User u gets the status: running requests of u see it from now on.
SetStatus(u, status) == account' = [account EXCEPT ![u] = status]

Seeing(r, u, status) ==
  IF r # Idle /\ r.user = u THEN [r EXCEPT !.seen = @ \cup {status}] ELSE r

\* The change is made, answered or not; a failure to log it is ignored.
Changed(h, u, status) ==
  /\ changes < MaxChanges
  /\ changes' = changes + 1
  /\ SetStatus(u, status)
  /\ request' = [k \in Requests |-> IF k = h THEN Idle ELSE Seeing(request[k], u, status)]
  /\ UNCHANGED <<refresh, access, held, sessions>>

\* store.Create: the name is new.
Create(h, u, status) ==
  /\ request[h].step = "change"
  /\ account[u] = NoAccount
  /\ Changed(h, u, status)

\* store.Update of the role and active, whoever u is.
Update(h, u, status) ==
  /\ request[h].step = "change"
  /\ account[u] # NoAccount
  /\ Changed(h, u, status)

-----------------------------------------------------------------------------
Session(h) ==
  \/ \E u \in Users : Login(h, u)
  \/ \E t \in held, answered \in BOOLEAN : Refresh(h, t, answered)
  \/ RefreshFind(h)
  \/ \E answered \in BOOLEAN : Tokens(h, answered)

WithAccess(h) ==
  \/ \E a \in access : Logout(h, a) \/ AdminRequest(h, a)
  \/ \E t \in held : Revoke(h, t)
  \/ \E u \in Users, status \in Status : Create(h, u, status) \/ Update(h, u, status)

AccountsNext ==
  \/ \E h \in Requests : Session(h) \/ WithAccess(h) \/ Ends(h)
  \/ \E t \in 1..Len(refresh) : Expire(t)
  \/ \E a \in access : AccessExpires(a)

AccountsSpec == AccountsInit /\ [][AccountsNext]_accountsVars

-----------------------------------------------------------------------------
(* Properties                                                              *)

AccountsTypeOK ==
  /\ account \in [Users -> Status \cup {NoAccount}]
  /\ refresh \in Seq(Token)
  /\ access \in SUBSET [user : Users, role : Roles]
  /\ held \in SUBSET (1..Len(refresh))
  /\ request \in [Requests -> Running \cup {Idle}]
  /\ sessions \in Nat
  /\ changes \in Nat

Carries(h) == request[h].step \in {"find", "tokens"}

\* A login goes on along one line of refresh tokens: there is one token that can
\* be used, or one request about to store the next, and never two, however often
\* a token is presented at the same time, and whatever answers are lost.
SessionExclusive ==
  /\ \A t, v \in 1..Len(refresh) :
       t # v /\ ~refresh[t].revoked /\ ~refresh[v].revoked =>
         refresh[t].session # refresh[v].session
  /\ \A h \in Requests, t \in 1..Len(refresh) :
       Carries(h) /\ ~refresh[t].revoked => request[h].session # refresh[t].session
  /\ \A h, k \in Requests :
       h # k /\ Carries(h) /\ Carries(k) => request[h].session # request[k].session

\* A request that is about to change a user was made by an active admin, and one
\* about to hand out tokens by an active user who has the role in the token, at
\* some time since it began, although roles change while it runs and access
\* tokens carry old ones.
RequestsAuthorized ==
  \A h \in Requests :
    /\ request[h].step = "change" => [active |-> TRUE, role |-> "admin"] \in request[h].seen
    /\ request[h].step = "tokens" =>
         [active |-> TRUE, role |-> request[h].role] \in request[h].seen

SessionsOf(u) ==
  {refresh[t].session : t \in {x \in 1..Len(refresh) : refresh[x].user = u /\ Live(x)}}
    \cup {request[h].session : h \in {x \in Requests : Carries(x) /\ request[x].user = u}}

\* While a user is not active, the user's sessions only end.
SessionsOnlyEnd ==
  [][\A u \in Users : ~account[u].active /\ ~account'[u].active =>
       SessionsOf(u)' \subseteq SessionsOf(u)]_accountsVars
=============================================================================
