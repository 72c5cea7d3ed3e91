------------------------------ MODULE Sessions ------------------------------
(***************************************************************************)
(* Accounts and refresh sessions of the authentication service: Register,  *)
(* Login, Refresh and Logout on the tables users and refresh_sessions.     *)
(*                                                                         *)
(* A registration makes a tenant of its own with its first user, in one    *)
(* transaction; the index on users is on (tenant_id, email), so the same   *)
(* email can be registered again, and Login, which is given no tenant,     *)
(* takes one row of that email.  A refresh token is a signed JWT that      *)
(* names a row of refresh_sessions, and the row decides whether the token  *)
(* is still worth anything.  Login, Refresh and Logout open no             *)
(* transaction: a refresh looks the row up, revokes it and inserts the     *)
(* next one in statements of their own.                                    *)
(*                                                                         *)
(* A session is named by the request that inserts it; jti are fresh uuids. *)
(* Hashes and signatures are left out, a token being what was signed; the  *)
(* claims of a token and the owner of its row are written from the same    *)
(* credential, and nothing revokes an access token.                        *)
(*                                                                         *)
(* Definitions marked FAULTY are not part of the specification: each is    *)
(* the one after it with a plausible slip.                                 *)
(***************************************************************************)
EXTENDS Naturals, FiniteSets

CONSTANTS
  Requests,  \* calls of the four handlers
  Users,     \* rows of users, of a tenant each
  Emails,    \* after TrimSpace and ToLower
  Passwords,
  None

Credentials == [email : Emails, password : Passwords]

ASSUME SessionsAssumption ==
  None \notin Requests /\ None \notin Users /\ None \notin Credentials

VARIABLES
  account,  \* the row of a user: its email and password, None if there is none
  session,  \* the row that a request inserted: "none", "active", "revoked", "expired"
  op,       \* "register", "login", "refresh" or "logout"
  want,     \* the email and password a registration or login gives
  user,     \* whose request it is, None while that is not known
  token,    \* the session whose token a refresh presents
  pc,       \* where the handler is
  before    \* the requests that were over when this one came (history)

vars == <<account, session, op, want, user, token, pc, before>>

Running == {"enrol", "credential", "find", "revoke", "insert", "answer", "revokeAll"}
Over == {"ok", "refused", "failed"}

TypeOK ==
  /\ account \in [Users -> Credentials \cup {None}]
  /\ session \in [Requests -> {"none", "active", "revoked", "expired"}]
  /\ op \in [Requests -> {"register", "login", "refresh", "logout", None}]
  /\ want \in [Requests -> Credentials \cup {None}]
  /\ user \in [Requests -> Users \cup {None}]
  /\ token \in [Requests -> Requests \cup {None}]
  /\ pc \in [Requests -> {"idle"} \cup Running \cup Over]
  /\ before \in [Requests -> SUBSET Requests]
  /\ \A t \in Requests :
       /\ session[t] # "none" => /\ op[t] \in {"login", "refresh"}
                                 /\ pc[t] \in {"answer", "ok", "failed"}
                                 /\ account[user[t]] # None
       /\ op[t] \in {"login", "refresh"} /\ pc[t] \in {"answer", "ok"} => session[t] # "none"

\* Some accounts are there at the start, and one login is over.
Init ==
  /\ account \in [Users -> Credentials \cup {None}]
  /\ \E first \in Requests, u \in Users :
       LET Only(x, rest) == [t \in Requests |-> IF t = first THEN x ELSE rest]
       IN /\ account[u] # None
          /\ session = Only("active", "none")
          /\ op = Only("login", None)
          /\ want = Only(account[u], None)
          /\ user = Only(u, None)
          /\ pc = Only("ok", "idle")
  /\ token = [t \in Requests |-> None]
  /\ before = [t \in Requests |-> {}]

-----------------------------------------------------------------------------
Goto(t, label) == pc' = [pc EXCEPT ![t] = label]

\* A client has the tokens it was answered with.
Holds(s) == pc[s] = "ok" /\ op[s] \in {"login", "refresh"}

Arrive(t, o, cred, u, s, label) ==
  /\ pc[t] = "idle"
  /\ op' = [op EXCEPT ![t] = o]
  /\ want' = [want EXCEPT ![t] = cred]
  /\ user' = [user EXCEPT ![t] = u]
  /\ token' = [token EXCEPT ![t] = s]
  /\ before' = [before EXCEPT ![t] = {r \in Requests : pc[r] \in Over}]
  /\ Goto(t, label)
  /\ UNCHANGED <<account, session>>

Step(t, label) ==
  /\ Goto(t, label)
  /\ UNCHANGED <<op, want, token, before>>

RegisterTenantAdmin(t, cred) == Arrive(t, "register", cred, None, None, "enrol")

Login(t, cred) == Arrive(t, "login", cred, None, None, "credential")

\* Old tokens are as good as any to begin with.
Refresh(t, s) == Holds(s) /\ Arrive(t, "refresh", None, user[s], s, "find")

\* With the access token that came with s.
Logout(t, s) == Holds(s) /\ Arrive(t, "logout", None, user[s], None, "revokeAll")

\* ParseRefresh and ParseAccess try a token with both secrets, so each can read the
\* token of the other; then they ask for its type.  (The claims are not looked at.)
WrongType(t) ==
  /\ \E s \in Requests : Holds(s)
  /\ \E o \in {"refresh", "logout"} : Arrive(t, o, None, None, None, "refused")

\* One transaction.  The tenant is new, so no email is refused.
CreateTenantAdmin(t, u) ==
  /\ pc[t] = "enrol"
  /\ account[u] = None
  /\ account' = [account EXCEPT ![u] = want[t]]
  /\ user' = [user EXCEPT ![t] = u]
  /\ Step(t, "answer")
  /\ UNCHANGED session

Registered(u) == account[u] # None

\* FAULTY: any row will do.
FindUserCredentialAnyhow(t) ==
  /\ pc[t] = "credential"
  /\ \E u \in {v \in Users : Registered(v)} :
       IF account[u].password = want[t].password
       THEN user' = [user EXCEPT ![t] = u] /\ Step(t, "insert")
       ELSE UNCHANGED user /\ Step(t, "refused")
  /\ UNCHANGED <<account, session>>

\* LIMIT 1 without an order among the rows of the email, then the password of that row.
FindUserCredentialByEmail(t) ==
  LET rows == {u \in Users : Registered(u) /\ account[u].email = want[t].email}
  IN /\ pc[t] = "credential"
     /\ \/ rows = {} /\ UNCHANGED user /\ Step(t, "refused")
        \/ \E u \in rows :
             IF account[u].password = want[t].password
             THEN user' = [user EXCEPT ![t] = u] /\ Step(t, "insert")
             ELSE UNCHANGED user /\ Step(t, "refused")
     /\ UNCHANGED <<account, session>>

\* FAULTY: a token with a good signature is taken at its word.
FindRefreshSession(t) ==
  /\ pc[t] = "find"
  /\ Goto(t, "revoke")
  /\ UNCHANGED <<account, session, op, want, user, token, before>>

\* ErrUnauthorized unless the row is active; then the user is looked up.
FindActiveRefreshSession(t) ==
  /\ pc[t] = "find"
  /\ Goto(t, IF session[token[t]] = "active" THEN "revoke" ELSE "refused")
  /\ UNCHANGED <<account, session, op, want, user, token, before>>

\* FAULTY: the old session is left to expire.
KeepRefreshSession(t) ==
  /\ pc[t] = "revoke"
  /\ Goto(t, "insert")
  /\ UNCHANGED <<account, session, op, want, user, token, before>>

\* UPDATE ... WHERE revoked_at IS NULL; how many rows it found is not asked.
RevokeRefreshSession(t) ==
  /\ pc[t] = "revoke"
  /\ session' = [session EXCEPT ![token[t]] = IF @ = "active" THEN "revoked" ELSE @]
  /\ Goto(t, "insert")
  /\ UNCHANGED <<account, op, want, user, token, before>>

\* FAULTY: the next token has the jti of the old one.
ReviveRefreshSession(t) ==
  /\ pc[t] = "insert"
  /\ session' = [session EXCEPT ![IF token[t] = None THEN t ELSE token[t]] = "active"]
  /\ Goto(t, "answer")
  /\ UNCHANGED <<account, op, want, user, token, before>>

InsertRefreshSession(t) ==
  /\ pc[t] = "insert"
  /\ session' = [session EXCEPT ![t] = "active"]
  /\ Goto(t, "answer")
  /\ UNCHANGED <<account, op, want, user, token, before>>

Answer(t) ==
  /\ pc[t] = "answer"
  /\ Goto(t, "ok")
  /\ UNCHANGED <<account, session, op, want, user, token, before>>

RevokeAllRefreshSessionsForUser(t) ==
  /\ pc[t] = "revokeAll"
  /\ session' = [s \in Requests |->
       IF user[s] = user[t] /\ session[s] = "active" THEN "revoked" ELSE session[s]]
  /\ Goto(t, "ok")
  /\ UNCHANGED <<account, op, want, user, token, before>>

\* An error of the database, the timeout of the endpoint, a crash,
\* an answer that gets lost.  What is written stays.
Fail(t) ==
  /\ pc[t] \in Running
  /\ Goto(t, "failed")
  /\ UNCHANGED <<account, session, op, want, user, token, before>>

\* expires_at passes.
Expire(s) ==
  /\ session[s] = "active"
  /\ session' = [session EXCEPT ![s] = "expired"]
  /\ UNCHANGED <<account, op, want, user, token, pc, before>>

Next ==
  \E t \in Requests :
    \/ \E cred \in Credentials : RegisterTenantAdmin(t, cred) \/ Login(t, cred)
    \/ \E s \in Requests : Refresh(t, s) \/ Logout(t, s)
    \/ WrongType(t)
    \/ \E u \in Users : CreateTenantAdmin(t, u)
    \/ FindUserCredentialByEmail(t)
    \/ FindActiveRefreshSession(t) \/ RevokeRefreshSession(t)
    \/ InsertRefreshSession(t) \/ Answer(t)
    \/ RevokeAllRefreshSessionsForUser(t)
    \/ Fail(t)
    \/ Expire(t)

Spec == Init /\ [][Next]_vars

-----------------------------------------------------------------------------
\* Properties

Refreshed == {t \in Requests : op[t] = "refresh" /\ pc[t] = "ok"}

\* Rotation: a token that has brought a new one is spent, and it can have brought
\* two only to requests that overlapped.
TokenSpentOnce ==
  \A t \in Refreshed :
    /\ session[token[t]] # "active"
    /\ \A u \in Refreshed \ {t} : token[u] = token[t] => u \notin before[t] /\ t \notin before[u]

LoggedOut == {t \in Requests : op[t] = "logout" /\ pc[t] = "ok"}

\* Logout "revokes all refresh sessions for this user" and "after logout, the old
\* refresh JWT should return 401" (README.md): the sessions of requests that were
\* over before the logout came are not active, and their tokens bring nothing to
\* whoever comes after it.  A refresh that was under way may survive it.
LogoutEndsSessions ==
  \A l \in LoggedOut : \A s \in before[l] : user[s] = user[l] =>
    /\ session[s] # "active"
    /\ \A t \in Refreshed : l \in before[t] => token[t] # s

\* Who may log in.  A login with the email and the password of an account that was
\* there when it came is refused only if another account has that email, and two
\* logins with the same email and password that reach different accounts reach two
\* of the same email.  (A registration whose answer got lost and is tried again
\* makes such a pair.)
NamesakesExplainLogins ==
  \A t \in Requests : op[t] = "login" /\ pc[t] \in {"refused", "insert", "answer", "ok"} =>
    \A u \in Users \ {user[t]} :
      /\ account[u] = want[t]
      /\ \A r \in Requests : op[r] = "register" /\ user[r] = u => r \in before[t]
      => \E v \in Users \ {u} : Registered(v) /\ account[v].email = account[u].email
=============================================================================
