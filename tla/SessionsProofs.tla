--------------------------- MODULE SessionsProofs ---------------------------
(***************************************************************************)
(* What holds of Sessions for every number of requests, users, emails and  *)
(* passwords: a refresh token is spent by its first use but for requests   *)
(* that overlap, a logout ends the sessions of before, and only namesakes  *)
(* keep an account from its login.                                         *)
(*                                                                         *)
(* The argument.  No row of refresh_sessions becomes active again, since   *)
(* only the request that names it inserts it, and that request is over     *)
(* once it is there (Control).  So a row that was revoked before a refresh *)
(* came, by another refresh or by a logout, is found inactive when the     *)
(* refresh looks it up, and the refresh never comes past its lookup        *)
(* (SpentTokens, SpentBefore, EndedBefore).  That requests which were over *)
(* stay over (OverBefore) is what makes "before it came" mean the same in  *)
(* every later state.  For logins the property is inductive once it is     *)
(* known that an account is never rewritten and that who registered it     *)
(* late was not over before the login came.                                *)
(***************************************************************************)
EXTENDS Sessions, TLAPS

\* A refresh that has seen its row active.
Past(t) == op[t] = "refresh" /\ pc[t] \in {"revoke", "insert", "answer", "ok"}

\* Which handler is where, and what it knows there.
Control ==
  \A t \in Requests :
    /\ pc[t] = "idle" => user[t] = None /\ before[t] = {}
    /\ pc[t] = "enrol" => op[t] = "register" /\ user[t] = None
    /\ pc[t] = "credential" => op[t] = "login" /\ user[t] = None
    /\ pc[t] \in {"enrol", "credential"} => want[t] \in Credentials
    /\ pc[t] # "idle" /\ op[t] = "login" => want[t] \in Credentials
    /\ pc[t] \in {"find", "revoke"} => op[t] = "refresh"
    /\ pc[t] = "insert" => op[t] \in {"login", "refresh"}
    /\ pc[t] = "revokeAll" => op[t] = "logout"
    /\ pc[t] = "answer" => op[t] \in {"register", "login", "refresh"}

\* A session has an owner with an account, and a token names a session.
Owned ==
  \A t \in Requests :
    /\ \/ session[t] # "none"
       \/ pc[t] \in {"find", "revoke", "insert"}
       => user[t] \in Users /\ Registered(user[t])
    /\ Past(t) \/ pc[t] = "find" => token[t] \in Requests /\ session[token[t]] # "none"

\* Whoever was over stays over.
OverBefore == \A t \in Requests : \A u \in before[t] : pc[u] \in Over

\* A refresh that has revoked its row has not left it active.
SpentTokens ==
  \A t \in Requests : Past(t) /\ pc[t] # "revoke" => session[token[t]] # "active"

\* No refresh comes past its lookup with a token that was spent before it came.
SpentBefore ==
  \A t \in Requests : Past(t) =>
    \A u \in before[t] : u \in Refreshed => token[u] # token[t]

\* Nor with one whose session a logout had ended.
EndedBefore ==
  \A l \in LoggedOut : \A s \in before[l] : user[s] = user[l] =>
    /\ session[s] # "active"
    /\ \A t \in Requests : Past(t) /\ l \in before[t] => token[t] # s

IInv ==
  /\ TypeOK
  /\ Control
  /\ Owned
  /\ OverBefore
  /\ SpentTokens
  /\ SpentBefore
  /\ EndedBefore
  /\ NamesakesExplainLogins

-----------------------------------------------------------------------------
\* The invariant holds at the start, whatever accounts there are.
LEMMA InitIInv == Init => IInv
<1> SUFFICES ASSUME Init PROVE IInv
  OBVIOUS
<1> USE SessionsAssumption DEF Init
<1>1. TypeOK
  BY DEF TypeOK, Over
<1>2. Control
  BY DEF Control
<1>3. Owned
  BY DEF Owned, Past, Registered
<1>4. OverBefore /\ SpentTokens /\ SpentBefore /\ EndedBefore
  BY DEF OverBefore, SpentTokens, SpentBefore, EndedBefore, Past, LoggedOut
<1>5. NamesakesExplainLogins
  BY DEF NamesakesExplainLogins, Registered
<1>6. QED
  BY <1>1, <1>2, <1>3, <1>4, <1>5 DEF IInv

-----------------------------------------------------------------------------
\* Every step keeps the invariant: one lemma per action.

\* Who arrives finds every session as it was, and nobody knows of it yet.
LEMMA ArriveIInv ==
  ASSUME IInv, NEW t \in Requests,
         NEW o \in {"register", "login", "refresh", "logout"},
         NEW cred \in Credentials \cup {None}, NEW u \in Users \cup {None},
         NEW s \in Requests \cup {None},
         NEW label \in {"enrol", "credential", "find", "revokeAll", "refused"},
         Arrive(t, o, cred, u, s, label),
         label = "enrol" => o = "register" /\ u = None /\ cred \in Credentials,
         label = "credential" => o = "login" /\ u = None,
         o = "login" => label = "credential" /\ cred \in Credentials,
         label = "find" => /\ o = "refresh" /\ u \in Users /\ Registered(u)
                           /\ s \in Requests /\ session[s] # "none",
         label = "revokeAll" => o = "logout"
  PROVE  IInv'
<1> USE SessionsAssumption DEF IInv, Arrive, Goto
<1>1. TypeOK'
  BY DEF TypeOK, Running, Over
<1>2. Control'
  BY DEF TypeOK, Control
<1>3. Owned'
  BY DEF TypeOK, Owned, Past, Registered
<1>4. OverBefore'
  BY DEF OverBefore, Over
<1>5. SpentTokens'
  BY DEF SpentTokens, Past
<1>6. SpentBefore'
  BY DEF SpentTokens, SpentBefore, Past, Refreshed
<1>7. EndedBefore'
  BY DEF OverBefore, EndedBefore, Past, LoggedOut, Over
<1>8. NamesakesExplainLogins'
  BY DEF TypeOK, Control, NamesakesExplainLogins, Registered
<1>9. QED
  BY <1>1, <1>2, <1>3, <1>4, <1>5, <1>6, <1>7, <1>8

\* An account is written once, and its registration is not over yet.
LEMMA CreateTenantAdminIInv ==
  ASSUME IInv, NEW t \in Requests, NEW u \in Users, CreateTenantAdmin(t, u)
  PROVE  IInv'
<1> USE SessionsAssumption DEF IInv, CreateTenantAdmin, Step, Goto
<1>1. TypeOK'
  BY DEF TypeOK, Control, Running
<1>2. Control'
  BY DEF TypeOK, Control
<1>3. Owned'
  BY DEF Control, Owned, Past, Registered
<1>4. OverBefore'
  BY DEF OverBefore, Over
<1>5. SpentTokens'
  BY DEF Control, SpentTokens, Past
<1>6. SpentBefore'
  BY DEF Control, SpentTokens, SpentBefore, Past, Refreshed
<1>7. EndedBefore'
  BY DEF Control, OverBefore, EndedBefore, Past, LoggedOut, Over
<1>8. NamesakesExplainLogins'
  BY DEF TypeOK, Control, OverBefore, NamesakesExplainLogins, Registered, Over
<1>9. QED
  BY <1>1, <1>2, <1>3, <1>4, <1>5, <1>6, <1>7, <1>8

\* A login reaches an account with its email, or is refused by one or for want of one.
LEMMA FindUserCredentialByEmailIInv ==
  ASSUME IInv, NEW t \in Requests, FindUserCredentialByEmail(t)
  PROVE  IInv'
<1> USE SessionsAssumption DEF IInv, FindUserCredentialByEmail, Step, Goto
<1>1. TypeOK'
  BY DEF TypeOK, Running, Over
<1>2. Control'
  BY DEF TypeOK, Control
<1>3. Owned'
  BY DEF TypeOK, Control, Owned, Past, Registered
<1>4. OverBefore'
  BY DEF TypeOK, OverBefore, Over
<1>5. SpentTokens'
  BY DEF TypeOK, Control, SpentTokens, Past
<1>6. SpentBefore'
  BY DEF TypeOK, Control, SpentTokens, SpentBefore, Past, Refreshed
<1>7. EndedBefore'
  BY DEF TypeOK, Control, OverBefore, EndedBefore, Past, LoggedOut, Over
<1>8. NamesakesExplainLogins'
  BY DEF TypeOK, Control, NamesakesExplainLogins, Registered
<1>9. QED
  BY <1>1, <1>2, <1>3, <1>4, <1>5, <1>6, <1>7, <1>8

\* Only an active row is found, so no spent one.
LEMMA FindActiveRefreshSessionIInv ==
  ASSUME IInv, NEW t \in Requests, FindActiveRefreshSession(t)
  PROVE  IInv'
<1> USE SessionsAssumption DEF IInv, FindActiveRefreshSession, Goto
<1>1. TypeOK'
  BY DEF TypeOK, Running, Over
<1>2. Control'
  BY DEF Control
<1>3. Owned'
  BY DEF Owned, Past, Registered
<1>4. OverBefore'
  BY DEF OverBefore, Over
<1>5. SpentTokens'
  BY DEF SpentTokens, Past
<1>6. SpentBefore'
  BY DEF SpentTokens, SpentBefore, Past, Refreshed
<1>7. EndedBefore'
  BY DEF EndedBefore, Past, LoggedOut
<1>8. NamesakesExplainLogins'
  BY DEF Control, NamesakesExplainLogins, Registered
<1>9. QED
  BY <1>1, <1>2, <1>3, <1>4, <1>5, <1>6, <1>7, <1>8

\* A row is revoked, or was not active any more.
LEMMA RevokeRefreshSessionIInv ==
  ASSUME IInv, NEW t \in Requests, RevokeRefreshSession(t)
  PROVE  IInv'
<1> USE SessionsAssumption DEF IInv, RevokeRefreshSession, Goto
<1>1. TypeOK'
  BY DEF TypeOK, Running
<1>2. Control'
  BY DEF Control
<1>3. Owned'
  BY DEF Owned, Past, Registered
<1>4. OverBefore'
  BY DEF OverBefore, Over
<1>5. SpentTokens'
  BY DEF TypeOK, Owned, SpentTokens, Past
<1>6. SpentBefore'
  BY DEF SpentTokens, SpentBefore, Past, Refreshed
<1>7. EndedBefore'
  BY DEF EndedBefore, Past, LoggedOut
<1>8. NamesakesExplainLogins'
  BY DEF Control, NamesakesExplainLogins, Registered
<1>9. QED
  BY <1>1, <1>2, <1>3, <1>4, <1>5, <1>6, <1>7, <1>8

\* The only row that becomes active is new.
LEMMA InsertRefreshSessionIInv ==
  ASSUME IInv, NEW t \in Requests, InsertRefreshSession(t)
  PROVE  IInv'
<1> USE SessionsAssumption DEF IInv, InsertRefreshSession, Goto
<1>1. TypeOK'
  BY DEF TypeOK, Control, Owned, Registered, Running
<1>2. Control'
  BY DEF Control
<1>3. Owned'
  BY DEF Owned, Past, Registered
<1>4. OverBefore'
  BY DEF OverBefore, Over
<1>5. SpentTokens'
  BY DEF TypeOK, Owned, SpentTokens, Past
<1>6. SpentBefore'
  BY DEF SpentTokens, SpentBefore, Past, Refreshed
<1>7. EndedBefore'
  BY DEF OverBefore, EndedBefore, Past, LoggedOut, Over
<1>8. NamesakesExplainLogins'
  BY DEF NamesakesExplainLogins, Registered
<1>9. QED
  BY <1>1, <1>2, <1>3, <1>4, <1>5, <1>6, <1>7, <1>8

\* With its answer a request is over.
LEMMA AnswerIInv ==
  ASSUME IInv, NEW t \in Requests, Answer(t)
  PROVE  IInv'
<1> USE SessionsAssumption DEF IInv, Answer, Goto
<1>1. TypeOK'
  BY DEF TypeOK, Running, Over
<1>2. Control'
  BY DEF Control
<1>3. Owned'
  BY DEF Owned, Past, Registered
<1>4. OverBefore'
  BY DEF OverBefore, Over
<1>5. SpentTokens'
  BY DEF SpentTokens, Past
<1>6. SpentBefore'
  BY DEF OverBefore, SpentTokens, SpentBefore, Past, Refreshed, Over
<1>7. EndedBefore'
  BY DEF Control, EndedBefore, Past, LoggedOut
<1>8. NamesakesExplainLogins'
  BY DEF NamesakesExplainLogins, Registered
<1>9. QED
  BY <1>1, <1>2, <1>3, <1>4, <1>5, <1>6, <1>7, <1>8

\* No session of the user is left active.
LEMMA RevokeAllRefreshSessionsForUserIInv ==
  ASSUME IInv, NEW t \in Requests, RevokeAllRefreshSessionsForUser(t)
  PROVE  IInv'
<1> USE SessionsAssumption DEF IInv, RevokeAllRefreshSessionsForUser, Goto
<1>1. TypeOK'
  BY DEF TypeOK, Control, Running, Over
<1>2. Control'
  BY DEF Control
<1>3. Owned'
  BY DEF Control, Owned, Past, Registered
<1>4. OverBefore'
  BY DEF OverBefore, Over
<1>5. SpentTokens'
  BY DEF Control, Owned, SpentTokens, Past
<1>6. SpentBefore'
  BY DEF Control, SpentTokens, SpentBefore, Past, Refreshed
<1>7. EndedBefore'
  BY DEF TypeOK, Control, OverBefore, EndedBefore, Past, LoggedOut, Over
<1>8. NamesakesExplainLogins'
  BY DEF Control, NamesakesExplainLogins, Registered
<1>9. QED
  BY <1>1, <1>2, <1>3, <1>4, <1>5, <1>6, <1>7, <1>8

\* A failure leaves what is written.
LEMMA FailIInv ==
  ASSUME IInv, NEW t \in Requests, Fail(t)
  PROVE  IInv'
<1> USE SessionsAssumption DEF IInv, Fail, Goto, Running
<1>1. TypeOK'
  BY DEF TypeOK, Running, Over
<1>2. Control'
  BY DEF Control
<1>3. Owned'
  BY DEF Owned, Past, Registered
<1>4. OverBefore'
  BY DEF OverBefore, Over
<1>5. SpentTokens'
  BY DEF SpentTokens, Past
<1>6. SpentBefore'
  BY DEF SpentTokens, SpentBefore, Past, Refreshed
<1>7. EndedBefore'
  BY DEF EndedBefore, Past, LoggedOut
<1>8. NamesakesExplainLogins'
  BY DEF NamesakesExplainLogins, Registered
<1>9. QED
  BY <1>1, <1>2, <1>3, <1>4, <1>5, <1>6, <1>7, <1>8

\* A session that expires is not active any more.
LEMMA ExpireIInv ==
  ASSUME IInv, NEW s \in Requests, Expire(s)
  PROVE  IInv'
<1> USE SessionsAssumption DEF IInv, Expire
<1>1. TypeOK'
  BY DEF TypeOK, Running
<1>2. Control'
  BY DEF Control
<1>3. Owned'
  BY DEF Owned, Past, Registered
<1>4. OverBefore'
  BY DEF OverBefore
<1>5. SpentTokens'
  BY DEF SpentTokens, Past
<1>6. SpentBefore'
  BY DEF SpentTokens, SpentBefore, Past, Refreshed
<1>7. EndedBefore'
  BY DEF EndedBefore, Past, LoggedOut
<1>8. NamesakesExplainLogins'
  BY DEF NamesakesExplainLogins, Registered
<1>9. QED
  BY <1>1, <1>2, <1>3, <1>4, <1>5, <1>6, <1>7, <1>8

\* Every request comes in one of six ways.
LEMMA ArrivalIInv ==
  ASSUME IInv, NEW t \in Requests,
         \/ \E cred \in Credentials : RegisterTenantAdmin(t, cred) \/ Login(t, cred)
         \/ \E s \in Requests : Refresh(t, s) \/ Logout(t, s)
         \/ WrongType(t)
  PROVE  IInv'
<1>1. CASE \E cred \in Credentials : RegisterTenantAdmin(t, cred)
  BY <1>1, ArriveIInv DEF RegisterTenantAdmin
<1>2. CASE \E cred \in Credentials : Login(t, cred)
  BY <1>2, ArriveIInv DEF Login
<1>3. ASSUME NEW s \in Requests, Holds(s)
      PROVE  user[s] \in Users /\ Registered(user[s]) /\ session[s] # "none"
  BY <1>3 DEF Holds, IInv, TypeOK, Owned
<1>4. CASE \E s \in Requests : Refresh(t, s)
  <2>1. PICK s \in Requests : Refresh(t, s)
    BY <1>4
  <2>2. QED
    BY <2>1, <1>3, ArriveIInv DEF Refresh
<1>5. CASE \E s \in Requests : Logout(t, s)
  <2>1. PICK s \in Requests : Logout(t, s)
    BY <1>5
  <2>2. QED
    BY <2>1, <1>3, ArriveIInv DEF Logout
<1>6. CASE WrongType(t)
  BY <1>6, ArriveIInv DEF WrongType
<1>7. QED
  BY <1>1, <1>2, <1>4, <1>5, <1>6

\* Nothing changes in a stuttering step.
LEMMA StutterIInv ==
  ASSUME IInv, UNCHANGED vars
  PROVE  IInv'
BY DEF vars, IInv, TypeOK, Control, Owned, OverBefore, SpentTokens, SpentBefore, EndedBefore,
       NamesakesExplainLogins, Past, Registered, Refreshed, LoggedOut

\* Every step of the system keeps the invariant.
LEMMA NextIInv == IInv /\ [Next]_vars => IInv'
<1> SUFFICES ASSUME IInv, [Next]_vars PROVE IInv'
  OBVIOUS
<1>1. ASSUME NEW t \in Requests,
             \/ \E u \in Users : CreateTenantAdmin(t, u)
             \/ FindUserCredentialByEmail(t) \/ FindActiveRefreshSession(t)
             \/ RevokeRefreshSession(t) \/ InsertRefreshSession(t) \/ Answer(t)
             \/ RevokeAllRefreshSessionsForUser(t) \/ Fail(t) \/ Expire(t)
      PROVE  IInv'
  BY <1>1, CreateTenantAdminIInv, FindUserCredentialByEmailIInv, FindActiveRefreshSessionIInv,
     RevokeRefreshSessionIInv, InsertRefreshSessionIInv, AnswerIInv,
     RevokeAllRefreshSessionsForUserIInv, FailIInv, ExpireIInv
<1>2. CASE Next
  BY <1>1, <1>2, ArrivalIInv DEF Next
<1>3. CASE UNCHANGED vars
  BY <1>3, StutterIInv
<1>4. QED
  BY <1>2, <1>3

\* The strengthened invariant holds of every reachable state.
THEOREM SessionsInvariant == Spec => []IInv
BY InitIInv, NextIInv, PTL DEF Spec

\* Whatever overlaps, fails or expires, rows and requests have their types, a session
\* belongs to a login or refresh of a registered user, and who holds a token has had one
\* stored.
THEOREM SessionsTypeCorrect == Spec => []TypeOK
<1>1. IInv => TypeOK
  BY DEF IInv
<1>2. QED
  BY <1>1, SessionsInvariant, PTL

\* Rotation spends a token: its session is not active after it, and only requests that
\* overlapped can both have spent it.
THEOREM RotationSpends == Spec => []TokenSpentOnce
<1>1. IInv => TokenSpentOnce
  <2> SUFFICES ASSUME IInv, NEW t \in Refreshed
               PROVE  /\ session[token[t]] # "active"
                      /\ \A u \in Refreshed \ {t} : token[u] = token[t] =>
                           u \notin before[t] /\ t \notin before[u]
    BY DEF TokenSpentOnce
  <2>1. t \in Requests /\ Past(t)
    BY DEF Refreshed, Past
  <2>2. session[token[t]] # "active"
    BY <2>1 DEF IInv, SpentTokens, Refreshed
  <2>3. ASSUME NEW u \in Refreshed, token[u] = token[t]
        PROVE  u \notin before[t] /\ t \notin before[u]
    BY <2>1, <2>3 DEF IInv, SpentBefore, Refreshed, Past
  <2>4. QED
    BY <2>2, <2>3
<1>2. QED
  BY <1>1, SessionsInvariant, PTL

\* A logout ends the sessions of the requests that were over before it came: they are not
\* active, and their tokens bring nothing to whoever comes after it.
THEOREM LogoutEnds == Spec => []LogoutEndsSessions
<1>1. IInv => LogoutEndsSessions
  BY DEF IInv, EndedBefore, LogoutEndsSessions, Refreshed, Past
<1>2. QED
  BY <1>1, SessionsInvariant, PTL

\* A login misses the account with its email and password only for another account of
\* the same email.
THEOREM OnlyNamesakesMislead == Spec => []NamesakesExplainLogins
<1>1. IInv => NamesakesExplainLogins
  BY DEF IInv
<1>2. QED
  BY <1>1, SessionsInvariant, PTL
=============================================================================
