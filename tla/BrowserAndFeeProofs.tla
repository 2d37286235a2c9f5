------------------------- MODULE BrowserAndFeeProofs -------------------------
(***************************************************************************)
(* Theorems about Browser, for any numbers of users, requests, tabs,       *)
(* sessions and tokens, and about AppealPayment, for any appeals and       *)
(* calls.  The two components share nothing but this module.               *)
(***************************************************************************)
EXTENDS Browser, AppealPayment, TLAPS

-----------------------------------------------------------------------------
(* Types.                                                                  *)

\* A handler that waits has read a row of a user, and the cookie is a token of the row.
RowIsRead(q) ==
    request[q].stage \in {"idle", "rotate", "revoke"} =>
        /\ request[q].row \in Sessions /\ request[q].cookie \in Tokens
        /\ session[request[q].row].user # None
        /\ opened[request[q].cookie] = request[q].row

RowsAreRead == \A q \in Requests : RowIsRead(q)

\* The answer of a request is well typed.
LEMMA AnsweredIsTyped ==
    ASSUME request \in [Requests -> RequestRows], NEW q \in Requests,
           NEW token \in Tokens \cup {None}, NEW owner \in Users \cup {None}
    PROVE  Answered(q, token, owner) \in [Requests -> RequestRows]
  <1> DEFINE r == [request[q] EXCEPT !.stage = "answered", !.reply = token, !.owner = owner,
                                     !.row = None, !.cookie = None]
  <1>1. r \in RequestRows
    <2>1. "answered" \in Stages
      BY DEF Stages
    <2>2. request[q] \in RequestRows
      OBVIOUS
    <2>3. ASSUME NEW old \in RequestRows, NEW answered \in Stages
          PROVE  [old EXCEPT !.stage = answered, !.reply = token, !.owner = owner,
                             !.row = None, !.cookie = None] \in RequestRows
      BY DEF RequestRows
    <2> QED
      BY <2>1, <2>2, <2>3
  <1>2. Answered(q, token, owner) = [request EXCEPT ![q] = r]
    BY Zenon DEF Answered
  <1> QED
    BY <1>1, <1>2

\* So is a row that is revoked.
LEMMA RevokedIsTyped ==
    ASSUME session \in [Sessions -> SessionRows], NEW s \in Sessions, NEW token \in Tokens
    PROVE  [session[s] EXCEPT !.revoked = TRUE, !.token = token] \in SessionRows
  <1> DEFINE r == session[s]
  <1>1. r \in SessionRows
    OBVIOUS
  <1> HIDE DEF r
  <1>2. [r EXCEPT !.revoked = TRUE, !.token = token] \in SessionRows
    BY <1>1 DEF SessionRows
  <1> QED
    BY <1>2 DEF r

\* So is a refusal.
LEMMA RefusedIsTyped ==
    ASSUME request \in [Requests -> RequestRows], NEW q \in Requests
    PROVE  Refused(q) \in [Requests -> RequestRows]
  BY AnsweredIsTyped DEF Refused

\* A browser that was never used, and no sessions, are well typed.
LEMMA InitTypes == Init => TypeOK
  <1>1. NoSession \in SessionRows
    BY DEF NoSession, SessionRows, Ages
  <1>2. NoRequest \in RequestRows
    BY DEF NoRequest, RequestRows, Stages
  <1> SUFFICES ASSUME Init
               PROVE  TypeOK
    OBVIOUS
  <1>3. session \in [Sessions -> SessionRows] /\ request \in [Requests -> RequestRows]
    BY <1>1, <1>2 DEF Init, SessionsInit
  <1>4. opened \in [Tokens -> Sessions \cup {None}] /\ exchanged \in [Tokens -> Nat]
    BY DEF Init, SessionsInit
  <1>5. stored \in [Tabs -> Users \cup {None}] /\ shown \in [Tabs -> Users \cup {None}]
    BY DEF Init
  <1> QED
    BY <1>3, <1>4, <1>5 DEF Init, TypeOK, SessionsTypeOK

\* Every step keeps the types.
LEMMA StepTypes == TypeOK /\ RowsAreRead /\ [Next]_vars => TypeOK'
  <1> SUFFICES ASSUME TypeOK, RowsAreRead, [Next]_vars
               PROVE  TypeOK'
    OBVIOUS
  <1> USE DEF TypeOK, SessionsTypeOK
  <1>1. ASSUME NEW b \in Tabs, NEW q \in Requests, NEW u \in Users,
               SubmitLogin(b, q, u)
        PROVE  TypeOK'
    BY <1>1 DEF SubmitLogin, Send, tabVars, browserVars, RequestRows, Stages, NoRequest
  <1>2. ASSUME NEW b \in Tabs, NEW q \in Requests,
               SubmitRefresh(b, q)
        PROVE  TypeOK'
    BY <1>2 DEF SubmitRefresh, Send, tabVars, browserVars, RequestRows, Stages, NoRequest
  <1>3. ASSUME NEW b \in Tabs, NEW q \in Requests,
               SubmitLogout(b, q)
        PROVE  TypeOK'
    BY <1>3 DEF SubmitLogout, Send, tabVars, browserVars, RequestRows, Stages, NoRequest
  <1>4. ASSUME NEW b \in Tabs,
               StoreExpires(b)
        PROVE  TypeOK'
    BY <1>4 DEF StoreExpires, tabVars, browserVars, RequestRows, Stages, NoRequest
  <1>5. ASSUME NEW b \in Tabs,
               Reload(b)
        PROVE  TypeOK'
    BY <1>5 DEF Reload, Abandon, tabVars, browserVars, RequestRows, Stages, NoRequest
  <1>6. ASSUME NEW q \in Requests,
               ReceiveLogin(q)
        PROVE  TypeOK'
    BY <1>6
       DEF ReceiveLogin, Arrives, Done, tabVars, browserVars, RequestRows, Stages, NoRequest
  <1>7. ASSUME NEW q \in Requests,
               ReceiveRefresh(q)
        PROVE  TypeOK'
    BY <1>7
       DEF ReceiveRefresh, Arrives, Done, tabVars, browserVars, RequestRows, Stages, NoRequest
  <1>8. ASSUME NEW q \in Requests,
               ReceiveRefusal(q)
        PROVE  TypeOK'
    BY <1>8
       DEF ReceiveRefusal, Arrives, Done, Abandon, SignOut, tabVars, browserVars, RequestRows,
           Stages, NoRequest
  <1>9. ASSUME NEW q \in Requests,
               ReceiveLogout(q)
        PROVE  TypeOK'
    BY <1>9
       DEF ReceiveLogout, Arrives, Done, SignOut, tabVars, browserVars, RequestRows, Stages,
           NoRequest
  <1>10. ASSUME NEW q \in Requests,
               ArriveUnawaited(q)
        PROVE  TypeOK'
    BY <1>10 DEF ArriveUnawaited, Done, tabVars, browserVars, RequestRows, Stages, NoRequest
  <1>11. ASSUME NEW q \in Requests,
               LoseAnswer(q)
        PROVE  TypeOK'
    BY <1>11
       DEF LoseAnswer, Arrives, Done, SignOut, tabVars, browserVars, RequestRows, Stages,
           NoRequest
  <1>12. ASSUME NEW q \in Requests, NEW s \in Sessions, NEW t \in Tokens,
               LogIn(q, s, t), UNCHANGED browserVars
        PROVE  TypeOK'
    <2>1. session' \in [Sessions -> SessionRows]
      BY <1>12 DEF LogIn, Sent, SessionRows, RequestRows, NoSession, Ages
    <2>2. request' \in [Requests -> RequestRows]
      BY <1>12, AnsweredIsTyped DEF LogIn, RequestRows
    <2> QED
      BY <1>12, <2>1, <2>2 DEF LogIn, Issue, tabVars, browserVars
  <1>13. ASSUME NEW q \in Requests, NEW s \in Sessions,
               ReadForRefresh(q, s), UNCHANGED browserVars
        PROVE  TypeOK'
    BY <1>13
       DEF ReadForRefresh, Sent, Refreshable, FoundBy, Unrevoked, tabVars, browserVars,
           RequestRows, Stages, NoRequest
  <1>14. ASSUME NEW q \in Requests,
               RefuseRefresh(q), UNCHANGED browserVars
        PROVE  TypeOK'
    <2>1. request' \in [Requests -> RequestRows]
      BY <1>14, RefusedIsTyped DEF RefuseRefresh
    <2> QED
      BY <1>14, <2>1 DEF RefuseRefresh, tabVars, browserVars
  <1>15. ASSUME NEW q \in Requests, NEW t \in Tokens,
               Rotate(q, t), UNCHANGED browserVars
        PROVE  TypeOK'
    <2> DEFINE s == request[q].row
               r == [session[s] EXCEPT !.token = t,
                       !.age = IF @ = "expired" THEN @ ELSE "active"]
    <2>1. s \in Sessions /\ request[q].cookie \in Tokens
      BY <1>15 DEF Rotate, RowsAreRead, RowIsRead
    <2>2. session[s] \in SessionRows
      BY <2>1
    <2>3. r \in SessionRows
      BY <2>2 DEF SessionRows, Ages
    <2>4. session' = [session EXCEPT ![s] = r]
      BY <1>15, Zenon DEF Rotate
    <2>5. session' \in [Sessions -> SessionRows]
      BY <2>1, <2>3, <2>4
    <2>6. session[s].user \in Users \cup {None}
      BY <2>2 DEF SessionRows
    <2>7. request' \in [Requests -> RequestRows]
      BY <1>15, <2>6, AnsweredIsTyped DEF Rotate
    <2>8. exchanged' \in [Tokens -> Nat]
      BY <1>15, <2>1 DEF Rotate
    <2>9. opened' \in [Tokens -> Sessions \cup {None}]
      BY <1>15, <2>1 DEF Rotate, Issue
    <2> QED
      BY <1>15, <2>5, <2>7, <2>8, <2>9 DEF tabVars, browserVars
  <1>16. ASSUME NEW q \in Requests,
               RefuseRotation(q), UNCHANGED browserVars
        PROVE  TypeOK'
    <2>1. request' \in [Requests -> RequestRows]
      BY <1>16, RefusedIsTyped DEF RefuseRotation
    <2> QED
      BY <1>16, <2>1 DEF RefuseRotation, tabVars, browserVars
  <1>17. ASSUME NEW q \in Requests,
               TimeOutIdle(q), UNCHANGED browserVars
        PROVE  TypeOK'
    <2> DEFINE s == request[q].row
               r == [session[s] EXCEPT !.revoked = TRUE, !.token = request[q].cookie]
    <2>1. s \in Sessions /\ request[q].cookie \in Tokens
      BY <1>17 DEF TimeOutIdle, RowsAreRead, RowIsRead
    <2>2. r \in SessionRows
      BY <2>1, RevokedIsTyped
    <2>3. session' = [session EXCEPT ![s] = r]
      BY <1>17, Zenon DEF TimeOutIdle, SaveRevoked
    <2>4. session' \in [Sessions -> SessionRows]
      BY <2>1, <2>2, <2>3
    <2>5. request' \in [Requests -> RequestRows]
      BY <1>17, RefusedIsTyped DEF TimeOutIdle, SaveRevoked
    <2> QED
      BY <1>17, <2>4, <2>5 DEF TimeOutIdle, SaveRevoked, tabVars, browserVars
  <1>18. ASSUME NEW q \in Requests, NEW s \in Sessions,
               ReadForLogout(q, s), UNCHANGED browserVars
        PROVE  TypeOK'
    BY <1>18
       DEF ReadForLogout, Sent, FoundBy, Unrevoked, tabVars, browserVars, RequestRows, Stages,
           NoRequest
  <1>19. ASSUME NEW q \in Requests,
               LogoutOfNothing(q), UNCHANGED browserVars
        PROVE  TypeOK'
    <2>1. request' \in [Requests -> RequestRows]
      BY <1>19, RefusedIsTyped DEF LogoutOfNothing
    <2> QED
      BY <1>19, <2>1 DEF LogoutOfNothing, tabVars, browserVars
  <1>20. ASSUME NEW q \in Requests,
               Revoke(q), UNCHANGED browserVars
        PROVE  TypeOK'
    <2> DEFINE s == request[q].row
               r == [session[s] EXCEPT !.revoked = TRUE, !.token = request[q].cookie]
    <2>1. s \in Sessions /\ request[q].cookie \in Tokens
      BY <1>20 DEF Revoke, RowsAreRead, RowIsRead
    <2>2. r \in SessionRows
      BY <2>1, RevokedIsTyped
    <2>3. session' = [session EXCEPT ![s] = r]
      BY <1>20, Zenon DEF Revoke, SaveRevoked
    <2>4. session' \in [Sessions -> SessionRows]
      BY <2>1, <2>2, <2>3
    <2>5. request' \in [Requests -> RequestRows]
      BY <1>20, RefusedIsTyped DEF Revoke, SaveRevoked
    <2> QED
      BY <1>20, <2>4, <2>5 DEF Revoke, SaveRevoked, tabVars, browserVars
  <1>21. ASSUME NEW u \in Users,
               RevokeAll(u), UNCHANGED browserVars
        PROVE  TypeOK'
    <2>1. ASSUME NEW s \in Sessions
          PROVE  [session[s] EXCEPT !.revoked = @ \/ session[s].user = u] \in SessionRows
      BY DEF SessionRows
    <2>2. session' \in [Sessions -> SessionRows]
      BY <1>21, <2>1, Zenon DEF RevokeAll
    <2> QED
      BY <1>21, <2>2 DEF RevokeAll, tabVars, browserVars
  <1>22. ASSUME NEW s \in Sessions, NEW age \in Ages,
               Ageing(s, age), UNCHANGED browserVars
        PROVE  TypeOK'
    <2>1. session' \in [Sessions -> SessionRows]
      BY <1>22 DEF Ageing, SessionRows, Ages
    <2> QED
      BY <1>22, <2>1 DEF Ageing, tabVars, browserVars
  <1>23. CASE UNCHANGED vars
    BY <1>23 DEF vars
  <1> QED
    BY <1>1, <1>2, <1>3, <1>4, <1>5, <1>6, <1>7, <1>8, <1>9, <1>10, <1>11, <1>12, <1>13, <1>14,
       <1>15, <1>16, <1>17, <1>18, <1>19, <1>20, <1>21, <1>22, <1>23 DEF Next

-----------------------------------------------------------------------------
(* What ties the rows, the tokens and the handlers together.               *)

\* A row nobody revoked holds a token that was issued for it and not yet exchanged.
RowIsCurrent(s) ==
    Unrevoked(s) => /\ session[s].token \in Tokens
                    /\ opened[session[s].token] = s
                    /\ exchanged[session[s].token] = 0

\* Only a row of a user is ever revoked.
RowIsOfAUser(s) == session[s].revoked => session[s].user # None

\* Only a token that was issued is exchanged, and only once.
TokenIsSpentOnce(t) == exchanged[t] # 0 => exchanged[t] = 1 /\ opened[t] # None

RowsAreCurrent ==
    /\ \A s \in Sessions : RowIsCurrent(s) /\ RowIsOfAUser(s)
    /\ \A t \in Tokens : TokenIsSpentOnce(t)

\* A login names a user, and a refresh remembers the one its tab stored.
AsksAreOfAUser ==
    \A q \in Requests : request[q].op \in {"login", "refresh"} => request[q].user # None

IInv == TypeOK /\ RowsAreRead /\ RowsAreCurrent /\ AsksAreOfAUser

\* The first state.
LEMMA InitIInv == Init => IInv
  <1> SUFFICES ASSUME Init
               PROVE  IInv
    OBVIOUS
  <1>1. TypeOK
    BY InitTypes
  <1>2. RowsAreRead
    BY DEF Init, SessionsInit, RowsAreRead, RowIsRead, NoRequest
  <1>3. RowsAreCurrent
    BY DEF Init, SessionsInit, RowsAreCurrent, RowIsCurrent, RowIsOfAUser, TokenIsSpentOnce,
           Unrevoked, NoSession
  <1>4. AsksAreOfAUser
    BY DEF Init, SessionsInit, AsksAreOfAUser, NoRequest
  <1> QED
    BY <1>1, <1>2, <1>3, <1>4 DEF IInv

\* A token that is issued was not issued before, and stays with its session.
LEMMA IssueIsFresh ==
    ASSUME NEW t \in Tokens, NEW s \in Sessions, Issue(t, s),
           opened \in [Tokens -> Sessions \cup {None}]
    PROVE  /\ opened[t] = None /\ opened'[t] = s
           /\ \A u \in Tokens \ {t} : opened'[u] = opened[u]
  BY DEF Issue, Tokens

\* A session that is opened has a number nobody had.
LEMMA LogInIsFresh ==
    ASSUME NEW q \in Requests, NEW s \in Sessions, NEW t \in Tokens, LogIn(q, s, t)
    PROVE  session[s].user = None
  BY DEF LogIn, Sessions

\* What any step does to the tables.
LEMMA TableSteps ==
    ASSUME [Next]_vars
    PROVE  \/ UNCHANGED <<session, opened, exchanged>>
           \/ \E q \in Requests, s \in Sessions, t \in Tokens : LogIn(q, s, t)
           \/ \E q \in Requests, t \in Tokens : Rotate(q, t)
           \/ \E q \in Requests : TimeOutIdle(q) \/ Revoke(q)
           \/ \E u \in Users : RevokeAll(u)
           \/ \E s \in Sessions, age \in Ages : Ageing(s, age)
  BY DEF Next, vars, SubmitLogin, SubmitRefresh, SubmitLogout, StoreExpires, Reload,
         ReceiveLogin, ReceiveRefresh, ReceiveRefusal, ReceiveLogout, ArriveUnawaited,
         LoseAnswer, ReadForRefresh, RefuseRefresh, RefuseRotation, ReadForLogout,
         LogoutOfNothing

\* No row loses its user, and no revoked row comes back.
LEMMA RowSteps ==
    ASSUME IInv, [Next]_vars, NEW s \in Sessions
    PROVE  /\ session[s].user # None => session'[s].user # None
           /\ session[s].revoked => session'[s].revoked
  <1> USE DEF IInv, TypeOK, SessionsTypeOK
  <1>1. CASE UNCHANGED <<session, opened, exchanged>>
    BY <1>1
  <1>2. ASSUME NEW q \in Requests, NEW r \in Sessions, NEW t \in Tokens, LogIn(q, r, t)
        PROVE  /\ session[s].user # None => session'[s].user # None
               /\ session[s].revoked => session'[s].revoked
    <2>1. session[r].user = None /\ ~session[r].revoked
      BY <1>2, LogInIsFresh DEF RowsAreCurrent, RowIsOfAUser
    <2>2. s # r => session'[s] = session[s]
      BY <1>2 DEF LogIn
    <2> QED
      BY <2>1, <2>2
  <1>3. ASSUME NEW q \in Requests, NEW t \in Tokens, Rotate(q, t)
        PROVE  /\ session[s].user # None => session'[s].user # None
               /\ session[s].revoked => session'[s].revoked
    BY <1>3 DEF Rotate, SessionRows
  <1>4. ASSUME NEW q \in Requests, TimeOutIdle(q) \/ Revoke(q)
        PROVE  /\ session[s].user # None => session'[s].user # None
               /\ session[s].revoked => session'[s].revoked
    BY <1>4 DEF TimeOutIdle, Revoke, SaveRevoked, SessionRows
  <1>5. ASSUME NEW u \in Users, RevokeAll(u)
        PROVE  /\ session[s].user # None => session'[s].user # None
               /\ session[s].revoked => session'[s].revoked
    BY <1>5 DEF RevokeAll, SessionRows
  <1>6. ASSUME NEW r \in Sessions, NEW age \in Ages, Ageing(r, age)
        PROVE  /\ session[s].user # None => session'[s].user # None
               /\ session[s].revoked => session'[s].revoked
    BY <1>6 DEF Ageing, SessionRows
  <1> QED
    BY <1>1, <1>2, <1>3, <1>4, <1>5, <1>6, TableSteps

\* No token changes its session.
LEMMA TokenSteps ==
    ASSUME IInv, [Next]_vars, NEW t \in Tokens, opened[t] # None
    PROVE  opened'[t] = opened[t]
  <1> USE DEF IInv, TypeOK, SessionsTypeOK
  <1>1. ASSUME NEW q \in Requests, NEW s \in Sessions, NEW u \in Tokens, LogIn(q, s, u)
        PROVE  opened'[t] = opened[t]
    BY <1>1, IssueIsFresh DEF LogIn
  <1>2. ASSUME NEW q \in Requests, NEW u \in Tokens, Rotate(q, u)
        PROVE  opened'[t] = opened[t]
    <2>1. request[q].row \in Sessions
      BY <1>2 DEF Rotate, RowsAreRead, RowIsRead
    <2> QED
      BY <1>2, <2>1, IssueIsFresh DEF Rotate
  <1>3. CASE UNCHANGED opened
    BY <1>3
  <1> QED
    BY <1>1, <1>2, <1>3, TableSteps DEF TimeOutIdle, Revoke, SaveRevoked, RevokeAll, Ageing

\* The tables stay as they should be.
LEMMA StepRowsAreCurrent == IInv /\ TypeOK' /\ [Next]_vars => RowsAreCurrent'
  <1> SUFFICES ASSUME IInv, TypeOK', [Next]_vars
               PROVE  RowsAreCurrent'
    OBVIOUS
  <1> USE DEF IInv, TypeOK, SessionsTypeOK, RowsAreCurrent, RowIsCurrent, RowIsOfAUser,
              TokenIsSpentOnce
  <1>1. CASE UNCHANGED <<session, opened, exchanged>>
    BY <1>1 DEF Unrevoked
  <1>2. ASSUME NEW q \in Requests, NEW s \in Sessions, NEW t \in Tokens, LogIn(q, s, t)
        PROVE  RowsAreCurrent'
    <2>1. /\ opened[t] = None /\ opened'[t] = s
          /\ \A u \in Tokens \ {t} : opened'[u] = opened[u]
      BY <1>2, IssueIsFresh DEF LogIn
    <2>2. exchanged' = exchanged /\ exchanged[t] = 0
      BY <1>2, <2>1 DEF LogIn
    <2>3. \A r \in Sessions \ {s} : session'[r] = session[r]
      BY <1>2 DEF LogIn
    <2>4. session'[s].token = t /\ ~session'[s].revoked
      BY <1>2 DEF LogIn, NoSession
    <2>5. \A r \in Sessions : (RowIsCurrent(r) /\ RowIsOfAUser(r))'
      <3> SUFFICES ASSUME NEW r \in Sessions
                   PROVE  (RowIsCurrent(r) /\ RowIsOfAUser(r))'
        OBVIOUS
      <3>1. CASE r = s
        BY <2>1, <2>2, <2>4, <3>1
      <3>2. CASE r # s
        <4>1. (RowIsOfAUser(r))'
          BY <2>3, <3>2
        <4>2. ASSUME Unrevoked(r)'
              PROVE  /\ session[r].token \in Tokens /\ opened[session[r].token] = r
                     /\ exchanged[session[r].token] = 0 /\ session'[r] = session[r]
          BY <2>3, <3>2, <4>2 DEF Unrevoked
        <4>3. ASSUME Unrevoked(r)'
              PROVE  session[r].token # t
          BY <2>1, <4>2, <4>3, NoneAssumption DEF Sessions
        <4> QED
          BY <2>1, <2>2, <4>1, <4>2, <4>3
      <3> QED
        BY <3>1, <3>2
    <2>6. \A u \in Tokens : TokenIsSpentOnce(u)'
      BY <2>1, <2>2
    <2> QED
      BY <2>5, <2>6
  <1>3. ASSUME NEW q \in Requests, NEW t \in Tokens, Rotate(q, t)
        PROVE  RowsAreCurrent'
    <2> DEFINE s == request[q].row
               c == request[q].cookie
    <2>1. s \in Sessions /\ c \in Tokens
      BY <1>3 DEF Rotate, RowsAreRead, RowIsRead
    <2>2. /\ opened[t] = None /\ opened'[t] = s
          /\ \A u \in Tokens \ {t} : opened'[u] = opened[u]
      BY <1>3, <2>1, IssueIsFresh DEF Rotate
    <2>3. session[s].token = c /\ opened[c] = s /\ exchanged[c] = 0 /\ Unrevoked(s)
      BY <1>3, <2>1 DEF Rotate, FoundBy
    <2>4. exchanged'[c] = 1 /\ \A u \in Tokens \ {c} : exchanged'[u] = exchanged[u]
      BY <1>3, <2>1, <2>3 DEF Rotate
    <2>5. t # c /\ exchanged'[t] = 0
      <3>1. t # c
        BY <2>1, <2>2, <2>3, NoneAssumption DEF Sessions
      <3>2. exchanged[t] = 0
        BY <2>2
      <3> QED
        BY <2>4, <3>1, <3>2
    <2>6. \A r \in Sessions \ {s} : session'[r] = session[r]
      BY <1>3 DEF Rotate
    <2>7. session'[s].token = t /\ ~session'[s].revoked
      BY <1>3, <2>1, <2>3 DEF Rotate, Unrevoked, SessionRows
    <2>8. \A r \in Sessions : (RowIsCurrent(r) /\ RowIsOfAUser(r))'
      <3> SUFFICES ASSUME NEW r \in Sessions
                   PROVE  (RowIsCurrent(r) /\ RowIsOfAUser(r))'
        OBVIOUS
      <3>1. CASE r = s
        BY <2>1, <2>2, <2>5, <2>7, <3>1
      <3>2. CASE r # s
        <4>1. (RowIsOfAUser(r))'
          BY <2>6, <3>2
        <4>2. ASSUME Unrevoked(r)'
              PROVE  /\ session[r].token \in Tokens /\ opened[session[r].token] = r
                     /\ exchanged[session[r].token] = 0 /\ session'[r] = session[r]
          BY <2>6, <3>2, <4>2 DEF Unrevoked
        <4>3. ASSUME Unrevoked(r)'
              PROVE  session[r].token # c /\ session[r].token # t
          BY <2>1, <2>2, <2>3, <3>2, <4>2, <4>3, NoneAssumption DEF Sessions
        <4> QED
          BY <2>2, <2>4, <4>1, <4>2, <4>3
      <3> QED
        BY <3>1, <3>2
    <2>9. \A u \in Tokens : TokenIsSpentOnce(u)'
      <3> SUFFICES ASSUME NEW u \in Tokens
                   PROVE  TokenIsSpentOnce(u)'
        OBVIOUS
      <3>1. CASE u = c
        BY <2>1, <2>2, <2>3, <2>4, <2>5, <3>1, NoneAssumption DEF Sessions
      <3>2. CASE u # c
        BY <2>1, <2>2, <2>4, <2>5, <3>2, NoneAssumption DEF Sessions
      <3> QED
        BY <3>1, <3>2
    <2> QED
      BY <2>8, <2>9
  <1>4. ASSUME NEW q \in Requests, TimeOutIdle(q) \/ Revoke(q)
        PROVE  RowsAreCurrent'
    <2> DEFINE s == request[q].row
    <2>1. s \in Sessions /\ session[s].user # None
      BY <1>4 DEF TimeOutIdle, Revoke, RowsAreRead, RowIsRead
    <2>2. \A r \in Sessions \ {s} : session'[r] = session[r]
      BY <1>4 DEF TimeOutIdle, Revoke, SaveRevoked
    <2>3. session'[s].user = session[s].user /\ session'[s].revoked
      BY <1>4, <2>1 DEF TimeOutIdle, Revoke, SaveRevoked, SessionRows
    <2>4. opened' = opened /\ exchanged' = exchanged
      BY <1>4 DEF TimeOutIdle, Revoke, SaveRevoked
    <2> QED
      BY <2>1, <2>2, <2>3, <2>4 DEF Unrevoked
  <1>5. ASSUME NEW u \in Users, RevokeAll(u)
        PROVE  RowsAreCurrent'
    <2>1. opened' = opened /\ exchanged' = exchanged
      BY <1>5 DEF RevokeAll
    <2>2. ASSUME NEW r \in Sessions
          PROVE  /\ session'[r].user = session[r].user /\ session'[r].token = session[r].token
                 /\ session[r].revoked => session'[r].revoked
                 /\ session'[r].revoked => session[r].revoked \/ session[r].user = u
      <3> DEFINE row == [session[r] EXCEPT !.revoked = @ \/ session[r].user = u]
      <3>1. session'[r] = row
        BY <1>5 DEF RevokeAll
      <3>2. /\ row.user = session[r].user /\ row.token = session[r].token
            /\ row.revoked = (session[r].revoked \/ session[r].user = u)
        BY DEF SessionRows
      <3> HIDE DEF row
      <3> QED
        BY <3>1, <3>2
    <2>3. ASSUME NEW r \in Sessions
          PROVE  (RowIsCurrent(r) /\ RowIsOfAUser(r))'
      <3>1. Unrevoked(r)' => Unrevoked(r)
        BY <2>2 DEF Unrevoked
      <3>2. session'[r].revoked => session'[r].user # None
        BY <2>2, NoneAssumption
      <3>3. session'[r].token = session[r].token /\ (Unrevoked(r) => RowIsCurrent(r))
        BY <2>2
      <3> QED
        BY <2>1, <3>1, <3>2, <3>3
    <2> QED
      BY <2>1, <2>3
  <1>6. ASSUME NEW s \in Sessions, NEW age \in Ages, Ageing(s, age)
        PROVE  RowsAreCurrent'
    <2>1. opened' = opened /\ exchanged' = exchanged
      BY <1>6 DEF Ageing
    <2>2. \A r \in Sessions : /\ session'[r].user = session[r].user
                              /\ session'[r].token = session[r].token
                              /\ session'[r].revoked = session[r].revoked
      BY <1>6 DEF Ageing, SessionRows
    <2> QED
      BY <2>1, <2>2 DEF Unrevoked
  <1> QED
    BY <1>1, <1>2, <1>3, <1>4, <1>5, <1>6, TableSteps

\* What any step does to a request: it stays, it is abandoned, its handler reads a row,
\* or no handler works on it any more.
LEMMA RequestSteps ==
    ASSUME IInv, [Next]_vars, NEW p \in Requests
    PROVE  \/ request'[p] = request[p]
           \/ request'[p] = [request[p] EXCEPT !.tab = None]
           \/ request'[p].stage \in {"free", "sent", "answered"}
           \/ \E s \in Sessions : /\ FoundBy(p, s)
                                  /\ request'[p].row = s
                                  /\ request'[p].cookie = request[p].cookie
  <1> DEFINE Moves == \/ request'[p] = request[p]
                      \/ request'[p] = [request[p] EXCEPT !.tab = None]
                      \/ request'[p].stage \in {"free", "sent", "answered"}
                      \/ \E s \in Sessions : /\ FoundBy(p, s)
                                             /\ request'[p].row = s
                                             /\ request'[p].cookie = request[p].cookie
  <1> SUFFICES Moves
    OBVIOUS
  <1> USE DEF IInv, TypeOK, SessionsTypeOK
  <1>1. ASSUME NEW q \in Requests, NEW token, NEW owner, request' = Answered(q, token, owner)
        PROVE  Moves
    BY <1>1 DEF Answered, RequestRows
  <1>2. ASSUME NEW q \in Requests, NEW op, NEW b, NEW k, NEW u, Send(q, op, b, k, u)
        PROVE  Moves
    BY <1>2 DEF Send, NoRequest
  <1>3. ASSUME NEW q \in Requests, request' = Done(q)
        PROVE  Moves
    BY <1>3 DEF Done, NoRequest
  <1>4. ASSUME NEW b \in Tabs, request' = Abandon(b, request)
        PROVE  Moves
    BY <1>4 DEF Abandon
  <1>5. ASSUME NEW q \in Requests, ReceiveRefusal(q)
        PROVE  Moves
    <2>1. CASE request' = Done(q)
      BY <1>3, <2>1
    <2>2. CASE request' = Abandon(request[q].tab, Done(q))
      BY <2>2 DEF Abandon, Done, NoRequest
    <2> QED
      BY <1>5, <2>1, <2>2 DEF ReceiveRefusal
  <1>6. ASSUME NEW q \in Requests, NEW s \in Sessions, ReadForRefresh(q, s)
        PROVE  Moves
    BY <1>6 DEF ReadForRefresh, Refreshable
  <1>7. ASSUME NEW q \in Requests, NEW s \in Sessions, ReadForLogout(q, s)
        PROVE  Moves
    BY <1>7 DEF ReadForLogout
  <1>8. ASSUME NEW q \in Requests,
               \/ ReceiveLogin(q) \/ ReceiveRefresh(q) \/ ReceiveLogout(q)
               \/ ArriveUnawaited(q) \/ LoseAnswer(q)
        PROVE  Moves
    BY <1>3, <1>8 DEF ReceiveLogin, ReceiveRefresh, ReceiveLogout, ArriveUnawaited, LoseAnswer
  <1>9. ASSUME NEW q \in Requests,
               \/ RefuseRefresh(q) \/ RefuseRotation(q) \/ LogoutOfNothing(q)
               \/ TimeOutIdle(q) \/ Revoke(q)
        PROVE  Moves
    BY <1>1, <1>9 DEF RefuseRefresh, RefuseRotation, LogoutOfNothing, TimeOutIdle, Revoke,
                      SaveRevoked, Refused
  <1>10. ASSUME NEW q \in Requests, NEW t \in Tokens,
                Rotate(q, t) \/ \E s \in Sessions : LogIn(q, s, t)
         PROVE  Moves
    BY <1>1, <1>10 DEF LogIn, Rotate
  <1>11. ASSUME NEW b \in Tabs, NEW q \in Requests,
                \/ SubmitRefresh(b, q) \/ SubmitLogout(b, q)
                \/ \E u \in Users : SubmitLogin(b, q, u)
         PROVE  Moves
    BY <1>2, <1>11 DEF SubmitLogin, SubmitRefresh, SubmitLogout
  <1>12. CASE UNCHANGED request
    BY <1>12
  <1> QED
    <2> HIDE DEF Moves
    <2> QED
      BY <1>4, <1>5, <1>6, <1>7, <1>8, <1>9, <1>10, <1>11, <1>12
         DEF Next, vars, StoreExpires, Reload, RevokeAll, Ageing

\* A handler that waits still has its row, and the row its user.
LEMMA StepRowsAreRead == IInv /\ TypeOK' /\ [Next]_vars => RowsAreRead'
  <1> SUFFICES ASSUME IInv, TypeOK', [Next]_vars, NEW p \in Requests
               PROVE  RowIsRead(p)'
    BY DEF RowsAreRead
  <1> USE DEF IInv, RowIsRead
  <1>1. ASSUME RowIsRead(p), request'[p].stage = request[p].stage,
               request'[p].row = request[p].row, request'[p].cookie = request[p].cookie
        PROVE  RowIsRead(p)'
    <2>1. SUFFICES ASSUME request[p].stage \in {"idle", "rotate", "revoke"}
                   PROVE  /\ session'[request[p].row].user # None
                          /\ opened'[request[p].cookie] = request[p].row
      BY <1>1
    <2>2. request[p].row # None
      BY <1>1, <2>1, NoneAssumption DEF Sessions
    <2> QED
      BY <1>1, <2>1, <2>2, RowSteps, TokenSteps
  <1>2. ASSUME NEW s \in Sessions, FoundBy(p, s), request'[p].row = s,
               request'[p].cookie = request[p].cookie
        PROVE  RowIsRead(p)'
    <2>1. request[p].cookie \in Tokens /\ opened[request[p].cookie] = s
      BY <1>2 DEF FoundBy, RowsAreCurrent, RowIsCurrent
    <2>2. session[s].user # None /\ s # None
      BY <1>2, NoneAssumption DEF FoundBy, Unrevoked, Sessions
    <2> QED
      BY <1>2, <2>1, <2>2, RowSteps, TokenSteps
  <1>3. CASE request'[p].stage \in {"free", "sent", "answered"}
    BY <1>3
  <1>4. request[p] \in RequestRows
    BY DEF TypeOK, SessionsTypeOK
  <1>5. CASE request'[p] = [request[p] EXCEPT !.tab = None]
    BY <1>1, <1>4, <1>5 DEF RequestRows, RowsAreRead
  <1>6. CASE request'[p] = request[p]
    BY <1>1, <1>6 DEF RowsAreRead
  <1> QED
    BY <1>2, <1>3, <1>5, <1>6, RequestSteps

\* What any step does to what a request asks for: it stays, or the request is a new one.
LEMMA AskSteps ==
    ASSUME IInv, [Next]_vars, NEW p \in Requests
    PROVE  \/ request'[p].op = request[p].op /\ request'[p].user = request[p].user
           \/ request'[p].op \notin {"login", "refresh"}
           \/ request'[p].user \in Users
  <1> DEFINE Keeps == \/ request'[p].op = request[p].op /\ request'[p].user = request[p].user
                      \/ request'[p].op \notin {"login", "refresh"}
                      \/ request'[p].user \in Users
  <1> SUFFICES Keeps
    OBVIOUS
  <1> USE DEF IInv, TypeOK, SessionsTypeOK
  <1>1. ASSUME NEW q \in Requests, NEW token, NEW owner, request' = Answered(q, token, owner)
        PROVE  Keeps
    BY <1>1 DEF Answered, RequestRows
  <1>2. ASSUME NEW q \in Requests, NEW op, NEW b, NEW k, NEW u, Send(q, op, b, k, u),
               op = "logout" \/ u \in Users
        PROVE  Keeps
    BY <1>2 DEF Send, NoRequest
  <1>3. ASSUME NEW q \in Requests, request' = Done(q)
        PROVE  Keeps
    BY <1>3 DEF Done, NoRequest
  <1>4. ASSUME NEW b \in Tabs, request' = Abandon(b, request)
        PROVE  Keeps
    BY <1>4 DEF Abandon, RequestRows
  <1>5. ASSUME NEW q \in Requests, ReceiveRefusal(q)
        PROVE  Keeps
    <2>1. CASE request' = Done(q)
      BY <1>3, <2>1
    <2>2. CASE request' = Abandon(request[q].tab, Done(q))
      BY <2>2 DEF Abandon, Done, NoRequest, RequestRows
    <2> QED
      BY <1>5, <2>1, <2>2 DEF ReceiveRefusal
  <1>6. ASSUME NEW q \in Requests, NEW s \in Sessions, ReadForRefresh(q, s)
        PROVE  Keeps
    BY <1>6 DEF ReadForRefresh, RequestRows
  <1>7. ASSUME NEW q \in Requests, NEW s \in Sessions, ReadForLogout(q, s)
        PROVE  Keeps
    BY <1>7 DEF ReadForLogout, RequestRows
  <1>8. ASSUME NEW q \in Requests,
               \/ ReceiveLogin(q) \/ ReceiveRefresh(q) \/ ReceiveLogout(q)
               \/ ArriveUnawaited(q) \/ LoseAnswer(q)
        PROVE  Keeps
    BY <1>3, <1>8 DEF ReceiveLogin, ReceiveRefresh, ReceiveLogout, ArriveUnawaited, LoseAnswer
  <1>9. ASSUME NEW q \in Requests,
               \/ RefuseRefresh(q) \/ RefuseRotation(q) \/ LogoutOfNothing(q)
               \/ TimeOutIdle(q) \/ Revoke(q)
        PROVE  Keeps
    BY <1>1, <1>9 DEF RefuseRefresh, RefuseRotation, LogoutOfNothing, TimeOutIdle, Revoke,
                      SaveRevoked, Refused
  <1>10. ASSUME NEW q \in Requests, NEW t \in Tokens,
                Rotate(q, t) \/ \E s \in Sessions : LogIn(q, s, t)
         PROVE  Keeps
    BY <1>1, <1>10 DEF LogIn, Rotate
  <1>11. ASSUME NEW b \in Tabs, NEW q \in Requests,
                SubmitLogout(b, q) \/ \E u \in Users : SubmitLogin(b, q, u)
         PROVE  Keeps
    BY <1>2, <1>11 DEF SubmitLogin, SubmitLogout
  <1>12. ASSUME NEW b \in Tabs, NEW q \in Requests, SubmitRefresh(b, q)
         PROVE  Keeps
    <2>1. stored[b] \in Users
      BY <1>12 DEF SubmitRefresh
    <2> QED
      BY <1>2, <1>12, <2>1 DEF SubmitRefresh
  <1>13. CASE UNCHANGED request
    BY <1>13
  <1> QED
    <2> HIDE DEF Keeps
    <2> QED
      BY <1>4, <1>5, <1>6, <1>7, <1>8, <1>9, <1>10, <1>11, <1>12, <1>13
         DEF Next, vars, StoreExpires, Reload, RevokeAll, Ageing

\* A login and a refresh still have their user.
LEMMA StepAsks == IInv /\ [Next]_vars => AsksAreOfAUser'
  BY AskSteps, NoneAssumption DEF IInv, AsksAreOfAUser

\* The invariant is inductive.
LEMMA StepIInv == IInv /\ [Next]_vars => IInv'
  <1> SUFFICES ASSUME IInv, [Next]_vars
               PROVE  IInv'
    OBVIOUS
  <1>1. TypeOK'
    BY StepTypes DEF IInv
  <1> QED
    BY <1>1, StepRowsAreRead, StepRowsAreCurrent, StepAsks DEF IInv

\* Every reachable state satisfies it.
LEMMA AlwaysIInv == Spec => []IInv
  BY InitIInv, StepIInv, PTL DEF Spec

-----------------------------------------------------------------------------
(* What ties the cookie to the answers on their way.                       *)

\* A token that was issued belongs to a session that was opened.
TokensAreOfUsers == \A t \in Tokens : opened[t] # None => session[opened[t]].user # None

\* The cookie, and every token a request carries or brings, was issued.
Issued(t) == t # None => opened[t] # None

TokensAreIssued ==
    /\ Issued(cookie)
    /\ \A q \in Requests : Issued(request[q].cookie) /\ Issued(request[q].reply)

\* Only an answer brings a token.
BringsToken(q) == request[q].reply # None

RepliesAreAnswers == \A q \in Requests : BringsToken(q) => request[q].stage = "answered"

\* A token is the current one of its session, or nobody cares any more.
Current(t) == session[opened[t]].token = t \/ session[opened[t]].revoked

\* A token that an answer brings is current, and only this answer knows it.
AnswerIsNew(q) ==
    BringsToken(q) =>
        /\ Current(request[q].reply)
        /\ cookie # request[q].reply
        /\ \A p \in Requests : /\ request[p].cookie # request[q].reply
                               /\ p # q => request[p].reply # request[q].reply

\* While no answer is lost, a cookie that is not current is about to be replaced.
CookieFollows ==
    ~lost /\ cookie # None => Current(cookie) \/ \E q \in Requests : BringsToken(q)

CInv ==
    /\ TokensAreOfUsers
    /\ TokensAreIssued
    /\ RepliesAreAnswers
    /\ \A q \in Requests : AnswerIsNew(q)
    /\ CookieFollows

\* The first state.
LEMMA InitCInv == Init => CInv
  BY DEF Init, SessionsInit, NoRequest, CInv, TokensAreOfUsers, TokensAreIssued, Issued,
         BringsToken, RepliesAreAnswers, AnswerIsNew, CookieFollows

\* What a step that leaves the tables alone does to the tokens in flight.  No answer
\* arrives: each request keeps what it brings, and carries what it carried, the cookie
\* or nothing.
Quiet ==
    /\ UNCHANGED <<session, opened, cookie, lost>>
    /\ \A p \in Requests : /\ request'[p].cookie \in {request[p].cookie, cookie, None}
                           /\ request'[p].reply = request[p].reply
                           /\ BringsToken(p) => request'[p].stage = request[p].stage

\* An answer arrives, and its token becomes the cookie.
Arrival(q) ==
    /\ UNCHANGED <<session, opened, lost>>
    /\ cookie' \in {request[q].reply, None}
    /\ request' = Done(q)

\* An answer is lost.
Loss(q) ==
    /\ UNCHANGED <<session, opened, cookie>>
    /\ lost'
    /\ request' = Done(q)

\* A handler that is at work answers without a token.
LEMMA RefusalIsQuiet ==
    ASSUME IInv, CInv, NEW q \in Requests, request[q].stage # "answered",
           request' = Refused(q), UNCHANGED <<session, opened, cookie, lost>>
    PROVE  Quiet
  BY DEF IInv, TypeOK, SessionsTypeOK, RequestRows, CInv, RepliesAreAnswers, BringsToken,
         Refused, Answered, Quiet

\* A request leaves without a token.
LEMMA SendIsQuiet ==
    ASSUME IInv, CInv, NEW q \in Requests, NEW op, NEW b, NEW u, Send(q, op, b, cookie, u),
           UNCHANGED <<session, opened, cookie, lost>>
    PROVE  Quiet
  BY DEF IInv, TypeOK, SessionsTypeOK, RequestRows, BringsToken, Send, NoRequest, Quiet

\* A step is quiet, or an answer arrives or is lost, or the sessions change and the
\* browser does not.
LEMMA CookieSteps ==
    ASSUME IInv, CInv, [Next]_vars
    PROVE  \/ Quiet
           \/ \E q \in Requests : Arrival(q) \/ Loss(q)
           \/ /\ UNCHANGED browserVars
              /\ \/ \E q \in Requests, s \in Sessions, t \in Tokens : LogIn(q, s, t)
                 \/ \E q \in Requests, t \in Tokens : Rotate(q, t)
                 \/ \E q \in Requests : TimeOutIdle(q) \/ Revoke(q)
                 \/ \E u \in Users : RevokeAll(u)
                 \/ \E s \in Sessions, age \in Ages : Ageing(s, age)
  <1> USE DEF IInv, TypeOK, SessionsTypeOK
  <1>1. ASSUME NEW b \in Tabs, NEW q \in Requests,
               \/ SubmitRefresh(b, q) \/ SubmitLogout(b, q)
               \/ \E u \in Users : SubmitLogin(b, q, u)
        PROVE  Quiet
    BY <1>1, SendIsQuiet
       DEF SubmitLogin, SubmitRefresh, SubmitLogout, browserVars, tabVars
  <1>2. ASSUME NEW b \in Tabs, StoreExpires(b)
        PROVE  Quiet
    BY <1>2 DEF StoreExpires, Quiet
  <1>3. ASSUME NEW b \in Tabs, Reload(b)
        PROVE  Quiet
    BY <1>3 DEF Reload, Abandon, RequestRows, Quiet
  <1>4. ASSUME NEW q \in Requests, ReceiveLogin(q) \/ ReceiveRefresh(q) \/ ReceiveLogout(q)
        PROVE  Arrival(q)
    BY <1>4 DEF ReceiveLogin, ReceiveRefresh, ReceiveLogout, Arrival
  <1>5. ASSUME NEW q \in Requests, ReceiveRefusal(q)
        PROVE  Quiet
    <2>1. request[q].reply = None
      BY <1>5 DEF ReceiveRefusal
    <2>2. CASE request' = Done(q)
      BY <1>5, <2>1, <2>2 DEF ReceiveRefusal, Done, NoRequest, BringsToken, Quiet
    <2>3. CASE request' = Abandon(request[q].tab, Done(q))
      <3>1. \A p \in Requests : /\ request'[p].cookie \in {request[p].cookie, None}
                                /\ request'[p].reply = request[p].reply
                                /\ p # q => request'[p].stage = request[p].stage
        BY <2>1, <2>3 DEF Abandon, Done, NoRequest, RequestRows
      <3> QED
        BY <1>5, <2>1, <3>1 DEF ReceiveRefusal, BringsToken, Quiet
    <2> QED
      BY <1>5, <2>2, <2>3 DEF ReceiveRefusal
  <1>6. ASSUME NEW q \in Requests, ArriveUnawaited(q)
        PROVE  Arrival(q) \/ Quiet
    <2>1. CASE cookie' = request[q].reply
      BY <1>6, <2>1 DEF ArriveUnawaited, Arrival
    <2>2. CASE request[q].reply = None /\ cookie' = cookie
      BY <1>6, <2>2 DEF ArriveUnawaited, Done, NoRequest, BringsToken, Quiet
    <2> QED
      BY <1>6, <2>1, <2>2 DEF ArriveUnawaited
  <1>7. ASSUME NEW q \in Requests, LoseAnswer(q)
        PROVE  Loss(q)
    BY <1>7 DEF LoseAnswer, Loss
  <1>8. ASSUME NEW q \in Requests, UNCHANGED browserVars,
               RefuseRefresh(q) \/ RefuseRotation(q) \/ LogoutOfNothing(q)
        PROVE  Quiet
    BY <1>8, RefusalIsQuiet
       DEF RefuseRefresh, RefuseRotation, LogoutOfNothing, Sent, browserVars
  <1>9. ASSUME NEW q \in Requests, NEW s \in Sessions, UNCHANGED browserVars,
               ReadForRefresh(q, s) \/ ReadForLogout(q, s)
        PROVE  Quiet
    <2>1. request[q].stage = "sent" /\ ~BringsToken(q)
      BY <1>9 DEF ReadForRefresh, ReadForLogout, Sent, CInv, RepliesAreAnswers
    <2>2. UNCHANGED <<session, opened, cookie, lost>>
      BY <1>9 DEF ReadForRefresh, ReadForLogout, browserVars
    <2>3. \A p \in Requests : /\ request'[p].cookie = request[p].cookie
                              /\ request'[p].reply = request[p].reply
                              /\ p # q => request'[p].stage = request[p].stage
      BY <1>9 DEF ReadForRefresh, ReadForLogout, RequestRows
    <2> QED
      BY <2>1, <2>2, <2>3 DEF Quiet
  <1>10. ASSUME UNCHANGED vars
         PROVE  Quiet
    BY <1>10 DEF vars, Quiet
  <1> QED
    BY <1>1, <1>2, <1>3, <1>4, <1>5, <1>6, <1>7, <1>8, <1>9, <1>10 DEF Next

\* A step without new tokens keeps the tokens in their place.
LEMMA QuietCInv ==
    ASSUME IInv, CInv, Quiet
    PROVE  CInv'
  <1> USE DEF CInv
  <1>1. TokensAreOfUsers' /\ TokensAreIssued'
    BY DEF Quiet, TokensAreOfUsers, TokensAreIssued, Issued
  <1>2. RepliesAreAnswers' /\ CookieFollows'
    BY DEF Quiet, RepliesAreAnswers, BringsToken, CookieFollows, Current
  <1>3. ASSUME NEW q \in Requests
        PROVE  AnswerIsNew(q)'
    BY DEF Quiet, AnswerIsNew, BringsToken, Current
  <1> QED
    BY <1>1, <1>2, <1>3

\* The token of an answer that arrives is current, and no other answer brings it.
LEMMA ArrivalCInv ==
    ASSUME IInv, CInv, NEW q \in Requests, Arrival(q) \/ Loss(q)
    PROVE  CInv'
  <1> USE DEF CInv, Arrival, Loss, Done
  <1>1. request \in [Requests -> RequestRows]
    BY DEF IInv, TypeOK, SessionsTypeOK
  <1>2. /\ request'[q] = NoRequest
        /\ \A p \in Requests \ {q} : request'[p] = request[p]
    BY <1>1
  <1>3. NoRequest.cookie = None /\ NoRequest.reply = None
    BY DEF NoRequest
  <1>4. TokensAreOfUsers'
    BY DEF TokensAreOfUsers
  <1>5. TokensAreIssued'
    BY <1>2, <1>3 DEF TokensAreIssued, Issued
  <1>6. RepliesAreAnswers'
    BY <1>2, <1>3 DEF RepliesAreAnswers, BringsToken
  <1>7. CookieFollows'
    BY DEF CookieFollows, Current, AnswerIsNew, BringsToken
  <1>8. ASSUME NEW p \in Requests
        PROVE  AnswerIsNew(p)'
    BY <1>2, <1>3 DEF AnswerIsNew, BringsToken, Current
  <1> QED
    BY <1>4, <1>5, <1>6, <1>7, <1>8

\* An answer with a token that was never issued before is the only one that knows it.
LEMMA AnswerCInv ==
    ASSUME IInv, CInv, NEW q \in Requests, NEW s \in Sessions, NEW t \in Tokens, NEW owner,
           request[q].stage # "answered",
           request' = Answered(q, t, owner), Issue(t, s), UNCHANGED <<cookie, lost>>,
           session'[s].user # None, session'[s].token = t,
           \A r \in Sessions \ {s} : session'[r] = session[r],
           \A u \in Tokens : opened[u] = s /\ u # request[q].cookie => ~Current(u)
    PROVE  CInv'
  <1> USE DEF CInv
  <1>1. request \in [Requests -> RequestRows] /\ opened \in [Tokens -> Sessions \cup {None}]
    BY DEF IInv, TypeOK, SessionsTypeOK
  <1>2. cookie \in Tokens \cup {None}
    BY DEF IInv, TypeOK
  <1>3. /\ opened[t] = None /\ opened'[t] = s
        /\ \A u \in Tokens \ {t} : opened'[u] = opened[u]
    BY <1>1, IssueIsFresh
  <1>4. /\ request'[q].reply = t /\ request'[q].cookie = None
        /\ request'[q].stage = "answered"
        /\ \A p \in Requests \ {q} : request'[p] = request[p]
    BY <1>1 DEF Answered, RequestRows
  <1>5. \A p \in Requests : /\ request[p].cookie \in Tokens \cup {None}
                            /\ request[p].reply \in Tokens \cup {None}
    BY <1>1 DEF RequestRows
  <1>6. s # None /\ t # None
    BY NoneAssumption DEF Sessions, Tokens
  <1>7. /\ cookie # t
        /\ \A p \in Requests : request[p].cookie # t /\ request[p].reply # t
    BY <1>3, <1>6 DEF TokensAreIssued, Issued
  <1>8. ~BringsToken(q)
    BY DEF RepliesAreAnswers
  <1>9. TokensAreOfUsers'
    BY <1>1, <1>3 DEF TokensAreOfUsers
  <1>10. TokensAreIssued'
    BY <1>2, <1>3, <1>4, <1>5, <1>6, <1>7 DEF TokensAreIssued, Issued
  <1>11. RepliesAreAnswers'
    BY <1>4 DEF RepliesAreAnswers, BringsToken
  <1>12. CookieFollows'
    BY <1>4, <1>6 DEF CookieFollows, BringsToken
  <1>13. Current(t)'
    BY <1>3 DEF Current
  <1>14. ASSUME NEW u \in Tokens, u # request[q].cookie, opened[u] # None, Current(u)
         PROVE  Current(u)'
    <2>1. opened[u] \in Sessions \ {s} /\ u # t
      BY <1>1, <1>3, <1>14
    <2> QED
      BY <1>3, <1>14, <2>1 DEF Current
  <1>15. ASSUME NEW p \in Requests
         PROVE  AnswerIsNew(p)'
    <2>1. CASE p = q
      BY <1>4, <1>6, <1>7, <1>13, <2>1 DEF AnswerIsNew, BringsToken
    <2>2. CASE p # q /\ BringsToken(p)
      <3>1. /\ request[p].reply \in Tokens /\ opened[request[p].reply] # None
            /\ request[p].reply # request[q].cookie /\ Current(request[p].reply)
        BY <1>5, <2>2 DEF AnswerIsNew, BringsToken, TokensAreIssued, Issued
      <3>2. Current(request[p].reply)'
        BY <1>4, <1>14, <2>2, <3>1
      <3> QED
        BY <1>4, <1>7, <2>2, <3>2 DEF AnswerIsNew, BringsToken
    <2>3. CASE p # q /\ ~BringsToken(p)
      BY <1>4, <2>3 DEF AnswerIsNew, BringsToken
    <2> QED
      BY <2>1, <2>2, <2>3
  <1> QED
    BY <1>9, <1>10, <1>11, <1>12, <1>15

\* A refusal forgets the cookie of its request, and brings none.
LEMMA RefusalTokens ==
    ASSUME request \in [Requests -> RequestRows], NEW q \in Requests, request' = Refused(q)
    PROVE  /\ request'[q].cookie = None /\ request'[q].reply = None
           /\ \A p \in Requests \ {q} : request'[p] = request[p]
  BY DEF RequestRows, Refused, Answered

\* Revoking a session makes its tokens nobody's concern; its age is not theirs.
LEMMA RevokedCInv ==
    ASSUME IInv, CInv, UNCHANGED <<opened, cookie, lost>>,
           \A s \in Sessions :
              /\ session'[s].user = session[s].user
              /\ session'[s].revoked \/ (/\ session'[s].token = session[s].token
                                        /\ session'[s].revoked = session[s].revoked),
           \/ UNCHANGED request
           \/ \E q \in Requests : request[q].stage # "answered" /\ request' = Refused(q)
    PROVE  CInv'
  <1> USE DEF CInv
  <1>1. request \in [Requests -> RequestRows] /\ opened \in [Tokens -> Sessions \cup {None}]
    BY DEF IInv, TypeOK, SessionsTypeOK
  <1>2. cookie \in Tokens \cup {None}
    BY DEF IInv, TypeOK
  <1>3. \A p \in Requests : /\ request[p].reply \in Tokens \cup {None}
                            /\ request'[p].cookie \in {request[p].cookie, None}
                            /\ request'[p].reply = request[p].reply
                            /\ BringsToken(p) => request'[p].stage = request[p].stage
    <2>1. \A p \in Requests : request[p].reply \in Tokens \cup {None}
      BY <1>1 DEF RequestRows
    <2>2. CASE UNCHANGED request
      BY <2>1, <2>2
    <2>3. ASSUME NEW q \in Requests, request[q].stage # "answered", request' = Refused(q)
          PROVE  \A p \in Requests :
                   /\ request'[p].cookie \in {request[p].cookie, None}
                   /\ request'[p].reply = request[p].reply
                   /\ BringsToken(p) => request'[p].stage = request[p].stage
      <3>1. request[q].reply = None
        BY <2>3 DEF RepliesAreAnswers, BringsToken
      <3>2. /\ request'[q].cookie = None /\ request'[q].reply = None
            /\ \A p \in Requests \ {q} : request'[p] = request[p]
        BY <1>1, <2>3, RefusalTokens
      <3> QED
        BY <3>1, <3>2 DEF BringsToken
    <2> QED
      BY <2>1, <2>2, <2>3
  <1>4. ASSUME NEW t \in Tokens, opened[t] # None, Current(t)
        PROVE  Current(t)'
    <2>1. opened[t] \in Sessions
      BY <1>1, <1>4
    <2> QED
      BY <1>4, <2>1 DEF Current
  <1>5. TokensAreOfUsers'
    BY <1>1 DEF TokensAreOfUsers
  <1>6. TokensAreIssued' /\ RepliesAreAnswers'
    BY <1>3 DEF TokensAreIssued, Issued, RepliesAreAnswers, BringsToken
  <1>7. CookieFollows'
    BY <1>2, <1>3, <1>4 DEF CookieFollows, BringsToken, TokensAreIssued, Issued
  <1>8. ASSUME NEW p \in Requests
        PROVE  AnswerIsNew(p)'
    BY <1>3, <1>4 DEF AnswerIsNew, BringsToken, TokensAreIssued, Issued
  <1> QED
    BY <1>5, <1>6, <1>7, <1>8

\* Every step keeps the tokens in their place.
LEMMA StepCInv == IInv /\ CInv /\ [Next]_vars => CInv'
  <1> SUFFICES ASSUME IInv, CInv, [Next]_vars
               PROVE  CInv'
    OBVIOUS
  <1>1. session \in [Sessions -> SessionRows] /\ opened \in [Tokens -> Sessions \cup {None}]
    BY DEF IInv, TypeOK, SessionsTypeOK
  <1>2. ASSUME NEW q \in Requests, NEW s \in Sessions, NEW t \in Tokens, LogIn(q, s, t),
               UNCHANGED browserVars
        PROVE  CInv'
    <2>1. session[s].user = None /\ request[q].user \in Users \cup {None}
      BY <1>2, LogInIsFresh DEF IInv, TypeOK, SessionsTypeOK, RequestRows
    <2>2. \A u \in Tokens : opened[u] # s
      BY <2>1, NoneAssumption DEF CInv, TokensAreOfUsers, Sessions
    <2>3. /\ session'[s].token = t
          /\ \A r \in Sessions \ {s} : session'[r] = session[r]
      BY <1>1, <1>2 DEF LogIn, NoSession
    <2>4. session'[s].user # None
      <3>1. request[q].user # None
        BY <1>2 DEF LogIn, Sent, IInv, AsksAreOfAUser
      <3> QED
        BY <1>1, <1>2, <3>1 DEF LogIn, NoSession
    <2> QED
      BY <1>2, <2>2, <2>3, <2>4, AnswerCInv DEF LogIn, Sent, browserVars
  <1>3. ASSUME NEW q \in Requests, NEW t \in Tokens, Rotate(q, t), UNCHANGED browserVars
        PROVE  CInv'
    <2> DEFINE s == request[q].row
    <2>1. s \in Sessions
      BY <1>3 DEF Rotate, IInv, RowsAreRead, RowIsRead
    <2>2. /\ session'[s].token = t /\ session'[s].user = session[s].user
          /\ \A r \in Sessions \ {s} : session'[r] = session[r]
      BY <1>1, <1>3, <2>1 DEF Rotate, SessionRows
    <2>3. session[s].token = request[q].cookie /\ session[s].user # None /\ ~session[s].revoked
      BY <1>3 DEF Rotate, FoundBy, Unrevoked
    <2>4. \A u \in Tokens : opened[u] = s /\ u # request[q].cookie => ~Current(u)
      BY <2>3 DEF Current
    <2>5. request[q].stage # "answered" /\ UNCHANGED <<cookie, lost>>
      BY <1>3 DEF Rotate, browserVars
    <2>6. Issue(t, s) /\ request' = Answered(q, t, session[s].user)
      BY <1>3 DEF Rotate
    <2> HIDE DEF s
    <2> QED
      BY <2>1, <2>2, <2>3, <2>4, <2>5, <2>6, AnswerCInv
  <1>4. ASSUME NEW q \in Requests, TimeOutIdle(q) \/ Revoke(q), UNCHANGED browserVars
        PROVE  CInv'
    <2>1. \A s \in Sessions :
            /\ session'[s].user = session[s].user
            /\ session'[s].revoked \/ (/\ session'[s].token = session[s].token
                                      /\ session'[s].revoked = session[s].revoked)
      BY <1>1, <1>4 DEF TimeOutIdle, Revoke, SaveRevoked, SessionRows
    <2>2. request[q].stage # "answered" /\ request' = Refused(q)
      BY <1>4 DEF TimeOutIdle, Revoke, SaveRevoked
    <2> QED
      BY <1>4, <2>1, <2>2, RevokedCInv DEF TimeOutIdle, Revoke, SaveRevoked, browserVars
  <1>5. ASSUME NEW u \in Users, RevokeAll(u), UNCHANGED browserVars
        PROVE  CInv'
    <2>1. \A s \in Sessions :
            /\ session'[s].user = session[s].user
            /\ session'[s].revoked \/ (/\ session'[s].token = session[s].token
                                      /\ session'[s].revoked = session[s].revoked)
      BY <1>1, <1>5 DEF RevokeAll, SessionRows
    <2> QED
      BY <1>5, <2>1, RevokedCInv DEF RevokeAll, browserVars
  <1>6. ASSUME NEW r \in Sessions, NEW age \in Ages, Ageing(r, age), UNCHANGED browserVars
        PROVE  CInv'
    <2>1. \A s \in Sessions :
            /\ session'[s].user = session[s].user
            /\ session'[s].revoked \/ (/\ session'[s].token = session[s].token
                                      /\ session'[s].revoked = session[s].revoked)
      BY <1>1, <1>6 DEF Ageing, SessionRows
    <2> QED
      BY <1>6, <2>1, RevokedCInv DEF Ageing, browserVars
  <1> QED
    BY <1>2, <1>3, <1>4, <1>5, <1>6, CookieSteps, QuietCInv, ArrivalCInv

\* Every reachable state has its tokens in their place.
LEMMA AlwaysCInv == Spec => []CInv
  BY InitCInv, StepCInv, AlwaysIInv, PTL DEF Spec

-----------------------------------------------------------------------------
(* Theorems.                                                               *)

\* Every reachable state is well typed.
THEOREM TypeCorrect == Spec => []TypeOK
  <1>1. IInv => TypeOK
    BY DEF IInv
  <1> QED
    BY <1>1, AlwaysIInv, PTL

\* However many refreshes carry one token, one of them at most gets the next token for it.
THEOREM TokensAreExchangedOnce == Spec => []OneExchangePerToken
  <1>1. IInv => OneExchangePerToken
    <2> SUFFICES ASSUME IInv, NEW t \in Tokens
                 PROVE  exchanged[t] <= 1
      BY DEF OneExchangePerToken
    <2>1. exchanged[t] = 0 \/ exchanged[t] = 1
      BY DEF IInv, RowsAreCurrent, TokenIsSpentOnce
    <2> QED
      BY <2>1
  <1> QED
    BY <1>1, AlwaysIInv, PTL

\* No handler that read a row before it was revoked brings the session back.
THEOREM RevocationIsFinal == Spec => RevokedStaysRevoked
  <1>1. IInv /\ [Next]_vars
          => [\A s \in Sessions : session[s].revoked => session'[s].revoked]_vars
    BY RowSteps
  <1> QED
    BY <1>1, AlwaysIInv, PTL DEF Spec, RevokedStaysRevoked

\* A signed-out tab is signed in again by the answer of a login of its own only.
THEOREM OnlyALoginSignsIn == Spec => LogoutSticks
  <1>1. ASSUME IInv, [Next]_vars
        PROVE  \A b \in Tabs : stored[b] = None /\ stored'[b] # None =>
                 \E q \in Requests : /\ request[q].op = "login" /\ request[q].tab = b
                                     /\ request'[q] = NoRequest
    <2> SUFFICES ASSUME NEW b \in Tabs, stored[b] = None, stored'[b] # None
                 PROVE  \E q \in Requests : /\ request[q].op = "login"
                                            /\ request[q].tab = b
                                            /\ request'[q] = NoRequest
      OBVIOUS
    <2> USE DEF TypeOK, SessionsTypeOK
    <2>1. TypeOK
      BY <1>1 DEF IInv
    <2>2. ASSUME NEW q \in Requests, ReceiveLogin(q)
          PROVE  \E p \in Requests : /\ request[p].op = "login"
                                     /\ request[p].tab = b
                                     /\ request'[p] = NoRequest
      BY <2>1, <2>2 DEF ReceiveLogin, Arrives, Done
    <2>3. ASSUME NEW q \in Requests, ReceiveRefresh(q)
          PROVE  FALSE
      <3>1. request[q].user # None
        BY <1>1, <2>3 DEF IInv, AsksAreOfAUser, ReceiveRefresh, Arrives
      <3> QED
        BY <2>1, <2>3, <3>1 DEF ReceiveRefresh
    <2>4. ASSUME NEW q \in Requests, ReceiveRefusal(q) \/ ReceiveLogout(q) \/ LoseAnswer(q)
          PROVE  FALSE
      BY <2>1, <2>4 DEF ReceiveRefusal, ReceiveLogout, LoseAnswer, SignOut, tabVars
    <2>5. ASSUME NEW c \in Tabs, StoreExpires(c)
          PROVE  FALSE
      BY <2>1, <2>5 DEF StoreExpires
    <2>6. CASE UNCHANGED stored
      BY <2>6
    <2> QED
      BY <1>1, <2>2, <2>3, <2>4, <2>5, <2>6
         DEF Next, vars, browserVars, tabVars, SubmitLogin, SubmitRefresh, SubmitLogout, Reload,
             ArriveUnawaited
  <1>2. IInv /\ [Next]_vars
          => [\A b \in Tabs : stored[b] = None /\ stored'[b] # None =>
                \E q \in Requests : /\ request[q].op = "login" /\ request[q].tab = b
                                    /\ request'[q] = NoRequest]_vars
    BY <1>1
  <1> QED
    BY <1>2, AlwaysIInv, PTL DEF Spec, LogoutSticks

\* Whatever answers of overlapping refreshes, logins and logouts have arrived, in whatever
\* order, the cookie that is left when nothing is in flight is the token of its session.
THEOREM TheCookieIsCurrent == Spec => []CookieIsCurrent
  <1>1. CInv => CookieIsCurrent
    BY DEF CInv, CookieFollows, Current, BringsToken, NoRequest, CookieIsCurrent
  <1> QED
    BY <1>1, AlwaysCInv, PTL

-----------------------------------------------------------------------------
(* AppealPayment: what backs a fee that counts as paid.                    *)

\* A call that has its answer holds one, and a call that will save a payment holds a copy.
CallHolds(c) ==
    call[c] # Idle =>
        /\ call[c].op = "advice" => /\ call[c].copy \in Payment
                                    /\ call[c].phase \in {"sent", "answered"}
        /\ call[c].phase = "loaded" => call[c].copy \in Payment
        /\ call[c].phase # "sent" => call[c].answer \in Answer

\* What an answer tells, and what a copy holds, is told of a fee that was paid.
CallIsBacked(c) ==
    call[c] # Idle =>
        /\ call[c].phase # "sent" /\ (call[c].answer.state = "PAID" \/ call[c].answer.receipt)
             => call[c].of \in everPaid
        /\ call[c].copy \in Payment /\ call[c].copy.receipt => call[c].of \in everPaid

\* BIRMS has a fee as paid only if it was paid.
AdvicesAreBacked == \A p \in Appeals : birms[p] = "PAID" => p \in everPaid

FeeInv ==
    /\ FeeTypeOK
    /\ AdvicesAreBacked
    /\ AppealFeesAreSettled
    /\ \A c \in Calls : CallHolds(c) /\ CallIsBacked(c)

\* No payment yet, and nothing asked of BIRMS.
LEMMA InitFeeInv == FeeInit => FeeInv
  <1> SUFFICES ASSUME FeeInit
               PROVE  FeeInv
    OBVIOUS
  <1>1. Due \in Payment /\ Due.status = "INITIATED" /\ ~Due.receipt
    BY DEF Due, Payment, PaymentStatuses
  <1>2. FeeTypeOK
    BY <1>1 DEF FeeInit, FeeTypeOK
  <1>3. AdvicesAreBacked /\ AppealFeesAreSettled
    BY <1>1 DEF FeeInit, AdvicesAreBacked, AppealFeesAreSettled, Unset
  <1> QED
    BY <1>2, <1>3 DEF FeeInit, FeeInv, CallHolds, CallIsBacked

\* BIRMS's state of an advice that stands, and the status it gives.
LEMMA StatesAreKnown ==
    /\ \A state : AdviceAfter(state) = "PAID" => state = "PAID"
    /\ \A state : AdviceAfter(state) \in AdviceStates
    /\ \A state : MapStatus(state) \in {"INITIATED", "PAID", "FAILED"}
    /\ \A state : MapStatus(state) = "PAID" <=> state = "PAID"
  BY DEF AdviceAfter, AdviceStates, MapStatus

\* A call that is under way is a record of its own.
LEMMA CallIsTyped ==
    ASSUME FeeTypeOK, NEW c \in Calls, call[c] # Idle
    PROVE  call[c] \in Call /\ call[c].of \in Appeals
  BY DEF FeeTypeOK, Call

\* What becomes of the calls when the call c alone moves on, or ends.
LEMMA CallMoves ==
    ASSUME FeeInv, NEW c \in Calls, NEW k \in Call \cup {Idle},
           call' = [call EXCEPT ![c] = k],
           everPaid \subseteq everPaid',
           CallHolds(c)', CallIsBacked(c)'
    PROVE  /\ call' \in [Calls -> Call \cup {Idle}]
           /\ \A d \in Calls : CallHolds(d)' /\ CallIsBacked(d)'
  <1>1. call \in [Calls -> Call \cup {Idle}]
    BY DEF FeeInv, FeeTypeOK
  <1>2. ASSUME NEW d \in Calls, d # c
        PROVE  CallHolds(d)' /\ CallIsBacked(d)'
    <2>1. call'[d] = call[d]
      BY <1>1, <1>2
    <2>2. CallHolds(d) /\ CallIsBacked(d)
      BY DEF FeeInv
    <2> QED
      BY <2>1, <2>2 DEF CallHolds, CallIsBacked
  <1> QED
    BY <1>1, <1>2

\* A payment that is saved from a copy is settled if its answer and its copy are.
LEMMA SaveIsBacked ==
    ASSUME FeeInv, NEW c \in Calls, call[c] # Idle,
           call[c].phase # "sent", call[c].copy \in Payment,
           NEW receipt \in BOOLEAN, receipt => call[c].copy.receipt \/ call[c].answer.receipt,
           payment' = [payment EXCEPT ![call[c].of] =
              [call[c].copy EXCEPT !.status = MapStatus(call[c].answer.state), !.advised = TRUE,
                                   !.receipt = receipt]],
           call' = [call EXCEPT ![c] = Idle],
           UNCHANGED <<status, waiveFees, birmsVars, waived>>
    PROVE  FeeInv'
  <1> DEFINE p == call[c].of
             row == [call[c].copy EXCEPT !.status = MapStatus(call[c].answer.state),
                                         !.advised = TRUE, !.receipt = receipt]
  <1>1. p \in Appeals /\ CallHolds(c) /\ CallIsBacked(c)
    BY CallIsTyped DEF FeeInv
  <1>2. /\ row \in Payment /\ row.status = MapStatus(call[c].answer.state)
        /\ row.receipt = receipt
    BY StatesAreKnown DEF Payment, PaymentStatuses
  <1>3. payment' = [payment EXCEPT ![p] = row]
    OBVIOUS
  <1> HIDE DEF row
  <1>4. row.status = "PAID" \/ row.receipt => p \in everPaid
    BY <1>1, <1>2, StatesAreKnown DEF CallIsBacked
  <1>5. row.status # "WAIVED"
    BY <1>2, StatesAreKnown
  <1> HIDE DEF p
  <1>6. CallHolds(c)' /\ CallIsBacked(c)' /\ everPaid' = everPaid
    BY DEF FeeInv, FeeTypeOK, CallHolds, CallIsBacked, birmsVars
  <1>7. /\ call' \in [Calls -> Call \cup {Idle}]
        /\ \A d \in Calls : CallHolds(d)' /\ CallIsBacked(d)'
    BY <1>6, CallMoves
  <1>8. FeeTypeOK'
    <2>1. payment' \in [Appeals -> Payment]
      BY <1>1, <1>2, <1>3 DEF FeeInv, FeeTypeOK
    <2> QED
      BY <1>7, <2>1 DEF FeeInv, FeeTypeOK, birmsVars
  <1>9. AdvicesAreBacked'
    BY DEF FeeInv, AdvicesAreBacked, birmsVars
  <1>10. AppealFeesAreSettled'
    BY <1>1, <1>3, <1>4, <1>5 DEF FeeInv, FeeTypeOK, AppealFeesAreSettled, birmsVars
  <1> QED
    BY <1>7, <1>8, <1>9, <1>10 DEF FeeInv

\* A fee that is confirmed was paid, and stays settled.
LEMMA ConfirmedIsBacked ==
    ASSUME FeeInv, NEW p \in Appeals, NEW t \in Transactions,
           Confirmed(p, t) \/ AlreadyConfirmed(p, t),
           UNCHANGED waived, everPaid' \subseteq Appeals, everPaid \subseteq everPaid',
           p \in everPaid'
    PROVE  /\ status' \in [Appeals -> {"NO_ROW", "SUBMITTED", "RELEASED"}]
           /\ payment' \in [Appeals -> Payment]
           /\ AppealFeesAreSettled'
  <1> USE DEF FeeInv, FeeTypeOK
  <1>1. CASE AlreadyConfirmed(p, t)
    BY <1>1 DEF AlreadyConfirmed, AppealFeesAreSettled
  <1>2. CASE Confirmed(p, t)
    <2> DEFINE row == [payment[p] EXCEPT !.status = "PAID", !.transaction = t]
    <2>1. row \in Payment /\ row.status = "PAID"
      BY DEF Payment, PaymentStatuses
    <2>2. payment' = [payment EXCEPT ![p] = row]
      BY <1>2, Zenon DEF Confirmed
    <2> HIDE DEF row
    <2>3. payment' \in [Appeals -> Payment]
      BY <2>1, <2>2
    <2>4. status' = [status EXCEPT ![p] = "RELEASED"]
      BY <1>2 DEF Confirmed
    <2>5. AppealFeesAreSettled'
      BY <2>1, <2>2, <2>4 DEF AppealFeesAreSettled
    <2> QED
      BY <2>3, <2>4, <2>5
  <1> QED
    BY <1>1, <1>2

\* The calls stay as they are.
LEMMA CallsStay ==
    ASSUME FeeInv, UNCHANGED call, everPaid \subseteq everPaid'
    PROVE  \A d \in Calls : CallHolds(d)' /\ CallIsBacked(d)'
  BY DEF FeeInv, CallHolds, CallIsBacked

\* Every step keeps fees settled.
LEMMA StepFeeInv == FeeInv /\ [FeeNext]_feeVars => FeeInv'
  <1> SUFFICES ASSUME FeeInv, [FeeNext]_feeVars
               PROVE  FeeInv'
    OBVIOUS
  <1> USE DEF birmsVars
  <1>1. ASSUME NEW p \in Appeals, Submit(p)
        PROVE  FeeInv'
    <2>1. FeeTypeOK'
      BY <1>1 DEF Submit, FeeInv, FeeTypeOK, Payment, PaymentStatuses
    <2>2. AppealFeesAreSettled'
      BY <1>1 DEF Submit, FeeInv, FeeTypeOK, AppealFeesAreSettled, Payment
    <2> QED
      BY <1>1, <2>1, <2>2, CallsStay DEF Submit, FeeInv, AdvicesAreBacked
  <1>2. ASSUME NEW p \in Appeals, GatewayConfirms(p)
        PROVE  FeeInv'
    <2>1. /\ status' \in [Appeals -> {"NO_ROW", "SUBMITTED", "RELEASED"}]
          /\ payment' \in [Appeals -> Payment]
          /\ AppealFeesAreSettled'
      BY <1>2, ConfirmedIsBacked DEF GatewayConfirms, Transactions, FeeInv, FeeTypeOK
    <2>2. FeeTypeOK' /\ AdvicesAreBacked'
      BY <1>2, <2>1 DEF GatewayConfirms, FeeInv, FeeTypeOK, AdvicesAreBacked
    <2> QED
      BY <1>2, <2>1, <2>2, CallsStay DEF GatewayConfirms, FeeInv
  <1>3. ASSUME NEW p \in Appeals, NEW to \in AdviceStates, AdviceMoves(p, to)
        PROVE  FeeInv'
    <2>1. FeeTypeOK'
      BY <1>3 DEF AdviceMoves, FeeInv, FeeTypeOK
    <2>2. AdvicesAreBacked' /\ AppealFeesAreSettled'
      BY <1>3 DEF AdviceMoves, FeeInv, FeeTypeOK, AdvicesAreBacked, AppealFeesAreSettled
    <2> QED
      BY <1>3, <2>1, <2>2, CallsStay DEF AdviceMoves, FeeInv
  <1>4. ASSUME NEW p \in Appeals, NEW c \in Calls, BeginAdvice(c, p) \/ BeginSync(c, p)
        PROVE  FeeInv'
    <2>1. PICK op \in {"advice", "sync"}, copy \in Payment \cup {Nothing} :
            /\ Begin(c, op, p, copy)
            /\ op = "advice" => copy = payment[p]
            /\ op = "sync" => copy = Nothing
      BY <1>4 DEF BeginAdvice, BeginSync, FeeInv, FeeTypeOK
    <2> DEFINE k == [op |-> op, of |-> p, phase |-> "sent", answer |-> Nothing, copy |-> copy]
    <2>2. k \in Call
      BY DEF Call
    <2>3. /\ call' = [call EXCEPT ![c] = k]
          /\ UNCHANGED <<status, payment, waiveFees, birmsVars, waived>>
      BY <2>1 DEF Begin
    <2>4. call'[c] = k
      BY <2>3 DEF FeeInv, FeeTypeOK
    <2>5. copy \in Payment /\ copy.receipt => p \in everPaid
      <3>1. CASE copy = payment[p]
        BY <3>1 DEF FeeInv, AppealFeesAreSettled
      <3>2. CASE copy = Nothing
        <4>1. Nothing \notin Payment
          BY DEF Nothing, Payment
        <4> QED
          BY <3>2, <4>1
      <3> QED
        BY <2>1, <3>1, <3>2
    <2>6. op = "advice" => copy \in Payment
      BY <2>1 DEF FeeInv, FeeTypeOK
    <2>7. CallHolds(c)'
      BY <2>4, <2>6 DEF CallHolds
    <2>8. CallIsBacked(c)'
      BY <2>3, <2>4, <2>5 DEF CallIsBacked
    <2> HIDE DEF k
    <2>9. /\ call' \in [Calls -> Call \cup {Idle}]
          /\ \A d \in Calls : CallHolds(d)' /\ CallIsBacked(d)'
      BY <2>2, <2>3, <2>7, <2>8, CallMoves
    <2> QED
      BY <2>3, <2>9 DEF FeeInv, FeeTypeOK, AdvicesAreBacked, AppealFeesAreSettled
  <1>5. ASSUME NEW waive \in BOOLEAN, SetFeeWaiver(waive)
        PROVE  FeeInv'
    <2>1. FeeTypeOK'
      BY <1>5 DEF SetFeeWaiver, Awaiting, FeeInv, FeeTypeOK, Payment, PaymentStatuses
    <2>2. AppealFeesAreSettled'
      BY <1>5 DEF SetFeeWaiver, Awaiting, FeeInv, FeeTypeOK, AppealFeesAreSettled, Payment
    <2> QED
      BY <1>5, <2>1, <2>2, CallsStay DEF SetFeeWaiver, FeeInv, AdvicesAreBacked
  <1>6. ASSUME NEW c \in Calls, BirmsAnswers(c)
        PROVE  FeeInv'
    <2> DEFINE p == call[c].of
    <2>1. call[c] # Idle /\ call[c] \in Call /\ p \in Appeals /\ call[c].phase = "sent"
      BY <1>6, CallIsTyped DEF BirmsAnswers, At, FeeInv
    <2>2. /\ birms' \in [Appeals -> AdviceStates \cup {Unset}] /\ birms'[p] \in AdviceStates
          /\ \A r \in Appeals : birms'[r] = "PAID" => birms[r] = "PAID"
      BY <1>6, <2>1, StatesAreKnown DEF BirmsAnswers, FeeInv, FeeTypeOK
    <2>3. PICK receipt \in {FALSE, birms'[p] = "PAID"} :
            call' = [call EXCEPT ![c].phase = "answered",
                                 ![c].answer = [state |-> birms'[p], receipt |-> receipt]]
      BY <1>6 DEF BirmsAnswers
    <2> DEFINE answer == [state |-> birms'[p], receipt |-> receipt]
               k == [call[c] EXCEPT !.phase = "answered", !.answer = answer]
    <2>4. answer \in Answer
      BY <2>2 DEF Answer
    <2>5. /\ k \in Call /\ k.phase = "answered" /\ k.answer = answer /\ k.of = p
          /\ k.copy = call[c].copy /\ k.op = call[c].op
      BY <2>1, <2>4 DEF Call
    <2>6. call' = [call EXCEPT ![c] = k]
      BY <2>3, Zenon
    <2>7. answer.state = "PAID" \/ answer.receipt => p \in everPaid
      BY <2>1, <2>2, <2>3 DEF FeeInv, AdvicesAreBacked
    <2> HIDE DEF k, answer
    <2>8. call'[c] = k
      BY <2>6 DEF FeeInv, FeeTypeOK
    <2>9. UNCHANGED <<status, payment, waiveFees, everPaid, waived>>
      BY <1>6 DEF BirmsAnswers
    <2>10. CallHolds(c)' /\ CallIsBacked(c)'
      BY <2>1, <2>4, <2>5, <2>7, <2>8, <2>9 DEF FeeInv, CallHolds, CallIsBacked
    <2>11. /\ call' \in [Calls -> Call \cup {Idle}]
           /\ \A d \in Calls : CallHolds(d)' /\ CallIsBacked(d)'
      BY <2>5, <2>6, <2>9, <2>10, CallMoves
    <2> QED
      BY <2>2, <2>9, <2>11 DEF FeeInv, FeeTypeOK, AdvicesAreBacked, AppealFeesAreSettled
  <1>7. ASSUME NEW c \in Calls, CallStops(c)
        PROVE  FeeInv'
    <2>1. call[c].of \in Appeals
      BY <1>7, CallIsTyped DEF CallStops, FeeInv
    <2>2. /\ birms' \in [Appeals -> AdviceStates \cup {Unset}]
          /\ \A r \in Appeals : birms'[r] = "PAID" => birms[r] = "PAID"
      BY <1>7, <2>1, StatesAreKnown DEF CallStops, FeeInv, FeeTypeOK
    <2>3. /\ call' = [call EXCEPT ![c] = Idle]
          /\ UNCHANGED <<status, payment, waiveFees, everPaid, waived>>
      BY <1>7 DEF CallStops
    <2>4. CallHolds(c)' /\ CallIsBacked(c)'
      BY <2>3 DEF FeeInv, FeeTypeOK, CallHolds, CallIsBacked
    <2>5. /\ call' \in [Calls -> Call \cup {Idle}]
          /\ \A d \in Calls : CallHolds(d)' /\ CallIsBacked(d)'
      BY <2>3, <2>4, CallMoves
    <2> QED
      BY <2>2, <2>3, <2>5 DEF FeeInv, FeeTypeOK, AdvicesAreBacked, AppealFeesAreSettled
  <1>8. ASSUME NEW c \in Calls, SaveAdvice(c)
        PROVE  FeeInv'
    <2>1. /\ call[c] # Idle /\ call[c].op = "advice" /\ call[c].phase = "answered"
          /\ call[c].copy \in Payment
      BY <1>8 DEF SaveAdvice, At, FeeInv, CallHolds
    <2>2. [call[c].copy EXCEPT !.status = MapStatus(call[c].answer.state), !.advised = TRUE]
            = [call[c].copy EXCEPT !.status = MapStatus(call[c].answer.state), !.advised = TRUE,
                                   !.receipt = call[c].copy.receipt]
      BY <2>1 DEF Payment
    <2>3. call[c].copy.receipt \in BOOLEAN
      BY <2>1 DEF Payment
    <2> QED
      BY <1>8, <2>1, <2>2, <2>3, SaveIsBacked DEF SaveAdvice
  <1>9. ASSUME NEW c \in Calls, Confirm(c)
        PROVE  FeeInv'
    <2> DEFINE p == call[c].of
               t == IF call[c].answer.receipt THEN "RECEIPT" ELSE "ADVICE"
               k == [call[c] EXCEPT !.phase = "confirmed"]
    <2>1. /\ call[c] # Idle /\ call[c] \in Call /\ p \in Appeals
          /\ call[c].phase = "answered" /\ call[c].op = "sync"
          /\ CallHolds(c) /\ CallIsBacked(c)
      BY <1>9, CallIsTyped DEF Confirm, At, FeeInv
    <2>2. p \in everPaid
      BY <1>9, <2>1, StatesAreKnown DEF Confirm, CallIsBacked
    <2>3. /\ Confirmed(p, t) \/ AlreadyConfirmed(p, t)
          /\ call' = [call EXCEPT ![c].phase = "confirmed"]
          /\ UNCHANGED <<waiveFees, birmsVars, waived>>
      BY <1>9 DEF Confirm
    <2>4. t \in Transactions
      BY DEF Transactions
    <2>5. /\ status' \in [Appeals -> {"NO_ROW", "SUBMITTED", "RELEASED"}]
          /\ payment' \in [Appeals -> Payment]
          /\ AppealFeesAreSettled'
      BY <2>1, <2>2, <2>3, <2>4, ConfirmedIsBacked DEF FeeInv, FeeTypeOK
    <2>6. /\ k \in Call /\ k.phase = "confirmed" /\ k.of = p /\ k.op = "sync"
          /\ k.answer = call[c].answer /\ k.copy = call[c].copy
      BY <2>1 DEF Call
    <2>7. call' = [call EXCEPT ![c] = k]
      BY <2>3, Zenon
    <2> HIDE DEF k, p, t
    <2>8. call'[c] = k
      BY <2>7 DEF FeeInv, FeeTypeOK
    <2>9. CallHolds(c)' /\ CallIsBacked(c)'
      BY <2>1, <2>3, <2>6, <2>8 DEF CallHolds, CallIsBacked, p
    <2>10. /\ call' \in [Calls -> Call \cup {Idle}]
           /\ \A d \in Calls : CallHolds(d)' /\ CallIsBacked(d)'
      BY <2>3, <2>6, <2>7, <2>9, CallMoves
    <2> QED
      BY <2>3, <2>5, <2>10 DEF FeeInv, FeeTypeOK, AdvicesAreBacked
  <1>10. ASSUME NEW c \in Calls, LoadForSync(c)
         PROVE  FeeInv'
    <2> DEFINE p == call[c].of
               k == [call[c] EXCEPT !.phase = "loaded", !.copy = payment[p]]
    <2>1. /\ call[c] # Idle /\ call[c] \in Call /\ p \in Appeals
          /\ call[c].phase # "sent" /\ call[c].op = "sync"
          /\ CallHolds(c) /\ CallIsBacked(c)
      BY <1>10, CallIsTyped DEF LoadForSync, At, FeeInv
    <2>2. payment[p] \in Payment /\ (payment[p].receipt => p \in everPaid)
      BY <2>1 DEF FeeInv, FeeTypeOK, AppealFeesAreSettled
    <2>3. /\ call' = [call EXCEPT ![c].phase = "loaded", ![c].copy = payment[p]]
          /\ UNCHANGED <<status, payment, waiveFees, birmsVars, waived>>
      BY <1>10 DEF LoadForSync
    <2>4. /\ k \in Call /\ k.phase = "loaded" /\ k.of = p /\ k.op = "sync"
          /\ k.answer = call[c].answer /\ k.copy = payment[p]
      BY <2>1, <2>2 DEF Call
    <2>5. call' = [call EXCEPT ![c] = k]
      BY <2>3, Zenon
    <2> HIDE DEF k, p
    <2>6. call'[c] = k
      BY <2>5 DEF FeeInv, FeeTypeOK
    <2>7. CallHolds(c)' /\ CallIsBacked(c)'
      BY <2>1, <2>2, <2>3, <2>4, <2>6 DEF CallHolds, CallIsBacked, p
    <2>8. /\ call' \in [Calls -> Call \cup {Idle}]
          /\ \A d \in Calls : CallHolds(d)' /\ CallIsBacked(d)'
      BY <2>3, <2>4, <2>5, <2>7, CallMoves
    <2> QED
      BY <2>3, <2>8 DEF FeeInv, FeeTypeOK, AdvicesAreBacked, AppealFeesAreSettled
  <1>11. ASSUME NEW c \in Calls, SaveSync(c)
         PROVE  FeeInv'
    <2> DEFINE receipt == call[c].copy.receipt \/ call[c].answer.receipt
    <2>1. /\ call[c] # Idle /\ call[c].phase = "loaded"
          /\ call[c].copy \in Payment /\ call[c].answer \in Answer
      BY <1>11 DEF SaveSync, At, FeeInv, CallHolds
    <2>2. receipt \in BOOLEAN
      BY <2>1 DEF Payment, Answer
    <2>3. payment' = [payment EXCEPT ![call[c].of] =
             [call[c].copy EXCEPT !.status = MapStatus(call[c].answer.state), !.advised = TRUE,
                                  !.receipt = receipt]]
      BY <1>11, Zenon DEF SaveSync
    <2>4. /\ call' = [call EXCEPT ![c] = Idle]
          /\ UNCHANGED <<status, waiveFees, birmsVars, waived>>
      BY <1>11 DEF SaveSync
    <2>5. receipt => call[c].copy.receipt \/ call[c].answer.receipt
      OBVIOUS
    <2> HIDE DEF receipt
    <2> QED
      BY <2>1, <2>2, <2>3, <2>4, <2>5, SaveIsBacked
  <1>12. CASE UNCHANGED feeVars
    BY <1>12 DEF feeVars, FeeInv, FeeTypeOK, AdvicesAreBacked, AppealFeesAreSettled, CallHolds,
                 CallIsBacked
  <1> QED
    BY <1>1, <1>2, <1>3, <1>4, <1>5, <1>6, <1>7, <1>8, <1>9, <1>10, <1>11, <1>12 DEF FeeNext

\* Every reachable state has its fees settled.
LEMMA AlwaysFeeInv == FeeSpec => []FeeInv
  BY InitFeeInv, StepFeeInv, PTL DEF FeeSpec

\* Payments, advices and calls stay well typed, for any appeals and calls.
THEOREM FeeTypesCorrect == FeeSpec => []FeeTypeOK
  <1>1. FeeInv => FeeTypeOK
    BY DEF FeeInv
  <1> QED
    BY <1>1, AlwaysFeeInv, PTL

\* Whatever advices, refreshes, callbacks and waivers overlap, and whatever copies they write
\* back, an appeal is released and a payment is PAID, receipted or WAIVED only if BIRMS,
\* another gateway or the administrator settled the fee.
THEOREM FeesAreSettled == FeeSpec => []AppealFeesAreSettled
  <1>1. FeeInv => AppealFeesAreSettled
    BY DEF FeeInv
  <1> QED
    BY <1>1, AlwaysFeeInv, PTL
-----------------------------------------------------------------------------
(* AppealPayment: the desk.                                                *)

\* Nothing is asked of BIRMS and nothing is paid or waived before the appeal is submitted.
Untouched(p) ==
    /\ ~payment[p].advised /\ birms[p] = Unset
    /\ p \notin everPaid /\ p \notin waived
    /\ \A c \in Calls : call[c] # Idle => call[c].of # p

NothingIsEarly == \A p \in Appeals : status[p] = "NO_ROW" => Untouched(p)

\* A step that opens at most the appeal it submits, and touches only what was opened.
LEMMA NothingComesEarly ==
    ASSUME NothingIsEarly,
           \A p \in Appeals : status'[p] = "NO_ROW" => status[p] = "NO_ROW",
           \A p \in Appeals : status[p] = "NO_ROW" /\ Untouched(p) /\ status'[p] = "NO_ROW" =>
              /\ payment'[p].advised = payment[p].advised /\ birms'[p] = birms[p]
              /\ p \notin everPaid' /\ p \notin waived'
              /\ \A c \in Calls : call'[c] # call[c] /\ call'[c] # Idle => call'[c].of # p
    PROVE  NothingIsEarly'
  BY DEF NothingIsEarly, Untouched

\* What is saved, and what BIRMS does, is about an appeal that was submitted.
LEMMA CallsAreOfOpened ==
    ASSUME FeeInv, NothingIsEarly, NEW c \in Calls, call[c] # Idle
    PROVE  call[c] \in Call /\ call[c].of \in Appeals /\ status[call[c].of] # "NO_ROW"
  BY CallIsTyped DEF FeeInv, NothingIsEarly, Untouched

\* What a step does at the desk: an appeal is submitted, with its fee waived or not, a fee is
\* paid, or appeals with settled fees are released.
LEMMA AtTheDesk ==
    ASSUME FeeInv, NothingIsEarly, [FeeNext]_feeVars
    PROVE  /\ NothingIsEarly'
           /\ \/ UNCHANGED <<status, everPaid, waived>>
              \/ \E p \in Appeals : Desk!Submit(p) \/ Desk!Settle(p) \/ Desk!SubmitWaived(p)
              \/ \E P \in SUBSET Appeals : Desk!Release(P)
  <1> DEFINE Goal == /\ NothingIsEarly'
                     /\ \/ UNCHANGED <<status, everPaid, waived>>
                        \/ \E p \in Appeals :
                              Desk!Submit(p) \/ Desk!Settle(p) \/ Desk!SubmitWaived(p)
                        \/ \E P \in SUBSET Appeals : Desk!Release(P)
  <1>1. /\ status \in [Appeals -> {"NO_ROW", "SUBMITTED", "RELEASED"}]
        /\ payment \in [Appeals -> Payment] /\ birms \in [Appeals -> AdviceStates \cup {Unset}]
        /\ call \in [Calls -> Call \cup {Idle}]
    BY DEF FeeInv, FeeTypeOK
  <1>2. ASSUME NEW p \in Appeals, Submit(p)
        PROVE  Goal
    <2>1. /\ status[p] = "NO_ROW" /\ UNCHANGED <<birms, everPaid, call>>
          /\ status' = [status EXCEPT ![p] = IF waiveFees THEN "RELEASED" ELSE "SUBMITTED"]
          /\ waived' = IF waiveFees THEN waived \cup {p} ELSE waived
      BY <1>2 DEF Submit, birmsVars
    <2>2. \A q \in Appeals : payment'[q].advised = payment[q].advised
      BY <1>1, <1>2 DEF Submit, Payment
    <2>3. NothingIsEarly'
      BY <1>1, <2>1, <2>2, NothingComesEarly DEF Untouched
    <2>4. waiveFees => Desk!SubmitWaived(p)
      BY <2>1 DEF Desk!SubmitWaived
    <2>5. ~waiveFees => Desk!Submit(p)
      BY <2>1 DEF Desk!Submit
    <2> QED
      BY <2>3, <2>4, <2>5
  <1>3. ASSUME NEW p \in Appeals, NEW t, Confirmed(p, t), p \in everPaid',
               everPaid' \in {everPaid, everPaid \cup {p}}, UNCHANGED <<birms, waived>>,
               \A c \in Calls : \/ call'[c] = call[c]
                                \/ call'[c].of = call[c].of /\ call[c] # Idle
        PROVE  Goal
    <2>1. status[p] = "SUBMITTED" /\ status' = [status EXCEPT ![p] = "RELEASED"]
      BY <1>3 DEF Confirmed
    <2>2. \A q \in Appeals \ {p} : payment'[q] = payment[q] /\ status'[q] = status[q]
      BY <1>1, <1>3 DEF Confirmed
    <2>3. NothingIsEarly'
      BY <1>1, <1>3, <2>1, <2>2, NothingComesEarly DEF Untouched
    <2>4. status' = [q \in Appeals |-> IF q \in {p} THEN "RELEASED" ELSE status[q]]
      BY <1>1, <2>1
    <2>5. Desk!Release({p})
      BY <1>3, <2>1, <2>4 DEF Desk!Release
    <2> QED
      BY <2>3, <2>5
  <1>4. ASSUME NEW p \in Appeals, GatewayConfirms(p)
        PROVE  Goal
    <2>1. /\ Confirmed(p, "OTHER") /\ everPaid' = everPaid \cup {p}
          /\ UNCHANGED <<birms, waived>> /\ UNCHANGED call
      BY <1>4 DEF GatewayConfirms
    <2>2. \A c \in Calls : call'[c] = call[c]
      BY <2>1
    <2>3. p \in everPaid' /\ everPaid' \in {everPaid, everPaid \cup {p}}
      BY <2>1
    <2> HIDE DEF Goal
    <2> QED
      BY <1>3, <2>1, <2>2, <2>3
  <1>5. ASSUME NEW p \in Appeals, NEW to \in AdviceStates, AdviceMoves(p, to)
        PROVE  Goal
    <2>1. birms[p] # Unset
      BY <1>5 DEF AdviceMoves, BirmsMoves, Unset
    <2>2. status[p] # "NO_ROW"
      BY <2>1 DEF NothingIsEarly, Untouched
    <2>3. /\ \A q \in Appeals \ {p} : birms'[q] = birms[q]
          /\ everPaid' \in {everPaid, everPaid \cup {p}}
          /\ UNCHANGED <<status, payment, call, waived>>
      BY <1>1, <1>5 DEF AdviceMoves
    <2>4. NothingIsEarly'
      BY <2>2, <2>3, NothingComesEarly DEF Untouched
    <2>5. everPaid' = everPaid \cup {p} => Desk!Settle(p)
      BY <2>2, <2>3 DEF Desk!Settle
    <2> QED
      BY <2>3, <2>4, <2>5
  <1>6. ASSUME NEW p \in Appeals, NEW c \in Calls, BeginAdvice(c, p) \/ BeginSync(c, p)
        PROVE  Goal
    <2>1. status[p] # "NO_ROW"
      BY <1>6 DEF BeginAdvice, BeginSync, NothingIsEarly, Untouched
    <2>2. /\ call'[c].of = p /\ \A d \in Calls \ {c} : call'[d] = call[d]
          /\ UNCHANGED <<status, payment, birms, everPaid, waived>>
      BY <1>1, <1>6 DEF BeginAdvice, BeginSync, Begin, birmsVars
    <2> QED
      BY <2>1, <2>2, NothingComesEarly DEF Untouched
  <1>7. ASSUME NEW waive \in BOOLEAN, SetFeeWaiver(waive)
        PROVE  Goal
    <2>1. PICK P \in SUBSET Appeals :
             /\ \A p \in P : status[p] = "SUBMITTED"
             /\ status' = [p \in Appeals |-> IF p \in P THEN "RELEASED" ELSE status[p]]
             /\ payment' = [p \in Appeals |-> IF p \in P THEN [payment[p] EXCEPT !.status = "WAIVED"]
                                              ELSE payment[p]]
             /\ waived' = waived \cup P
             /\ UNCHANGED <<birms, everPaid, call>>
      <3> DEFINE P == IF waive THEN Awaiting ELSE {}
      <3>1. P \in SUBSET Appeals /\ \A p \in P : status[p] = "SUBMITTED"
        BY DEF Awaiting
      <3>2. /\ status' = [p \in Appeals |-> IF p \in P THEN "RELEASED" ELSE status[p]]
            /\ payment' = [p \in Appeals |->
                   IF p \in P THEN [payment[p] EXCEPT !.status = "WAIVED"] ELSE payment[p]]
            /\ waived' = waived \cup P
            /\ UNCHANGED <<birms, everPaid, call>>
        BY <1>7, Zenon DEF SetFeeWaiver, birmsVars
      <3> HIDE DEF P
      <3> QED
        BY <3>1, <3>2
    <2>2. NothingIsEarly'
      BY <2>1, NothingComesEarly DEF Untouched
    <2>3. Desk!Release(P)
      BY <2>1 DEF Desk!Release
    <2> QED
      BY <2>2, <2>3
  <1>8. ASSUME NEW c \in Calls, call[c] # Idle,
               \A p \in Appeals \ {call[c].of} : payment'[p] = payment[p] /\ birms'[p] = birms[p],
               \/ call'[c] = Idle
               \/ call'[c].of = call[c].of,
               \A d \in Calls \ {c} : call'[d] = call[d],
               UNCHANGED <<status, everPaid, waived>>
        PROVE  Goal
    <2>1. call[c].of \in Appeals /\ status[call[c].of] # "NO_ROW"
      BY <1>8, CallsAreOfOpened
    <2>2. \A p \in Appeals : status[p] = "NO_ROW" => p # call[c].of
      BY <2>1
    <2>3. NothingIsEarly'
      BY <1>8, <2>2, NothingComesEarly DEF Untouched
    <2> QED
      BY <1>8, <2>3
  <1>9. ASSUME NEW c \in Calls, BirmsAnswers(c) \/ LoadForSync(c)
        PROVE  Goal
    <2>1. call[c] # Idle /\ call[c] \in Call /\ UNCHANGED <<status, payment, everPaid, waived>>
      BY <1>1, <1>9 DEF BirmsAnswers, LoadForSync, At, birmsVars
    <2>2. \A p \in Appeals \ {call[c].of} : birms'[p] = birms[p]
      BY <1>1, <1>9 DEF BirmsAnswers, LoadForSync, birmsVars
    <2>3. call'[c].of = call[c].of /\ \A d \in Calls \ {c} : call'[d] = call[d]
      BY <1>1, <1>9, <2>1 DEF BirmsAnswers, LoadForSync, Call
    <2> QED
      BY <1>8, <2>1, <2>2, <2>3
  <1>10. ASSUME NEW c \in Calls, CallStops(c)
         PROVE  Goal
    <2>1. /\ call[c] # Idle /\ UNCHANGED <<status, payment, everPaid, waived>>
          /\ \A p \in Appeals \ {call[c].of} : birms'[p] = birms[p]
          /\ call' = [call EXCEPT ![c] = Idle]
      BY <1>1, <1>10 DEF CallStops
    <2> QED
      BY <1>1, <1>8, <2>1
  <1>11. ASSUME NEW c \in Calls, SaveAdvice(c) \/ SaveSync(c)
         PROVE  Goal
    <2>1. /\ call[c] # Idle /\ UNCHANGED <<status, birms, everPaid, waived>>
          /\ call' = [call EXCEPT ![c] = Idle]
      BY <1>11 DEF SaveAdvice, SaveSync, At, birmsVars
    <2>2. \A p \in Appeals \ {call[c].of} : payment'[p] = payment[p]
      BY <1>1, <1>11 DEF SaveAdvice, SaveSync
    <2> QED
      BY <1>1, <1>8, <2>1, <2>2
  <1>12. ASSUME NEW c \in Calls, Confirm(c)
         PROVE  Goal
    <2>1. PICK t : Confirmed(call[c].of, t) \/ AlreadyConfirmed(call[c].of, t)
      BY <1>12 DEF Confirm
    <2>2. /\ call[c] # Idle /\ call[c].phase = "answered"
          /\ MapStatus(call[c].answer.state) = "PAID"
          /\ UNCHANGED <<birms, everPaid, waived>>
      BY <1>12 DEF Confirm, At, birmsVars
    <2>3. call[c].of \in Appeals /\ call[c] \in Call /\ call[c].of \in everPaid
      BY <2>2, CallIsTyped, StatesAreKnown DEF FeeInv, CallIsBacked
    <2>4. call'[c].of = call[c].of /\ \A d \in Calls \ {c} : call'[d] = call[d]
      BY <1>1, <1>12, <2>3 DEF Confirm, Call
    <2>5. CASE Confirmed(call[c].of, t)
      <3>1. everPaid' = everPaid /\ UNCHANGED <<birms, waived>>
        BY <2>2
      <3>2. /\ call[c].of \in everPaid' /\ everPaid' \in {everPaid, everPaid \cup {call[c].of}}
            /\ \A d \in Calls : \/ call'[d] = call[d]
                                \/ call'[d].of = call[d].of /\ call[d] # Idle
        BY <2>2, <2>3, <2>4, <3>1
      <3> HIDE DEF Goal
      <3> QED
        BY <1>3, <2>3, <2>5, <3>1, <3>2, Zenon
    <2>6. CASE AlreadyConfirmed(call[c].of, t)
      BY <1>8, <2>2, <2>4, <2>6 DEF AlreadyConfirmed
    <2> QED
      BY <2>1, <2>5, <2>6
  <1>13. CASE UNCHANGED feeVars
    BY <1>13, NothingComesEarly DEF feeVars, birmsVars, Untouched
  <1> QED
    BY <1>2, <1>4, <1>5, <1>6, <1>7, <1>9, <1>10, <1>11, <1>12, <1>13 DEF FeeNext

\* All that the service does about BIRMS implements the desk of FeeDesk, with a fee settled by
\* what BIRMS, a gateway or the administrator did, whatever a payment's row has come to say.
THEOREM TheDeskIsImplemented == FeeSpec => ImplementsFeeDesk
  <1>1. FeeInit => NothingIsEarly /\ Desk!Init
    BY DEF FeeInit, Due, NothingIsEarly, Untouched, Desk!Init
  <1>2. FeeInv /\ NothingIsEarly /\ [FeeNext]_feeVars =>
           NothingIsEarly' /\ [Desk!Next]_(Desk!deskVars)
    <2> SUFFICES ASSUME FeeInv, NothingIsEarly, [FeeNext]_feeVars
                 PROVE  NothingIsEarly' /\ [Desk!Next]_(Desk!deskVars)
      OBVIOUS
    <2>1. CASE UNCHANGED <<status, everPaid, waived>>
      BY <2>1, AtTheDesk DEF Desk!deskVars
    <2> QED
      BY <2>1, AtTheDesk DEF Desk!Next
  <1> QED
    BY <1>1, <1>2, AlwaysFeeInv, PTL DEF FeeSpec, ImplementsFeeDesk, Desk!Spec
=============================================================================
