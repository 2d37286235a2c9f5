------------------------------- MODULE Browser -------------------------------
(***************************************************************************)
(* The tabs of one browser.  The refresh cookie belongs to the browser: it *)
(* is read when a request leaves and written when an answer arrives.  The  *)
(* access token and the signed-in user belong to a tab.                    *)
(***************************************************************************)
EXTENDS Sessions

VARIABLES
    cookie,      \* dzongjuk_refresh
    stored,      \* sessionStorage of a tab: the user whose session it holds
    shown,       \* the user in the React state of a tab
    lost         \* history: an answer did not reach its tab

tabVars == <<stored, shown>>
browserVars == <<cookie, tabVars, lost>>
vars == <<session, opened, exchanged, request, cookie, stored, shown, lost>>

TypeOK ==
    /\ SessionsTypeOK
    /\ cookie \in Tokens \cup {None}
    /\ stored \in [Tabs -> Users \cup {None}]
    /\ shown \in [Tabs -> Users \cup {None}]
    /\ lost \in BOOLEAN

Init ==
    /\ SessionsInit
    /\ cookie = None
    /\ stored = [b \in Tabs |-> None]
    /\ shown = [b \in Tabs |-> None]
    /\ lost = FALSE

-----------------------------------------------------------------------------
\* What a tab asks for.  It waits for one request of a kind at a time.

Asks(b, op) == \E q \in Requests : request[q].op = op /\ request[q].tab = b

SubmitLogin(b, q, u) ==
    /\ shown[b] = None
    /\ ~Asks(b, "login")
    /\ Send(q, "login", b, cookie, u)
    /\ UNCHANGED <<session, opened, exchanged, browserVars>>

\* refreshAccess, which remembers the stored user.
SubmitRefresh(b, q) ==
    /\ stored[b] # None
    /\ ~Asks(b, "refresh")
    /\ Send(q, "refresh", b, cookie, stored[b])
    /\ UNCHANGED <<session, opened, exchanged, browserVars>>

\* logout, by the user or after fifteen minutes without activity.
SubmitLogout(b, q) ==
    /\ shown[b] # None
    /\ ~Asks(b, "logout")
    /\ Send(q, "logout", b, cookie, None)
    /\ UNCHANGED <<session, opened, exchanged, browserVars>>

\* The access token runs out, and the next look at the store empties it.
StoreExpires(b) ==
    /\ stored[b] # None
    /\ stored' = [stored EXCEPT ![b] = None]
    /\ UNCHANGED <<session, opened, exchanged, request, cookie, shown, lost>>

\* A page that is loaded anew shows the stored user and waits for nothing.
Abandon(b, requests) ==
    [q \in Requests |-> IF requests[q].tab # b THEN requests[q]
                        ELSE [requests[q] EXCEPT !.tab = None]]

Reload(b) ==
    /\ shown[b] # stored[b] \/ \E q \in Requests : request[q].tab = b
    /\ shown' = [shown EXCEPT ![b] = stored[b]]
    /\ request' = Abandon(b, request)
    /\ UNCHANGED <<session, opened, exchanged, cookie, stored, lost>>

-----------------------------------------------------------------------------
\* What an answer does to the browser and to the tab that waits for it.

Arrives(q, op) ==
    request[q].op = op /\ request[q].stage = "answered" /\ request[q].tab # None

Done(q) == [request EXCEPT ![q] = NoRequest]

ReceiveLogin(q) ==
    LET b == request[q].tab IN
    /\ Arrives(q, "login")
    /\ cookie' = request[q].reply
    /\ stored' = [stored EXCEPT ![b] = request[q].owner]
    /\ shown' = [shown EXCEPT ![b] = request[q].owner]
    /\ request' = Done(q)
    /\ UNCHANGED <<session, opened, exchanged, lost>>

\* Mutated form of ReceiveRefresh: the answer is stored whatever became of the tab's session.
ReceiveRefreshAnyway(q) ==
    /\ Arrives(q, "refresh") /\ request[q].reply # None
    /\ cookie' = request[q].reply
    /\ stored' = [stored EXCEPT ![request[q].tab] = request[q].owner]
    /\ request' = Done(q)
    /\ UNCHANGED <<session, opened, exchanged, shown, lost>>

\* The answer of a refresh counts only while the tab still stores the user it
\* was sent for.  It stores the answer's user and leaves the shown one.
ReceiveRefresh(q) ==
    LET b == request[q].tab IN
    /\ Arrives(q, "refresh") /\ request[q].reply # None
    /\ cookie' = request[q].reply
    /\ stored' = [stored EXCEPT ![b] = IF @ = request[q].user THEN request[q].owner ELSE @]
    /\ request' = Done(q)
    /\ UNCHANGED <<session, opened, exchanged, shown, lost>>

SignOut(b) ==
    /\ stored' = [stored EXCEPT ![b] = None]
    /\ shown' = [shown EXCEPT ![b] = None]

\* A 401 empties the store, and loads the login page unless it is shown.
ReceiveRefusal(q) ==
    LET b == request[q].tab IN
    /\ Arrives(q, "refresh") /\ request[q].reply = None
    /\ SignOut(b)
    /\ request' = IF shown[b] = None THEN Done(q) ELSE Abandon(b, Done(q))
    /\ UNCHANGED <<session, opened, exchanged, cookie, lost>>

ReceiveLogout(q) ==
    /\ Arrives(q, "logout")
    /\ cookie' = None
    /\ SignOut(request[q].tab)
    /\ request' = Done(q)
    /\ UNCHANGED <<session, opened, exchanged, lost>>

\* An answer for a page that is gone still brings its cookie.
ArriveUnawaited(q) ==
    /\ request[q].stage = "answered" /\ request[q].tab = None
    /\ cookie' = IF request[q].op = "refresh" /\ request[q].reply = None
                 THEN cookie ELSE request[q].reply
    /\ request' = Done(q)
    /\ UNCHANGED <<session, opened, exchanged, tabVars, lost>>

\* An answer is lost.  A logout that fails signs the tab out all the same.
LoseAnswer(q) ==
    /\ request[q].stage = "answered"
    /\ lost' = TRUE
    /\ request' = Done(q)
    /\ IF Arrives(q, "logout") THEN SignOut(request[q].tab) ELSE UNCHANGED tabVars
    /\ UNCHANGED <<session, opened, exchanged, cookie>>

-----------------------------------------------------------------------------

Next ==
    \/ \E b \in Tabs, q \in Requests, u \in Users : SubmitLogin(b, q, u)
    \/ \E b \in Tabs, q \in Requests : SubmitRefresh(b, q)
    \/ \E b \in Tabs, q \in Requests : SubmitLogout(b, q)
    \/ \E b \in Tabs : StoreExpires(b)
    \/ \E b \in Tabs : Reload(b)
    \/ \E q \in Requests : ReceiveLogin(q)
    \/ \E q \in Requests : ReceiveRefresh(q)
    \/ \E q \in Requests : ReceiveRefusal(q)
    \/ \E q \in Requests : ReceiveLogout(q)
    \/ \E q \in Requests : ArriveUnawaited(q)
    \/ \E q \in Requests : LoseAnswer(q)
    \/ \E q \in Requests, s \in Sessions, t \in Tokens :
          LogIn(q, s, t) /\ UNCHANGED browserVars
    \/ \E q \in Requests, s \in Sessions : ReadForRefresh(q, s) /\ UNCHANGED browserVars
    \/ \E q \in Requests : RefuseRefresh(q) /\ UNCHANGED browserVars
    \/ \E q \in Requests, t \in Tokens : Rotate(q, t) /\ UNCHANGED browserVars
    \/ \E q \in Requests : RefuseRotation(q) /\ UNCHANGED browserVars
    \/ \E q \in Requests : TimeOutIdle(q) /\ UNCHANGED browserVars
    \/ \E q \in Requests, s \in Sessions : ReadForLogout(q, s) /\ UNCHANGED browserVars
    \/ \E q \in Requests : LogoutOfNothing(q) /\ UNCHANGED browserVars
    \/ \E q \in Requests : Revoke(q) /\ UNCHANGED browserVars
    \/ \E u \in Users : RevokeAll(u) /\ UNCHANGED browserVars
    \/ \E s \in Sessions, age \in Ages : Ageing(s, age) /\ UNCHANGED browserVars

Spec == Init /\ [][Next]_vars

-----------------------------------------------------------------------------
(* Properties.                                                             *)

\* However many requests of however many tabs carry one refresh token, at most one
\* of them gets a new token for it.
OneExchangePerToken == \A t \in Tokens : exchanged[t] <= 1

\* A session that was revoked by a logout, by the idle timeout or by an administrator
\* never becomes valid again, although refresh, timeout and logout write back a row
\* they read before it was revoked.
RevokedStaysRevoked ==
    [][\A s \in Sessions : session[s].revoked => session'[s].revoked]_vars

\* When nothing is in flight and no answer was lost, the browser's cookie is the current
\* token of its session: answers of overlapping refreshes, logins and logouts of several
\* tabs never leave the browser with a token that was already exchanged.
CookieIsCurrent ==
    (\A q \in Requests : request[q] = NoRequest) /\ ~lost /\ cookie # None =>
        session[opened[cookie]].token = cookie \/ session[opened[cookie]].revoked

\* A tab whose session was cleared gets one again only by a login of its own: the answer
\* of a refresh sent before the logout does not sign the tab in again.
LogoutSticks ==
    [][\A b \in Tabs : stored[b] = None /\ stored'[b] # None =>
         \E q \in Requests : /\ request[q].op = "login" /\ request[q].tab = b
                             /\ request'[q] = NoRequest]_vars
=============================================================================
