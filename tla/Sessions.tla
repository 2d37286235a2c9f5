------------------------------ MODULE Sessions ------------------------------
(***************************************************************************)
(* Server sessions of the identity service, and the handlers that read a   *)
(* row, wait and write it back: refresh, idle timeout and logout.  A       *)
(* request carries the refresh cookie its browser held when it was sent.   *)
(***************************************************************************)
EXTENDS Naturals

CONSTANTS
    Users,
    Requests,      \* HTTP requests that may be in flight together
    Tabs,          \* tabs of one browser
    None,          \* SQL NULL, an absent cookie, an empty store
    MaxSessions,   \* bound: rows of the sessions table
    MaxTokens      \* bound: refresh tokens issued

ASSUME BoundsAssumption == MaxSessions \in Nat /\ MaxTokens \in Nat

\* Rows and random tokens are numbered in the order they come into being.
Sessions == 1 .. MaxSessions
Tokens == 1 .. MaxTokens

ASSUME NoneAssumption == None \notin Users \cup Tabs \cup Nat

VARIABLES
    session,       \* the sessions table
    opened,        \* history: the session a token was issued for
    exchanged,     \* history: how often a token was exchanged for the next
    request        \* the requests in flight

-----------------------------------------------------------------------------

\* lastActivityAt and expiresAt of a row, as the age they give it.
Ages == {"active", "idle", "expired"}

NoSession == [user |-> None, token |-> None, revoked |-> FALSE, age |-> "active"]

\* What a request asks for, the tab that waits for it, the cookie it carries,
\* the user its tab sent it for, the row its handler has read, how far the
\* handler is, and the token and the user of its answer.
NoRequest == [op |-> "none", tab |-> None, cookie |-> None, user |-> None,
              row |-> None, stage |-> "free", reply |-> None, owner |-> None]

Stages == {"free", "sent", "idle", "rotate", "revoke", "answered"}

SessionRows == [user : Users \cup {None}, token : Tokens \cup {None},
                revoked : BOOLEAN, age : Ages]

RequestRows == [op : {"none", "login", "refresh", "logout"}, tab : Tabs \cup {None},
                cookie : Tokens \cup {None}, user : Users \cup {None},
                row : Sessions \cup {None}, stage : Stages,
                reply : Tokens \cup {None}, owner : Users \cup {None}]

SessionsTypeOK ==
    /\ session \in [Sessions -> SessionRows]
    /\ opened \in [Tokens -> Sessions \cup {None}]
    /\ exchanged \in [Tokens -> Nat]
    /\ request \in [Requests -> RequestRows]

SessionsInit ==
    /\ session = [s \in Sessions |-> NoSession]
    /\ opened = [t \in Tokens |-> None]
    /\ exchanged = [t \in Tokens |-> 0]
    /\ request = [q \in Requests |-> NoRequest]

-----------------------------------------------------------------------------

\* A request leaves the browser.
Send(q, op, tab, cookie, user) ==
    /\ request[q] = NoRequest
    /\ request' = [request EXCEPT ![q] =
         [NoRequest EXCEPT !.op = op, !.tab = tab, !.cookie = cookie,
                           !.user = user, !.stage = "sent"]]

Sent(q, op) == request[q].op = op /\ request[q].stage = "sent"

\* Handler and cookie of a request are forgotten with its answer.
Answered(q, token, owner) ==
    [request EXCEPT ![q].stage = "answered", ![q].reply = token, ![q].owner = owner,
                    ![q].row = None, ![q].cookie = None]

\* A refusal, and the answer of a logout, bring no token.
Refused(q) == Answered(q, None, None)

\* A random token, never issued before, for a session.
Issue(t, s) ==
    /\ {u \in Tokens : opened[u] # None} = 1 .. (t - 1)
    /\ opened' = [opened EXCEPT ![t] = s]

\* login: the password was right, and createSession opens a session.
LogIn(q, s, t) ==
    /\ Sent(q, "login")
    /\ {r \in Sessions : session[r].user # None} = 1 .. (s - 1)
    /\ Issue(t, s)
    /\ session' = [session EXCEPT ![s] =
         [NoSession EXCEPT !.user = request[q].user, !.token = t]]
    /\ request' = Answered(q, t, request[q].user)
    /\ UNCHANGED exchanged

Unrevoked(s) == session[s].user # None /\ ~session[s].revoked

\* The presented cookie is the token of a row nobody revoked.
FoundBy(q, s) == Unrevoked(s) /\ session[s].token = request[q].cookie

\* refresh also looks at the row's expiry.
Refreshable(q, s) == FoundBy(q, s) /\ session[s].age # "expired"

\* refresh reads the row, and notices one that was idle for too long.
ReadForRefresh(q, s) ==
    /\ Sent(q, "refresh")
    /\ Refreshable(q, s)
    /\ request' = [request EXCEPT ![q].row = s,
         ![q].stage = IF session[s].age = "idle" THEN "idle" ELSE "rotate"]
    /\ UNCHANGED <<session, opened, exchanged>>

\* There is no cookie, or no row that it finds.
RefuseRefresh(q) ==
    /\ Sent(q, "refresh")
    /\ ~\E s \in Sessions : Refreshable(q, s)
    /\ request' = Refused(q)
    /\ UNCHANGED <<session, opened, exchanged>>

\* Mutated form of Rotate: the row is saved as it was read, not revoked.
RotateWholeRow(q, t) ==
    LET s == request[q].row IN
    /\ request[q].stage = "rotate"
    /\ session[s].token = request[q].cookie
    /\ Issue(t, s)
    /\ session' = [session EXCEPT ![s].token = t, ![s].age = "active",
                                  ![s].revoked = FALSE]
    /\ exchanged' = [exchanged EXCEPT ![request[q].cookie] = @ + 1]
    /\ request' = Answered(q, t, session[s].user)

\* Mutated form of Rotate: the update names the row by its id alone.
RotateById(q, t) ==
    LET s == request[q].row IN
    /\ request[q].stage = "rotate"
    /\ Unrevoked(s)
    /\ Issue(t, s)
    /\ session' = [session EXCEPT ![s].token = t,
         ![s].age = IF @ = "expired" THEN @ ELSE "active"]
    /\ exchanged' = [exchanged EXCEPT ![request[q].cookie] = @ + 1]
    /\ request' = Answered(q, t, session[s].user)

\* The conditional update rotates only a row that still holds the presented
\* token and was not revoked since it was read.  It asks for the expiry of the
\* row with the time it was read at: a row that expires in between is rotated.
Rotate(q, t) ==
    LET s == request[q].row IN
    /\ request[q].stage = "rotate"
    /\ FoundBy(q, s)
    /\ Issue(t, s)
    /\ session' = [session EXCEPT ![s].token = t,
         ![s].age = IF @ = "expired" THEN @ ELSE "active"]
    /\ exchanged' = [exchanged EXCEPT ![request[q].cookie] = @ + 1]
    /\ request' = Answered(q, t, session[s].user)

RefuseRotation(q) ==
    /\ request[q].stage = "rotate"
    /\ ~FoundBy(q, request[q].row)
    /\ request' = Refused(q)
    /\ UNCHANGED <<session, opened, exchanged>>

\* A save of the row as it was read, now revoked: it writes the old token back.
SaveRevoked(q) ==
    /\ session' = [session EXCEPT ![request[q].row].revoked = TRUE,
                                  ![request[q].row].token = request[q].cookie]
    /\ request' = Refused(q)
    /\ UNCHANGED <<opened, exchanged>>

\* refresh revokes a row that was idle for too long.
TimeOutIdle(q) == request[q].stage = "idle" /\ SaveRevoked(q)

\* logout reads the row; without one there is nothing to do.
ReadForLogout(q, s) ==
    /\ Sent(q, "logout")
    /\ FoundBy(q, s)
    /\ request' = [request EXCEPT ![q].row = s, ![q].stage = "revoke"]
    /\ UNCHANGED <<session, opened, exchanged>>

LogoutOfNothing(q) ==
    /\ Sent(q, "logout")
    /\ ~\E s \in Sessions : FoundBy(q, s)
    /\ request' = Refused(q)
    /\ UNCHANGED <<session, opened, exchanged>>

Revoke(q) == request[q].stage = "revoke" /\ SaveRevoked(q)

\* A password reset by an administrator, and a staff handover, revoke every
\* session of a user.
RevokeAll(u) ==
    /\ \E s \in Sessions : session[s].user = u /\ Unrevoked(s)
    /\ session' = [s \in Sessions |->
         [session[s] EXCEPT !.revoked = @ \/ session[s].user = u]]
    /\ UNCHANGED <<opened, exchanged, request>>

\* Fifteen minutes without a refresh; eight hours after the login.
Ageing(s, age) ==
    /\ Unrevoked(s)
    /\ \/ session[s].age = "active" /\ age = "idle"
       \/ session[s].age # "expired" /\ age = "expired"
    /\ session' = [session EXCEPT ![s].age = age]
    /\ UNCHANGED <<opened, exchanged, request>>
=============================================================================
