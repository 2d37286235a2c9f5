------------------------------ MODULE NdiPanel ------------------------------
(***************************************************************************)
(* The login panel of one tab: it starts an NDI login, polls it every two  *)
(* seconds, one poll at a time, and may be dismissed while it waits.       *)
(***************************************************************************)
EXTENDS NdiLogin

VARIABLES
    panel,         \* the login the panel waits for, and what it shows
    signedIn,      \* the logins whose session reached the tab
    lost           \* history: the answer of a poll did not arrive

panelVars == <<panel, signedIn, lost>>
vars == <<login, verdict, webhook, call, opened, panel, signedIn, lost>>

IdlePanel == [login |-> None, status |-> "IDLE"]

TypeOK ==
    /\ NdiTypeOK
    /\ panel \in [login : Logins \cup {None}, status : Statuses \cup {"IDLE", "EXPIRED"}]
    /\ signedIn \subseteq Logins
    /\ lost \in BOOLEAN

Init ==
    /\ NdiInit
    /\ panel = IdlePanel
    /\ signedIn = {}
    /\ lost = FALSE

-----------------------------------------------------------------------------

Done(c) == call' = [call EXCEPT ![c] = NoCall]

\* start, also by the retry button, which dismisses what the panel shows.
SubmitStart(c) ==
    /\ panel.status # "PENDING" /\ signedIn = {}
    /\ ~\E d \in Calls : call[d].op = "start"
    /\ Send(c, "start", None)
    /\ panel' = IdlePanel
    /\ UNCHANGED <<login, verdict, webhook, opened, signedIn, lost>>

\* The panel polls the login it is answered with, whatever became of the panel
\* in between.
ReceiveStart(c) ==
    /\ Answers(c, "start")
    /\ panel' = [login |-> call[c].login, status |-> call[c].reply]
    /\ Done(c)
    /\ UNCHANGED <<login, verdict, webhook, opened, signedIn, lost>>

\* Mutated form of SubmitPoll: the timer does not look whether a poll is in flight.
SubmitPollAlways(c) ==
    /\ panel.status = "PENDING"
    /\ Send(c, "poll", panel.login)
    /\ UNCHANGED <<login, verdict, webhook, opened, panel, signedIn, lost>>

\* poll, which the timer calls and which waits for its answer.
SubmitPoll(c) ==
    /\ panel.status = "PENDING"
    /\ ~\E d \in Calls : call[d].op = "poll"
    /\ Send(c, "poll", panel.login)
    /\ UNCHANGED <<login, verdict, webhook, opened, panel, signedIn, lost>>

\* The panel still waits for the login that the poll was sent for.
Awaited(c) == panel = [login |-> call[c].login, status |-> "PENDING"]

Show(c, status) == panel' = IF Awaited(c) THEN [panel EXCEPT !.status = status] ELSE panel

\* Mutated form of ReceivePoll: the answer is dropped with the panel that waited for it.
ReceivePollIfAwaited(c) ==
    /\ Answers(c, "poll")
    /\ signedIn' = IF call[c].reply = "VALIDATED" /\ Awaited(c)
                   THEN signedIn \cup {call[c].login} ELSE signedIn
    /\ Show(c, IF call[c].reply = "CONSUMED" THEN "FAILED" ELSE call[c].reply)
    /\ Done(c)
    /\ UNCHANGED <<login, verdict, webhook, opened, lost>>

\* The session context signs the tab in before the panel asks whether it still
\* waits.  A login that is found consumed is an error to the panel.
ReceivePoll(c) ==
    /\ Answers(c, "poll")
    /\ signedIn' = IF call[c].reply = "VALIDATED"
                   THEN signedIn \cup {call[c].login} ELSE signedIn
    /\ Show(c, IF call[c].reply = "CONSUMED" THEN "FAILED" ELSE call[c].reply)
    /\ Done(c)
    /\ UNCHANGED <<login, verdict, webhook, opened, lost>>

\* A poll that gets no answer fails the panel that waits for it.
LosePoll(c) ==
    /\ Answers(c, "poll")
    /\ lost' = TRUE
    /\ Show(c, "FAILED")
    /\ Done(c)
    /\ UNCHANGED <<login, verdict, webhook, opened, signedIn>>

\* reset: the panel is dismissed, and its pending login cancelled.
Dismiss(c) ==
    /\ panel.status = "PENDING"
    /\ Send(c, "cancel", panel.login)
    /\ panel' = IdlePanel
    /\ UNCHANGED <<login, verdict, webhook, opened, signedIn, lost>>

ReceiveCancel(c) ==
    /\ Answers(c, "cancel")
    /\ Done(c)
    /\ UNCHANGED <<login, verdict, webhook, opened, panelVars>>

-----------------------------------------------------------------------------

\* What the identity service does for a request of the browser.
Handler(c) ==
    /\ \/ \E n \in Logins : Initiate(c, n)
       \/ InitiateFails(c)
       \/ ReadForPoll(c)
       \/ SaveExpired(c)
       \/ Claim(c)
       \/ RefuseClaim(c)
       \/ ReadForCancel(c)
       \/ SaveCancelled(c)
    /\ UNCHANGED panelVars

Next ==
    \/ \E c \in Calls : SubmitStart(c)
    \/ \E c \in Calls : ReceiveStart(c)
    \/ \E c \in Calls : SubmitPoll(c)
    \/ \E c \in Calls : ReceivePoll(c)
    \/ \E c \in Calls : LosePoll(c)
    \/ \E c \in Calls : Dismiss(c)
    \/ \E c \in Calls : ReceiveCancel(c)
    \/ \E c \in Calls, n \in Logins : Initiate(c, n) /\ UNCHANGED panelVars
    \/ \E c \in Calls : InitiateFails(c) /\ UNCHANGED panelVars
    \/ \E c \in Calls : ReadForPoll(c) /\ UNCHANGED panelVars
    \/ \E c \in Calls : SaveExpired(c) /\ UNCHANGED panelVars
    \/ \E c \in Calls : Claim(c) /\ UNCHANGED panelVars
    \/ \E c \in Calls : RefuseClaim(c) /\ UNCHANGED panelVars
    \/ \E c \in Calls : ReadForCancel(c) /\ UNCHANGED panelVars
    \/ \E c \in Calls : SaveCancelled(c) /\ UNCHANGED panelVars
    \/ \E n \in Logins : Overdue(n) /\ UNCHANGED panelVars
    \/ \E n \in Logins, v \in Verdicts : Decide(n, v) /\ UNCHANGED panelVars
    \/ \E w \in Webhooks, n \in Logins : Deliver(w, n) /\ UNCHANGED panelVars
    \/ \E w \in Webhooks : ReadForWebhook(w) /\ UNCHANGED panelVars
    \/ \E w \in Webhooks, status \in Statuses : SaveVerdict(w, status) /\ UNCHANGED panelVars

Spec == Init /\ [][Next]_vars

\* The timer fires while its page is open, a handler that was called ends, an answer
\* arrives or is given up (the HTTP client has a timeout), and time passes.  Nothing is
\* assumed of the person, of Bhutan NDI or of its webhooks.
Fairness ==
    /\ \A c \in Calls :
         /\ WF_vars(SubmitPoll(c))
         /\ WF_vars(ReceivePoll(c) \/ LosePoll(c))
         /\ WF_vars(ReceiveCancel(c))
         /\ WF_vars(Handler(c))
    /\ \A n \in Logins : WF_vars(Overdue(n) /\ UNCHANGED panelVars)

FairSpec == Spec /\ Fairness

-----------------------------------------------------------------------------
(* Properties.                                                             *)

\* One proof opens at most one session, although a webhook that is delivered twice may
\* save a consumed login as validated again: the panel never has two polls in flight and
\* asks no more once it was answered.
OneSessionPerProof == \A n \in Logins : opened[n] <= 1

\* No session is opened for a login whose proof Bhutan NDI rejected or could not verify,
\* in whatever order polls, cancellation, deadline and webhooks meet on the row.
RefusedOpensNothing == \A n \in Logins : verdict[n] # "ProofValidated" => opened[n] = 0

\* Unless the answer of a poll was lost, a session that a login opened is the tab's once
\* nothing is in flight, also if the panel was dismissed while the poll was answered:
\* no session is left open at the server that nobody knows of.
SessionsReachTheTab ==
    (\A c \in Calls : call[c] = NoCall) /\ ~lost =>
        \A n \in Logins : opened[n] > 0 => n \in signedIn

\* The panel does not wait for ever, even if Bhutan NDI never answers.
PanelSettles == panel.status = "PENDING" ~> panel.status # "PENDING"
=============================================================================
