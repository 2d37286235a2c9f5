------------------------------- MODULE NdiProofs -------------------------------
(***************************************************************************)
(* Theorems about NdiPanel, for any numbers of logins, webhook deliveries  *)
(* and requests of the browser.                                            *)
(***************************************************************************)
EXTENDS NdiPanel, TLAPS

-----------------------------------------------------------------------------
(* The inductive invariant.                                                *)

\* A request of the browser.
CallRows == [op : Ops, login : Logins \cup {None},
             stage : {"free", "sent", "expire", "claim", "cancel", "answered"},
             reply : Statuses \cup {"EXPIRED"}]

\* Polls and cancellations, and the panel that waits, name a login.
CallNamesALogin(c) ==
    /\ call[c].op \in {"poll", "cancel"} => call[c].login \in Logins
    /\ call[c].stage \in {"expire", "claim", "cancel"} => call[c].login \in Logins
    /\ call[c].stage = "claim" => call[c].op = "poll"
    /\ call[c].op = "start" /\ call[c].stage = "answered" =>
         call[c].reply = "FAILED" \/ call[c].login \in Logins

WebhookNamesALogin(w) ==
    webhook[w].stage \in {"sent", "save"} =>
        webhook[w].login \in Logins /\ verdict[webhook[w].login] # "waiting"

Named ==
    /\ \A c \in Calls : CallNamesALogin(c)
    /\ \A w \in Webhooks : WebhookNamesALogin(w)
    /\ panel.status = "PENDING" => panel.login \in Logins

\* Only the verdict that a proof is valid validates a login or opens a session.
Proved(n) ==
    login[n].status \in {"VALIDATED", "CONSUMED"} \/ opened[n] # 0 =>
        verdict[n] = "ProofValidated"

\* A login that was not started is known to nobody.
Unknown(n) ==
    login[n] = NoLogin => /\ opened[n] = 0
                          /\ panel.login # n
                          /\ \A c \in Calls : call[c].login # n

\* The answer of a start is the first that the panel hears of its login.
StartsAfresh(c) ==
    call[c].op = "start" /\ call[c].login # None =>
        /\ call[c].stage = "answered"
        /\ opened[call[c].login] = 0
        /\ panel.login # call[c].login
        /\ \A d \in Calls \ {c} : call[d].login # call[c].login

\* The panel has one poll in flight.
OnePoll == \A c, d \in Calls : call[c].op = "poll" /\ call[d].op = "poll" => c = d

\* Once a login has opened its session no poll asks for it any more, and if the panel
\* still waits the answer is on its way.
Settled(n) ==
    opened[n] # 0 =>
        /\ opened[n] = 1
        /\ \A c \in Calls : call[c].op = "poll" /\ call[c].login = n =>
             call[c].stage = "answered" /\ call[c].reply = "VALIDATED"
        /\ panel = [login |-> n, status |-> "PENDING"] =>
             \E c \in Calls : call[c].op = "poll" /\ call[c].login = n

Asked ==
    /\ \A c \in Calls : StartsAfresh(c)
    /\ OnePoll
    /\ \A n \in Logins : Unknown(n) /\ Settled(n)

IInv == TypeOK /\ Named /\ (\A n \in Logins : Proved(n)) /\ Asked

-----------------------------------------------------------------------------

\* The first state satisfies it.
LEMMA InitIInv == Init => IInv
  <1> SUFFICES ASSUME Init
               PROVE  IInv
    OBVIOUS
  <1> USE DEF Init, NdiInit
  <1>1. login \in [Logins -> [status : Statuses, overdue : BOOLEAN]]
    <2>1. NoLogin \in [status : Statuses, overdue : BOOLEAN]
      BY DEF NoLogin, Statuses
    <2> QED
      BY <2>1
  <1>2. webhook \in [Webhooks -> [login : Logins \cup {None},
                                  stage : {"unsent", "sent", "save", "done"}]]
    <2>1. NoWebhook \in [login : Logins \cup {None}, stage : {"unsent", "sent", "save", "done"}]
      BY DEF NoWebhook
    <2> QED
      BY <2>1
  <1>3. call \in [Calls -> CallRows]
    <2>1. NoCall \in CallRows
      BY DEF CallRows, NoCall, Ops, Statuses
    <2> QED
      BY <2>1
  <1>4. TypeOK
    BY <1>1, <1>2, <1>3 DEF TypeOK, NdiTypeOK, IdlePanel, CallRows
  <1>5. Named
    BY DEF Named, CallNamesALogin, WebhookNamesALogin, NoCall, NoWebhook, IdlePanel
  <1>6. \A n \in Logins : Proved(n)
    BY DEF Proved, NoLogin
  <1>7. Asked
    BY NoneAssumption DEF Asked, StartsAfresh, OnePoll, Unknown, Settled, NoCall, NoLogin,
                          IdlePanel, Logins
  <1> QED
    BY <1>4, <1>5, <1>6, <1>7 DEF IInv

\* The answer to a call is well typed.
LEMMA AnsweredIsTyped ==
    ASSUME call \in [Calls -> CallRows], NEW c \in Calls, NEW reply \in Statuses \cup {"EXPIRED"}
    PROVE  Answered(c, reply) \in [Calls -> CallRows]
  <1> DEFINE r == [call[c] EXCEPT !.stage = "answered", !.reply = reply]
  <1>1. r \in CallRows
    BY DEF CallRows
  <1>2. Answered(c, reply) = [call EXCEPT ![c] = r]
    BY Zenon DEF Answered
  <1> QED
    BY <1>1, <1>2

\* An answer changes nothing else.
LEMMA AnsweredChanges ==
    ASSUME call \in [Calls -> CallRows], NEW c \in Calls, NEW reply \in Statuses \cup {"EXPIRED"},
           call' = Answered(c, reply)
    PROVE  /\ call'[c].op = call[c].op /\ call'[c].login = call[c].login
           /\ call'[c].stage = "answered" /\ call'[c].reply = reply
           /\ \A d \in Calls \ {c} : call'[d] = call[d]
  <1> DEFINE r == [call[c] EXCEPT !.stage = "answered", !.reply = reply]
  <1>1. call' = [call EXCEPT ![c] = r]
    BY Zenon DEF Answered
  <1>2. /\ r.op = call[c].op /\ r.login = call[c].login
        /\ r.stage = "answered" /\ r.reply = reply
    BY DEF CallRows
  <1>3. call'[c] = r /\ \A d \in Calls \ {c} : call'[d] = call[d]
    <2> HIDE DEF r
    <2> QED
      BY <1>1
  <1> QED
    <2> HIDE DEF r
    <2> QED
      BY <1>2, <1>3

\* A start that is answered has begun a login that nobody knew.
LEMMA InitiateChanges ==
    ASSUME call \in [Calls -> CallRows],
           login \in [Logins -> [status : Statuses, overdue : BOOLEAN]],
           NEW c \in Calls, NEW n \in Logins, Initiate(c, n)
    PROVE  /\ call' \in [Calls -> CallRows]
           /\ call[c].op = "start" /\ call[c].stage = "sent"
           /\ call'[c].op = "start" /\ call'[c].login = n
           /\ call'[c].stage = "answered" /\ call'[c].reply = "PENDING"
           /\ \A d \in Calls \ {c} : call'[d] = call[d]
           /\ login' \in [Logins -> [status : Statuses, overdue : BOOLEAN]]
           /\ login[n] = NoLogin /\ login'[n] # NoLogin
           /\ \A m \in Logins \ {n} : login'[m] = login[m]
  <1> DEFINE r == [call[c] EXCEPT !.stage = "answered", !.reply = "PENDING"]
             s == [r EXCEPT !.login = n]
             q == [login[n] EXCEPT !.status = "PENDING"]
  <1>1. Answered(c, "PENDING") = [call EXCEPT ![c] = r]
    BY Zenon DEF Answered
  <1>2. /\ r \in CallRows /\ r.op = call[c].op
        /\ r.stage = "answered" /\ r.reply = "PENDING"
    BY DEF CallRows, Statuses
  <1> HIDE DEF r
  <1>3. call' = [call EXCEPT ![c] = s]
    BY <1>1 DEF Initiate
  <1>4. /\ s \in CallRows /\ s.op = call[c].op /\ s.login = n
        /\ s.stage = "answered" /\ s.reply = "PENDING"
    BY <1>2 DEF CallRows
  <1> HIDE DEF s
  <1>5. /\ call' \in [Calls -> CallRows] /\ call'[c] = s
        /\ \A d \in Calls \ {c} : call'[d] = call[d]
    BY <1>3, <1>4
  <1>6. login' = [login EXCEPT ![n] = q]
    BY Zenon DEF Initiate
  <1>7. q \in [status : Statuses, overdue : BOOLEAN] /\ q # NoLogin
    BY DEF Statuses, NoLogin
  <1> HIDE DEF q
  <1>8. /\ login' \in [Logins -> [status : Statuses, overdue : BOOLEAN]] /\ login'[n] = q
        /\ \A m \in Logins \ {n} : login'[m] = login[m]
    BY <1>6, <1>7
  <1>9. login[n] = NoLogin
    BY DEF Initiate, IsNext, Logins
  <1>10. call[c].op = "start" /\ call[c].stage = "sent"
    BY DEF Initiate, Sent
  <1> QED
    BY <1>4, <1>5, <1>7, <1>8, <1>9, <1>10

\* Every step keeps the types.
LEMMA StepTypes == TypeOK /\ Named /\ [Next]_vars => TypeOK'
  <1> SUFFICES ASSUME TypeOK, Named, [Next]_vars
               PROVE  TypeOK'
    OBVIOUS
  <1> USE DEF TypeOK, NdiTypeOK, Named, CallNamesALogin
  <1>1. ASSUME NEW c \in Calls, SubmitStart(c)
        PROVE  TypeOK'
    BY <1>1 DEF SubmitStart, Send, Statuses, Ops, IdlePanel, NoCall
  <1>2. ASSUME NEW c \in Calls, ReceiveStart(c)
        PROVE  TypeOK'
    BY <1>2 DEF ReceiveStart, Answers, Done, Statuses, Ops, NoCall
  <1>3. ASSUME NEW c \in Calls, SubmitPoll(c)
        PROVE  TypeOK'
    BY <1>3 DEF SubmitPoll, Send, Statuses, Ops, NoCall
  <1>4. ASSUME NEW c \in Calls, ReceivePoll(c)
        PROVE  TypeOK'
    BY <1>4 DEF ReceivePoll, Answers, Awaited, Show, Done, Statuses, Ops, NoCall
  <1>5. ASSUME NEW c \in Calls, LosePoll(c)
        PROVE  TypeOK'
    BY <1>5 DEF LosePoll, Answers, Awaited, Show, Done, Statuses, Ops, NoCall
  <1>6. ASSUME NEW c \in Calls, Dismiss(c)
        PROVE  TypeOK'
    BY <1>6 DEF Dismiss, Send, Statuses, Ops, IdlePanel, NoCall
  <1>7. ASSUME NEW c \in Calls, ReceiveCancel(c)
        PROVE  TypeOK'
    BY <1>7 DEF ReceiveCancel, Answers, Done, panelVars, Statuses, Ops, NoCall
  <1>8. ASSUME NEW c \in Calls, NEW n \in Logins, Initiate(c, n), UNCHANGED panelVars
        PROVE  TypeOK'
    <2>1. /\ call' \in [Calls -> CallRows]
          /\ login' \in [Logins -> [status : Statuses, overdue : BOOLEAN]]
      BY <1>8, InitiateChanges DEF CallRows
    <2> QED
      BY <1>8, <2>1 DEF Initiate, panelVars, CallRows
  <1>9. ASSUME NEW c \in Calls, InitiateFails(c), UNCHANGED panelVars
        PROVE  TypeOK'
    <2>1. "FAILED" \in Statuses \cup {"EXPIRED"}
      BY DEF Statuses
    <2>2. call' \in [Calls -> CallRows]
      BY <1>9, <2>1, AnsweredIsTyped DEF InitiateFails, CallRows
    <2> QED
      BY <1>9, <2>2 DEF InitiateFails, SaveStatus, panelVars, CallRows, Statuses
  <1>10. ASSUME NEW c \in Calls, ReadForPoll(c), UNCHANGED panelVars
        PROVE  TypeOK'
    <2> DEFINE r == [call[c] EXCEPT !.stage = PollStage(call[c].login),
                                  !.reply = login[call[c].login].status]
    <2>1. call[c].login \in Logins
      BY <1>10 DEF ReadForPoll, Sent
    <2>2. login[call[c].login].status \in Statuses
      BY <2>1
    <2>3. PollStage(call[c].login) \in {"expire", "claim", "answered"}
      BY DEF PollStage
    <2>4. call[c] \in CallRows
      BY DEF CallRows
    <2>5. r \in CallRows
      BY <2>2, <2>3, <2>4 DEF CallRows
    <2>6. call' = [call EXCEPT ![c] = r]
      BY <1>10, Zenon DEF ReadForPoll
    <2>7. call' \in [Calls -> CallRows]
      BY <2>5, <2>6 DEF CallRows
    <2> QED
      BY <1>10, <2>7 DEF ReadForPoll, panelVars, CallRows
  <1>11. ASSUME NEW c \in Calls, SaveExpired(c), UNCHANGED panelVars
        PROVE  TypeOK'
    <2>1. "EXPIRED" \in Statuses \cup {"EXPIRED"}
      BY DEF Statuses
    <2>2. call' \in [Calls -> CallRows]
      BY <1>11, <2>1, AnsweredIsTyped DEF SaveExpired, CallRows
    <2> QED
      BY <1>11, <2>2 DEF SaveExpired, SaveStatus, panelVars, CallRows, Statuses
  <1>12. ASSUME NEW c \in Calls, Claim(c), UNCHANGED panelVars
        PROVE  TypeOK'
    <2>1. "VALIDATED" \in Statuses \cup {"EXPIRED"}
      BY DEF Statuses
    <2>2. call' \in [Calls -> CallRows]
      BY <1>12, <2>1, AnsweredIsTyped DEF Claim, CallRows
    <2> QED
      BY <1>12, <2>2 DEF Claim, SaveStatus, panelVars, CallRows, Statuses
  <1>13. ASSUME NEW c \in Calls, RefuseClaim(c), UNCHANGED panelVars
        PROVE  TypeOK'
    <2>1. "CONSUMED" \in Statuses \cup {"EXPIRED"}
      BY DEF Statuses
    <2>2. call' \in [Calls -> CallRows]
      BY <1>13, <2>1, AnsweredIsTyped DEF RefuseClaim, CallRows
    <2> QED
      BY <1>13, <2>2 DEF RefuseClaim, SaveStatus, panelVars, CallRows, Statuses
  <1>14. ASSUME NEW c \in Calls, ReadForCancel(c), UNCHANGED panelVars
        PROVE  TypeOK'
    <2> DEFINE stage == IF login[call[c].login].status = "PENDING" THEN "cancel" ELSE "answered"
    <2>1. stage \in {"cancel", "answered"}
      OBVIOUS
    <2>2. [call[c] EXCEPT !.stage = stage] \in CallRows
      BY <2>1 DEF CallRows
    <2>3. call' = [call EXCEPT ![c] = [call[c] EXCEPT !.stage = stage]]
      BY <1>14, Zenon DEF ReadForCancel
    <2>4. call' \in [Calls -> CallRows]
      BY <2>2, <2>3 DEF CallRows
    <2> QED
      BY <1>14, <2>4 DEF ReadForCancel, panelVars, CallRows
  <1>15. ASSUME NEW c \in Calls, SaveCancelled(c), UNCHANGED panelVars
        PROVE  TypeOK'
    <2>1. "CANCELLED" \in Statuses \cup {"EXPIRED"}
      BY DEF Statuses
    <2>2. call' \in [Calls -> CallRows]
      BY <1>15, <2>1, AnsweredIsTyped DEF SaveCancelled, CallRows
    <2> QED
      BY <1>15, <2>2 DEF SaveCancelled, SaveStatus, panelVars, CallRows, Statuses
  <1>16. ASSUME NEW n \in Logins, Overdue(n), UNCHANGED panelVars
        PROVE  TypeOK'
    BY <1>16 DEF Overdue, panelVars, Statuses, Ops
  <1>17. ASSUME NEW n \in Logins, NEW v \in Verdicts, Decide(n, v), UNCHANGED panelVars
        PROVE  TypeOK'
    BY <1>17 DEF Decide, panelVars, Statuses, Ops, Verdicts
  <1>18. ASSUME NEW w \in Webhooks, NEW n \in Logins, Deliver(w, n), UNCHANGED panelVars
        PROVE  TypeOK'
    BY <1>18 DEF Deliver, IsNext, panelVars, Statuses, Ops
  <1>19. ASSUME NEW w \in Webhooks, ReadForWebhook(w), UNCHANGED panelVars
        PROVE  TypeOK'
    BY <1>19 DEF ReadForWebhook, Handled, panelVars, Statuses, Ops
  <1>20. ASSUME NEW w \in Webhooks, NEW status \in Statuses, SaveVerdict(w, status),
  UNCHANGED panelVars
        PROVE  TypeOK'
    BY <1>20 DEF SaveVerdict, SaveStatus, Outcomes, Handled, panelVars, Statuses, Ops
  <1>21. CASE UNCHANGED vars
    BY <1>21 DEF vars
  <1> QED
    BY <1>1, <1>2, <1>3, <1>4, <1>5, <1>6, <1>7, <1>8, <1>9, <1>10,
       <1>11, <1>12, <1>13, <1>14, <1>15, <1>16, <1>17, <1>18, <1>19, <1>20, <1>21
       DEF Next

\* Every step keeps the names.
LEMMA StepNamed == TypeOK /\ Named /\ [Next]_vars => Named'
  <1> SUFFICES ASSUME TypeOK, Named, [Next]_vars
               PROVE  Named'
    OBVIOUS
  <1> USE DEF TypeOK, NdiTypeOK, Named
  <1>1. ASSUME NEW c \in Calls, SubmitStart(c)
        PROVE  Named'
    BY <1>1 DEF SubmitStart, Send, NoCall, IdlePanel, CallNamesALogin, WebhookNamesALogin
  <1>2. ASSUME NEW c \in Calls, ReceiveStart(c)
        PROVE  Named'
    BY <1>2 DEF ReceiveStart, Answers, Done, NoCall, CallNamesALogin, WebhookNamesALogin
  <1>3. ASSUME NEW c \in Calls, SubmitPoll(c)
        PROVE  Named'
    BY <1>3 DEF SubmitPoll, Send, NoCall, CallNamesALogin, WebhookNamesALogin
  <1>4. ASSUME NEW c \in Calls, ReceivePoll(c)
        PROVE  Named'
    BY <1>4
       DEF ReceivePoll, Answers, Awaited, Show, Done, NoCall, CallNamesALogin,
           WebhookNamesALogin
  <1>5. ASSUME NEW c \in Calls, LosePoll(c)
        PROVE  Named'
    BY <1>5
       DEF LosePoll, Answers, Awaited, Show, Done, NoCall, CallNamesALogin, WebhookNamesALogin
  <1>6. ASSUME NEW c \in Calls, Dismiss(c)
        PROVE  Named'
    BY <1>6 DEF Dismiss, Send, NoCall, IdlePanel, CallNamesALogin, WebhookNamesALogin
  <1>7. ASSUME NEW c \in Calls, ReceiveCancel(c)
        PROVE  Named'
    BY <1>7
       DEF ReceiveCancel, Answers, Done, panelVars, NoCall, CallNamesALogin, WebhookNamesALogin
  <1>8. ASSUME NEW c \in Calls, NEW n \in Logins, Initiate(c, n), UNCHANGED panelVars
        PROVE  Named'
    <2>1. /\ call'[c].op = "start" /\ call'[c].login = n /\ call'[c].stage = "answered"
          /\ \A d \in Calls \ {c} : call'[d] = call[d]
      BY <1>8, InitiateChanges DEF CallRows
    <2>2. \A d \in Calls : CallNamesALogin(d)'
      BY <2>1 DEF CallNamesALogin
    <2> QED
      BY <1>8, <2>2 DEF Initiate, panelVars, WebhookNamesALogin
  <1>9. ASSUME NEW c \in Calls, InitiateFails(c), UNCHANGED panelVars
        PROVE  Named'
    BY <1>9 DEF InitiateFails, Sent, Answered, panelVars, CallNamesALogin, WebhookNamesALogin
  <1>10. ASSUME NEW c \in Calls, ReadForPoll(c), UNCHANGED panelVars
        PROVE  Named'
    <2>1. \A d \in Calls : call'[d].op = call[d].op /\ call'[d].login = call[d].login
      BY <1>10 DEF ReadForPoll
    <2>2. call[c].op = "poll" /\ CallNamesALogin(c)
      BY <1>10 DEF ReadForPoll, Sent
    <2>3. \A d \in Calls : CallNamesALogin(d)'
      BY <1>10, <2>1, <2>2 DEF ReadForPoll, CallNamesALogin
    <2> QED
      BY <1>10, <2>3 DEF ReadForPoll, panelVars, WebhookNamesALogin
  <1>11. ASSUME NEW c \in Calls, SaveExpired(c), UNCHANGED panelVars
        PROVE  Named'
    BY <1>11
       DEF SaveExpired, SaveStatus, Answered, panelVars, CallNamesALogin, WebhookNamesALogin
  <1>12. ASSUME NEW c \in Calls, Claim(c), UNCHANGED panelVars
        PROVE  Named'
    BY <1>12 DEF Claim, SaveStatus, Answered, panelVars, CallNamesALogin, WebhookNamesALogin
  <1>13. ASSUME NEW c \in Calls, RefuseClaim(c), UNCHANGED panelVars
        PROVE  Named'
    BY <1>13 DEF RefuseClaim, Answered, panelVars, CallNamesALogin, WebhookNamesALogin
  <1>14. ASSUME NEW c \in Calls, ReadForCancel(c), UNCHANGED panelVars
        PROVE  Named'
    BY <1>14 DEF ReadForCancel, Sent, panelVars, CallNamesALogin, WebhookNamesALogin
  <1>15. ASSUME NEW c \in Calls, SaveCancelled(c), UNCHANGED panelVars
        PROVE  Named'
    BY <1>15
       DEF SaveCancelled, SaveStatus, Answered, panelVars, CallNamesALogin, WebhookNamesALogin
  <1>16. ASSUME NEW n \in Logins, Overdue(n), UNCHANGED panelVars
        PROVE  Named'
    BY <1>16 DEF Overdue, panelVars, CallNamesALogin, WebhookNamesALogin
  <1>17. ASSUME NEW n \in Logins, NEW v \in Verdicts, Decide(n, v), UNCHANGED panelVars
        PROVE  Named'
    BY <1>17 DEF Decide, panelVars, Verdicts, CallNamesALogin, WebhookNamesALogin
  <1>18. ASSUME NEW w \in Webhooks, NEW n \in Logins, Deliver(w, n), UNCHANGED panelVars
        PROVE  Named'
    BY <1>18 DEF Deliver, IsNext, panelVars, NoWebhook, CallNamesALogin, WebhookNamesALogin
  <1>19. ASSUME NEW w \in Webhooks, ReadForWebhook(w), UNCHANGED panelVars
        PROVE  Named'
    BY <1>19 DEF ReadForWebhook, Handled, panelVars, CallNamesALogin, WebhookNamesALogin
  <1>20. ASSUME NEW w \in Webhooks, NEW status \in Statuses, SaveVerdict(w, status),
  UNCHANGED panelVars
        PROVE  Named'
    BY <1>20
       DEF SaveVerdict, SaveStatus, Outcomes, Handled, panelVars, CallNamesALogin,
           WebhookNamesALogin
  <1>21. CASE UNCHANGED vars
    BY <1>21 DEF vars, CallNamesALogin, WebhookNamesALogin
  <1> QED
    BY <1>1, <1>2, <1>3, <1>4, <1>5, <1>6, <1>7, <1>8, <1>9, <1>10,
       <1>11, <1>12, <1>13, <1>14, <1>15, <1>16, <1>17, <1>18, <1>19, <1>20, <1>21
       DEF Next

\* Every step keeps what was proved.
LEMMA StepProved == TypeOK /\ Named /\ (\A n \in Logins : Proved(n)) /\ [Next]_vars
    => \A n \in Logins : Proved(n)'
  <1> SUFFICES ASSUME TypeOK, Named, (\A n \in Logins : Proved(n)), [Next]_vars
               PROVE  \A n \in Logins : Proved(n)'
    OBVIOUS
  <1> USE DEF TypeOK, NdiTypeOK, Named
  <1>1. ASSUME NEW c \in Calls, SubmitStart(c)
        PROVE  \A n \in Logins : Proved(n)'
    BY <1>1 DEF SubmitStart, Send, Proved, CallNamesALogin, WebhookNamesALogin
  <1>2. ASSUME NEW c \in Calls, ReceiveStart(c)
        PROVE  \A n \in Logins : Proved(n)'
    BY <1>2 DEF ReceiveStart, Answers, Done, Proved, CallNamesALogin, WebhookNamesALogin
  <1>3. ASSUME NEW c \in Calls, SubmitPoll(c)
        PROVE  \A n \in Logins : Proved(n)'
    BY <1>3 DEF SubmitPoll, Send, Proved, CallNamesALogin, WebhookNamesALogin
  <1>4. ASSUME NEW c \in Calls, ReceivePoll(c)
        PROVE  \A n \in Logins : Proved(n)'
    BY <1>4
       DEF ReceivePoll, Answers, Awaited, Show, Done, Proved, CallNamesALogin,
           WebhookNamesALogin
  <1>5. ASSUME NEW c \in Calls, LosePoll(c)
        PROVE  \A n \in Logins : Proved(n)'
    BY <1>5
       DEF LosePoll, Answers, Awaited, Show, Done, Proved, CallNamesALogin, WebhookNamesALogin
  <1>6. ASSUME NEW c \in Calls, Dismiss(c)
        PROVE  \A n \in Logins : Proved(n)'
    BY <1>6 DEF Dismiss, Send, Proved, CallNamesALogin, WebhookNamesALogin
  <1>7. ASSUME NEW c \in Calls, ReceiveCancel(c)
        PROVE  \A n \in Logins : Proved(n)'
    BY <1>7
       DEF ReceiveCancel, Answers, Done, panelVars, Proved, CallNamesALogin, WebhookNamesALogin
  <1>8. ASSUME NEW c \in Calls, NEW n \in Logins, Initiate(c, n), UNCHANGED panelVars
        PROVE  \A l \in Logins : Proved(l)'
    BY <1>8
       DEF Initiate, Sent, IsNext, Answered, panelVars, Proved, CallNamesALogin,
           WebhookNamesALogin, NoLogin
  <1>9. ASSUME NEW c \in Calls, InitiateFails(c), UNCHANGED panelVars
        PROVE  \A n \in Logins : Proved(n)'
    BY <1>9
       DEF InitiateFails, Sent, Answered, panelVars, Proved, CallNamesALogin, WebhookNamesALogin
  <1>10. ASSUME NEW c \in Calls, ReadForPoll(c), UNCHANGED panelVars
        PROVE  \A n \in Logins : Proved(n)'
    BY <1>10
       DEF ReadForPoll, Sent, PollStage, panelVars, Proved, CallNamesALogin, WebhookNamesALogin
  <1>11. ASSUME NEW c \in Calls, SaveExpired(c), UNCHANGED panelVars
        PROVE  \A n \in Logins : Proved(n)'
    BY <1>11
       DEF SaveExpired, SaveStatus, Answered, panelVars, Proved, CallNamesALogin,
           WebhookNamesALogin
  <1>12. ASSUME NEW c \in Calls, Claim(c), UNCHANGED panelVars
        PROVE  \A n \in Logins : Proved(n)'
    BY <1>12
       DEF Claim, SaveStatus, Answered, panelVars, Proved, CallNamesALogin, WebhookNamesALogin
  <1>13. ASSUME NEW c \in Calls, RefuseClaim(c), UNCHANGED panelVars
        PROVE  \A n \in Logins : Proved(n)'
    BY <1>13 DEF RefuseClaim, Answered, panelVars, Proved, CallNamesALogin, WebhookNamesALogin
  <1>14. ASSUME NEW c \in Calls, ReadForCancel(c), UNCHANGED panelVars
        PROVE  \A n \in Logins : Proved(n)'
    BY <1>14 DEF ReadForCancel, Sent, panelVars, Proved, CallNamesALogin, WebhookNamesALogin
  <1>15. ASSUME NEW c \in Calls, SaveCancelled(c), UNCHANGED panelVars
        PROVE  \A n \in Logins : Proved(n)'
    BY <1>15
       DEF SaveCancelled, SaveStatus, Answered, panelVars, Proved, CallNamesALogin,
           WebhookNamesALogin
  <1>16. ASSUME NEW n \in Logins, Overdue(n), UNCHANGED panelVars
        PROVE  \A l \in Logins : Proved(l)'
    BY <1>16 DEF Overdue, panelVars, Proved, CallNamesALogin, WebhookNamesALogin
  <1>17. ASSUME NEW n \in Logins, NEW v \in Verdicts, Decide(n, v), UNCHANGED panelVars
        PROVE  \A l \in Logins : Proved(l)'
    BY <1>17 DEF Decide, panelVars, Proved, CallNamesALogin, WebhookNamesALogin, Verdicts
  <1>18. ASSUME NEW w \in Webhooks, NEW n \in Logins, Deliver(w, n), UNCHANGED panelVars
        PROVE  \A l \in Logins : Proved(l)'
    BY <1>18 DEF Deliver, IsNext, panelVars, Proved, CallNamesALogin, WebhookNamesALogin
  <1>19. ASSUME NEW w \in Webhooks, ReadForWebhook(w), UNCHANGED panelVars
        PROVE  \A n \in Logins : Proved(n)'
    BY <1>19 DEF ReadForWebhook, Handled, panelVars, Proved, CallNamesALogin, WebhookNamesALogin
  <1>20. ASSUME NEW w \in Webhooks, NEW status \in Statuses, SaveVerdict(w, status),
  UNCHANGED panelVars
        PROVE  \A n \in Logins : Proved(n)'
    BY <1>20
       DEF SaveVerdict, SaveStatus, Outcomes, Handled, panelVars, Proved, CallNamesALogin,
           WebhookNamesALogin, Verdicts
  <1>21. CASE UNCHANGED vars
    BY <1>21 DEF vars, Proved
  <1> QED
    BY <1>1, <1>2, <1>3, <1>4, <1>5, <1>6, <1>7, <1>8, <1>9, <1>10,
       <1>11, <1>12, <1>13, <1>14, <1>15, <1>16, <1>17, <1>18, <1>19, <1>20, <1>21
       DEF Next

\* Handlers that neither open a session nor send anything keep what was asked.
LEMMA HandlersKeepAsked ==
    ASSUME TypeOK, Asked, NEW c \in Calls,
           \A d \in Calls : call'[d].op = call[d].op /\ call'[d].login = call[d].login,
           \A d \in Calls \ {c} : call'[d] = call[d],
           call[c].op = "start" => call'[c].stage = "answered",
           call[c].op = "poll" => call[c].stage # "answered" \/ call'[c] = call[c],
           \A m \in Logins : login'[m] = NoLogin => login[m] = NoLogin,
           opened' = opened, panel' = panel
    PROVE  Asked'
  <1>1. \A d \in Calls : StartsAfresh(d)'
    BY DEF Asked, StartsAfresh
  <1>2. OnePoll'
    BY DEF Asked, OnePoll
  <1>3. \A m \in Logins : Unknown(m)'
    BY DEF Asked, Unknown
  <1>4. ASSUME NEW m \in Logins, opened'[m] # 0
        PROVE  Settled(m)'
    <2>1. opened[m] # 0 /\ Settled(m)
      BY <1>4 DEF Asked
    <2>2. ASSUME NEW d \in Calls, call[d].op = "poll", call[d].login = m
          PROVE  call'[d].stage = "answered" /\ call'[d].reply = "VALIDATED"
      <3>1. call[d].stage = "answered" /\ call[d].reply = "VALIDATED"
        BY <2>1, <2>2 DEF Settled
      <3>2. call'[d] = call[d]
        BY <2>2, <3>1
      <3> QED
        BY <3>1, <3>2
    <2>3. opened'[m] = 1
      BY <2>1 DEF Settled
    <2>4. ASSUME panel' = [login |-> m, status |-> "PENDING"]
          PROVE  \E d \in Calls : call'[d].op = "poll" /\ call'[d].login = m
      BY <2>1, <2>4 DEF Settled
    <2> QED
      BY <2>2, <2>3, <2>4 DEF Settled
  <1>5. \A m \in Logins : Settled(m)'
    BY <1>4 DEF Settled
  <1> QED
    BY <1>1, <1>2, <1>3, <1>5 DEF Asked

\* Every step keeps what was asked.
LEMMA StepAsked == TypeOK /\ Named /\ Asked /\ [Next]_vars => Asked'
  <1> SUFFICES ASSUME TypeOK, Named, Asked, [Next]_vars
               PROVE  Asked'
    OBVIOUS
  <1> USE DEF TypeOK, NdiTypeOK, Named, Asked
  <1>1. ASSUME NEW c \in Calls, SubmitStart(c)
        PROVE  Asked'
    BY <1>1, NoneAssumption
       DEF SubmitStart, Send, NoCall, IdlePanel, StartsAfresh, OnePoll, Unknown, Settled,
           CallNamesALogin, WebhookNamesALogin, Logins
  <1>2. ASSUME NEW c \in Calls, ReceiveStart(c)
        PROVE  Asked'
    BY <1>2, NoneAssumption
       DEF ReceiveStart, Answers, Done, NoCall, StartsAfresh, OnePoll, Unknown, Settled,
           CallNamesALogin, WebhookNamesALogin, Logins
  <1>3. ASSUME NEW c \in Calls, SubmitPoll(c)
        PROVE  Asked'
    BY <1>3, NoneAssumption
       DEF SubmitPoll, Send, NoCall, StartsAfresh, OnePoll, Unknown, Settled, CallNamesALogin,
           WebhookNamesALogin, Logins
  <1>4. ASSUME NEW c \in Calls, ReceivePoll(c)
        PROVE  Asked'
    BY <1>4, NoneAssumption
       DEF ReceivePoll, Answers, Awaited, Show, Done, NoCall, StartsAfresh, OnePoll, Unknown,
           Settled, CallNamesALogin, WebhookNamesALogin, Logins
  <1>5. ASSUME NEW c \in Calls, LosePoll(c)
        PROVE  Asked'
    BY <1>5, NoneAssumption
       DEF LosePoll, Answers, Awaited, Show, Done, NoCall, StartsAfresh, OnePoll, Unknown,
           Settled, CallNamesALogin, WebhookNamesALogin, Logins
  <1>6. ASSUME NEW c \in Calls, Dismiss(c)
        PROVE  Asked'
    BY <1>6, NoneAssumption
       DEF Dismiss, Send, NoCall, IdlePanel, StartsAfresh, OnePoll, Unknown, Settled,
           CallNamesALogin, WebhookNamesALogin, Logins
  <1>7. ASSUME NEW c \in Calls, ReceiveCancel(c)
        PROVE  Asked'
    BY <1>7, NoneAssumption
       DEF ReceiveCancel, Answers, Done, panelVars, NoCall, StartsAfresh, OnePoll, Unknown,
           Settled, CallNamesALogin, WebhookNamesALogin, Logins
  <1>8. ASSUME NEW c \in Calls, NEW n \in Logins, Initiate(c, n), UNCHANGED panelVars
        PROVE  Asked'
    <2>1. /\ call[c].op = "start" /\ call'[c].op = "start" /\ call'[c].login = n
          /\ call'[c].stage = "answered" /\ \A d \in Calls \ {c} : call'[d] = call[d]
          /\ login[n] = NoLogin /\ login'[n] # NoLogin
          /\ \A m \in Logins \ {n} : login'[m] = login[m]
      BY <1>8, InitiateChanges DEF CallRows
    <2>2. opened' = opened /\ panel' = panel
      BY <1>8 DEF Initiate, panelVars
    <2>3. opened[n] = 0 /\ panel.login # n /\ \A d \in Calls : call[d].login # n
      BY <2>1 DEF Unknown
    <2>4. ASSUME NEW d \in Calls
          PROVE  StartsAfresh(d)'
      <3>1. CASE d = c
        BY <2>1, <2>2, <2>3, <3>1 DEF StartsAfresh
      <3>2. CASE d # c
        <4>1. call'[d] = call[d] /\ call[d].login # n /\ StartsAfresh(d)
          BY <2>1, <2>3, <3>2
        <4> QED
          BY <2>1, <2>2, <4>1 DEF StartsAfresh
      <3> QED
        BY <3>1, <3>2
    <2>5. OnePoll'
      BY <2>1 DEF OnePoll
    <2>6. \A m \in Logins : Unknown(m)'
      BY <2>1, <2>2 DEF Unknown
    <2>7. \A m \in Logins : Settled(m)'
      BY <2>1, <2>2 DEF Settled
    <2> QED
      BY <2>4, <2>5, <2>6, <2>7
  <1>9. ASSUME NEW c \in Calls, InitiateFails(c), UNCHANGED panelVars
        PROVE  Asked'
    <2>1. call \in [Calls -> CallRows] /\ "FAILED" \in Statuses \cup {"EXPIRED"}
      BY DEF CallRows, Statuses
    <2>2. /\ call'[c].op = call[c].op /\ call'[c].login = call[c].login
          /\ call'[c].stage = "answered" /\ \A d \in Calls \ {c} : call'[d] = call[d]
      BY <1>9, <2>1, AnsweredChanges DEF InitiateFails
    <2>3. call[c].stage # "answered"
      BY <1>9 DEF InitiateFails, Sent
    <2>4. login' = login /\ opened' = opened /\ panel' = panel
      BY <1>9 DEF InitiateFails, panelVars
    <2> QED
      BY <2>2, <2>3, <2>4, HandlersKeepAsked
  <1>10. ASSUME NEW c \in Calls, ReadForPoll(c), UNCHANGED panelVars
        PROVE  Asked'
    <2> DEFINE n == call[c].login
               r == [call[c] EXCEPT !.stage = PollStage(n), !.reply = login[n].status]
    <2>1. call' = [call EXCEPT ![c] = r]
      BY <1>10, Zenon DEF ReadForPoll
    <2>2. r.op = call[c].op /\ r.login = n /\ call[c].op = "poll"
      BY <1>10 DEF ReadForPoll, Sent
    <2> HIDE DEF r
    <2>3. /\ call'[c] = r /\ \A d \in Calls \ {c} : call'[d] = call[d]
          /\ \A d \in Calls : call'[d].op = call[d].op /\ call'[d].login = call[d].login
      BY <2>1, <2>2
    <2>4. login' = login /\ opened' = opened /\ panel' = panel
      BY <1>10 DEF ReadForPoll, panelVars
    <2>5. call[c].stage # "answered"
      BY <1>10 DEF ReadForPoll, Sent
    <2> QED
      BY <2>2, <2>3, <2>4, <2>5, HandlersKeepAsked
  <1>11. ASSUME NEW c \in Calls, SaveExpired(c), UNCHANGED panelVars
        PROVE  Asked'
    <2>1. call \in [Calls -> CallRows] /\ "EXPIRED" \in Statuses \cup {"EXPIRED"}
      BY DEF CallRows, Statuses
    <2>2. /\ call'[c].op = call[c].op /\ call'[c].login = call[c].login
          /\ call'[c].stage = "answered" /\ \A d \in Calls \ {c} : call'[d] = call[d]
      BY <1>11, <2>1, AnsweredChanges DEF SaveExpired
    <2>3. call[c].login \in Logins /\ call[c].stage # "answered"
      BY <1>11 DEF SaveExpired, CallNamesALogin
    <2>4. \A m \in Logins : login'[m] = NoLogin => login[m] = NoLogin
      BY <1>11, <2>3 DEF SaveExpired, SaveStatus, NoLogin
    <2>5. opened' = opened /\ panel' = panel
      BY <1>11 DEF SaveExpired, panelVars
    <2> QED
      BY <2>2, <2>3, <2>4, <2>5, HandlersKeepAsked
  <1>12. ASSUME NEW c \in Calls, Claim(c), UNCHANGED panelVars
        PROVE  Asked'
    <2> DEFINE n == call[c].login
    <2>1. n \in Logins
      BY <1>12 DEF Claim, CallNamesALogin
    <2>2. /\ call'[c].op = call[c].op /\ call'[c].login = n
          /\ call'[c].stage = "answered" /\ call'[c].reply = "VALIDATED"
          /\ \A d \in Calls \ {c} : call'[d] = call[d]
      <3>1. "VALIDATED" \in Statuses \cup {"EXPIRED"}
        BY DEF Statuses
      <3>2. call \in [Calls -> CallRows]
        BY DEF CallRows
      <3>3. call' = Answered(c, "VALIDATED")
        BY <1>12 DEF Claim
      <3> QED
        BY <3>1, <3>2, <3>3, AnsweredChanges
    <2>4. /\ login'[n].status = "CONSUMED"
          /\ \A m \in Logins \ {n} : login'[m] = login[m]
      BY <1>12, <2>1 DEF Claim, SaveStatus
    <2>5. \A d \in Calls : /\ call'[d].op = call[d].op /\ call'[d].login = call[d].login
                           /\ call[d].stage = "answered" => call'[d].stage = "answered"
      BY <2>2
    <2>6. login'[n] # NoLogin
      BY <2>4 DEF NoLogin
    <2>7. panel' = panel
      BY <1>12 DEF Claim, panelVars
    <2>8. /\ opened'[n] = opened[n] + 1
          /\ \A m \in Logins \ {n} : opened'[m] = opened[m]
      BY <1>12, <2>1 DEF Claim
    <2>9. call[c].op = "poll" /\ call[c].stage = "claim"
      BY <1>12 DEF Claim, CallNamesALogin
    <2>10. opened[n] = 0
      BY <2>1, <2>9 DEF Settled
    <2>11. \A d \in Calls : StartsAfresh(d)'
      <3> SUFFICES ASSUME NEW d \in Calls
                   PROVE  StartsAfresh(d)'
        OBVIOUS
      <3>1. CASE d = c
        BY <2>2, <2>9, <3>1 DEF StartsAfresh
      <3>2. CASE d # c /\ call[d].op = "start" /\ call[d].login # None
        <4>1. call[d].login # n /\ call[d].login \in Logins
          BY <3>2 DEF StartsAfresh
        <4> QED
          BY <2>5, <2>7, <2>8, <3>2, <4>1 DEF StartsAfresh
      <3>3. CASE d # c /\ ~(call[d].op = "start" /\ call[d].login # None)
        BY <2>5, <3>3 DEF StartsAfresh
      <3> QED
        BY <3>1, <3>2, <3>3
    <2>12. OnePoll'
      BY <2>5 DEF OnePoll
    <2>13. \A m \in Logins : Unknown(m)'
      BY <2>4, <2>5, <2>6, <2>7, <2>8 DEF Unknown
    <2>14. \A m \in Logins : Settled(m)'
      <3> SUFFICES ASSUME NEW m \in Logins
                   PROVE  Settled(m)'
        OBVIOUS
      <3>1. CASE m = n
        BY <2>1, <2>2, <2>5, <2>7, <2>8, <2>9, <2>10, <3>1 DEF Settled, OnePoll
      <3>2. CASE m # n /\ opened[m] # 0
        <4>1. opened'[m] = 1
          BY <2>8, <3>2 DEF Settled
        <4>2. ASSUME NEW d \in Calls, call'[d].op = "poll", call'[d].login = m
              PROVE  call'[d].stage = "answered" /\ call'[d].reply = "VALIDATED"
          BY <2>2, <3>2, <4>2 DEF Settled
        <4>3. ASSUME panel' = [login |-> m, status |-> "PENDING"]
              PROVE  \E d \in Calls : call'[d].op = "poll" /\ call'[d].login = m
          BY <2>5, <2>7, <3>2, <4>3 DEF Settled
        <4> QED
          BY <4>1, <4>2, <4>3 DEF Settled
      <3>3. CASE m # n /\ opened[m] = 0
        BY <2>8, <3>3 DEF Settled
      <3> QED
        BY <3>1, <3>2, <3>3
    <2> QED
      BY <2>11, <2>12, <2>13, <2>14
  <1>13. ASSUME NEW c \in Calls, RefuseClaim(c), UNCHANGED panelVars
        PROVE  Asked'
    <2>1. call \in [Calls -> CallRows] /\ "CONSUMED" \in Statuses \cup {"EXPIRED"}
      BY DEF CallRows, Statuses
    <2>2. /\ call'[c].op = call[c].op /\ call'[c].login = call[c].login
          /\ call'[c].stage = "answered" /\ \A d \in Calls \ {c} : call'[d] = call[d]
      BY <1>13, <2>1, AnsweredChanges DEF RefuseClaim
    <2>3. call[c].stage # "answered"
      BY <1>13 DEF RefuseClaim
    <2>4. login' = login /\ opened' = opened /\ panel' = panel
      BY <1>13 DEF RefuseClaim, panelVars
    <2> QED
      BY <2>2, <2>3, <2>4, HandlersKeepAsked
  <1>14. ASSUME NEW c \in Calls, ReadForCancel(c), UNCHANGED panelVars
        PROVE  Asked'
    <2> DEFINE stage == IF login[call[c].login].status = "PENDING" THEN "cancel" ELSE "answered"
               r == [call[c] EXCEPT !.stage = stage]
    <2>1. call' = [call EXCEPT ![c] = r]
      BY <1>14, Zenon DEF ReadForCancel
    <2>2. r.op = call[c].op /\ r.login = call[c].login /\ call[c].op = "cancel"
      BY <1>14 DEF ReadForCancel, Sent
    <2> HIDE DEF r
    <2>3. /\ \A d \in Calls \ {c} : call'[d] = call[d]
          /\ \A d \in Calls : call'[d].op = call[d].op /\ call'[d].login = call[d].login
      BY <2>1, <2>2
    <2>4. login' = login /\ opened' = opened /\ panel' = panel
      BY <1>14 DEF ReadForCancel, panelVars
    <2> QED
      BY <2>2, <2>3, <2>4, HandlersKeepAsked
  <1>15. ASSUME NEW c \in Calls, SaveCancelled(c), UNCHANGED panelVars
        PROVE  Asked'
    <2>1. call \in [Calls -> CallRows] /\ "CANCELLED" \in Statuses \cup {"EXPIRED"}
      BY DEF CallRows, Statuses
    <2>2. /\ call'[c].op = call[c].op /\ call'[c].login = call[c].login
          /\ call'[c].stage = "answered" /\ \A d \in Calls \ {c} : call'[d] = call[d]
      BY <1>15, <2>1, AnsweredChanges DEF SaveCancelled
    <2>3. call[c].login \in Logins /\ call[c].stage # "answered"
      BY <1>15 DEF SaveCancelled, CallNamesALogin
    <2>4. \A m \in Logins : login'[m] = NoLogin => login[m] = NoLogin
      BY <1>15, <2>3 DEF SaveCancelled, SaveStatus, NoLogin
    <2>5. opened' = opened /\ panel' = panel
      BY <1>15 DEF SaveCancelled, panelVars
    <2> QED
      BY <2>2, <2>3, <2>4, <2>5, HandlersKeepAsked
  <1>16. ASSUME NEW n \in Logins, Overdue(n), UNCHANGED panelVars
        PROVE  Asked'
    <2>1. call' = call /\ opened' = opened /\ panel' = panel
      BY <1>16 DEF Overdue, panelVars
    <2>2. \A m \in Logins : login'[m] = NoLogin => login[m] = NoLogin
      BY <1>16 DEF Overdue, NoLogin
    <2> QED
      BY <2>1, <2>2 DEF StartsAfresh, OnePoll, Unknown, Settled
  <1>17. ASSUME NEW n \in Logins, NEW v \in Verdicts, Decide(n, v), UNCHANGED panelVars
        PROVE  Asked'
    <2>1. call' = call /\ opened' = opened /\ panel' = panel
      BY <1>17 DEF Decide, panelVars
    <2>2. \A m \in Logins : login'[m] = NoLogin => login[m] = NoLogin
      BY <1>17 DEF Decide
    <2> QED
      BY <2>1, <2>2 DEF StartsAfresh, OnePoll, Unknown, Settled
  <1>18. ASSUME NEW w \in Webhooks, NEW n \in Logins, Deliver(w, n), UNCHANGED panelVars
        PROVE  Asked'
    <2>1. call' = call /\ opened' = opened /\ panel' = panel
      BY <1>18 DEF Deliver, panelVars
    <2>2. \A m \in Logins : login'[m] = NoLogin => login[m] = NoLogin
      BY <1>18 DEF Deliver
    <2> QED
      BY <2>1, <2>2 DEF StartsAfresh, OnePoll, Unknown, Settled
  <1>19. ASSUME NEW w \in Webhooks, ReadForWebhook(w), UNCHANGED panelVars
        PROVE  Asked'
    <2>1. call' = call /\ opened' = opened /\ panel' = panel
      BY <1>19 DEF ReadForWebhook, panelVars
    <2>2. \A m \in Logins : login'[m] = NoLogin => login[m] = NoLogin
      BY <1>19 DEF ReadForWebhook
    <2> QED
      BY <2>1, <2>2 DEF StartsAfresh, OnePoll, Unknown, Settled
  <1>20. ASSUME NEW w \in Webhooks, NEW status \in Statuses, SaveVerdict(w, status),
               UNCHANGED panelVars
        PROVE  Asked'
    <2>1. call' = call /\ opened' = opened /\ panel' = panel
      BY <1>20 DEF SaveVerdict, panelVars
    <2>2. \A m \in Logins : login'[m] = NoLogin => login[m] = NoLogin
      BY <1>20 DEF SaveVerdict, SaveStatus, NoLogin, Outcomes
    <2> QED
      BY <2>1, <2>2 DEF StartsAfresh, OnePoll, Unknown, Settled
  <1>21. CASE UNCHANGED vars
    BY <1>21 DEF vars, StartsAfresh, OnePoll, Unknown, Settled
  <1> QED
    BY <1>1, <1>2, <1>3, <1>4, <1>5, <1>6, <1>7, <1>8, <1>9, <1>10,
       <1>11, <1>12, <1>13, <1>14, <1>15, <1>16, <1>17, <1>18, <1>19, <1>20, <1>21
       DEF Next

\* The invariant is inductive.
LEMMA StepIInv == IInv /\ [Next]_vars => IInv'
  BY StepTypes, StepNamed, StepProved, StepAsked DEF IInv

\* Every reachable state satisfies it.
LEMMA AlwaysIInv == Spec => []IInv
  BY InitIInv, StepIInv, PTL DEF Spec

-----------------------------------------------------------------------------
(* A session that was opened is the tab's or on its way there.             *)

\* The answer by which a tab gets the session of login n.
Brings(c, n) ==
    /\ call[c].op = "poll" /\ call[c].stage = "answered" /\ call[c].reply = "VALIDATED"
    /\ call[c].login = n

Arriving ==
    \A n \in Logins :
        opened[n] # 0 /\ ~lost => n \in signedIn \/ \E c \in Calls : Brings(c, n)

\* Only the tab takes an answer away, only a claim opens a session, and both the tab's
\* sign-ins and its losses are for good.
LEMMA AnswersWait ==
    ASSUME TypeOK, Named, [Next]_vars
    PROVE  \/ \E c \in Calls : ReceivePoll(c) \/ LosePoll(c)
           \/ \E c \in Calls : Claim(c) /\ UNCHANGED panelVars
           \/ /\ opened' = opened /\ signedIn' = signedIn /\ lost' = lost
              /\ \A d \in Calls : call[d].op = "poll" /\ call[d].stage = "answered" =>
                    call'[d] = call[d]
  <1> DEFINE Kept == /\ opened' = opened /\ signedIn' = signedIn /\ lost' = lost
                     /\ \A d \in Calls : call[d].op = "poll" /\ call[d].stage = "answered" =>
                           call'[d] = call[d]
  <1> USE DEF TypeOK, NdiTypeOK, panelVars
  <1>1. ASSUME NEW c \in Calls, SubmitStart(c) \/ SubmitPoll(c) \/ Dismiss(c)
        PROVE  Kept
    BY <1>1 DEF SubmitStart, SubmitPoll, Dismiss, Send, NoCall
  <1>2. ASSUME NEW c \in Calls, ReceiveStart(c) \/ ReceiveCancel(c)
        PROVE  Kept
    BY <1>2 DEF ReceiveStart, ReceiveCancel, Answers, Done
  <1>3. ASSUME NEW c \in Calls, NEW n \in Logins, Initiate(c, n), UNCHANGED panelVars
        PROVE  Kept
    BY <1>3 DEF Initiate, Sent, Answered
  <1>4. ASSUME NEW c \in Calls, UNCHANGED panelVars,
               InitiateFails(c) \/ ReadForPoll(c) \/ ReadForCancel(c)
        PROVE  Kept
    BY <1>4 DEF InitiateFails, ReadForPoll, ReadForCancel, Sent, Answered
  <1>5. ASSUME NEW c \in Calls, UNCHANGED panelVars,
               SaveExpired(c) \/ RefuseClaim(c) \/ SaveCancelled(c)
        PROVE  Kept
    BY <1>5 DEF SaveExpired, RefuseClaim, SaveCancelled, Answered
  <1>6. ASSUME NEW n \in Logins, Overdue(n) \/ (\E v \in Verdicts : Decide(n, v)),
               UNCHANGED panelVars
        PROVE  Kept
    BY <1>6 DEF Overdue, Decide
  <1>7. ASSUME NEW w \in Webhooks, UNCHANGED panelVars,
               \/ \E n \in Logins : Deliver(w, n)
               \/ ReadForWebhook(w)
               \/ \E status \in Statuses : SaveVerdict(w, status)
        PROVE  Kept
    BY <1>7 DEF Deliver, ReadForWebhook, SaveVerdict
  <1>8. CASE UNCHANGED vars
    BY <1>8 DEF vars
  <1> QED
    BY <1>1, <1>2, <1>3, <1>4, <1>5, <1>6, <1>7, <1>8 DEF Next

\* Every step keeps sessions within the tab's reach.
LEMMA StepArriving == TypeOK /\ Named /\ Arriving /\ [Next]_vars => Arriving'
  <1> SUFFICES ASSUME TypeOK, Named, Arriving, [Next]_vars
               PROVE  Arriving'
    OBVIOUS
  <1>1. ASSUME NEW c \in Calls, ReceivePoll(c)
        PROVE  Arriving'
    <2>1. /\ opened' = opened /\ lost' = lost
          /\ \A d \in Calls \ {c} : call'[d] = call[d]
      BY <1>1 DEF ReceivePoll, Done, TypeOK, NdiTypeOK
    <2>2. signedIn' = IF call[c].reply = "VALIDATED"
                      THEN signedIn \cup {call[c].login} ELSE signedIn
      BY <1>1 DEF ReceivePoll
    <2> QED
      BY <2>1, <2>2 DEF Arriving, Brings
  <1>2. ASSUME NEW c \in Calls, LosePoll(c)
        PROVE  Arriving'
    BY <1>2 DEF LosePoll, Arriving
  <1>3. ASSUME NEW c \in Calls, Claim(c), UNCHANGED panelVars
        PROVE  Arriving'
    <2> DEFINE n == call[c].login
    <2>1. n \in Logins /\ call[c].op = "poll" /\ call[c].stage = "claim"
      BY <1>3 DEF Claim, Named, CallNamesALogin
    <2>2. call' = Answered(c, "VALIDATED") /\ call \in [Calls -> CallRows]
      BY <1>3 DEF Claim, TypeOK, NdiTypeOK, CallRows
    <2>3. "VALIDATED" \in Statuses \cup {"EXPIRED"}
      BY DEF Statuses
    <2>4. /\ call'[c].op = "poll" /\ call'[c].login = n
          /\ call'[c].stage = "answered" /\ call'[c].reply = "VALIDATED"
          /\ \A d \in Calls \ {c} : call'[d] = call[d]
      BY <2>1, <2>2, <2>3, AnsweredChanges
    <2>5. /\ \A m \in Logins \ {n} : opened'[m] = opened[m]
          /\ signedIn' = signedIn /\ lost' = lost
      BY <1>3 DEF Claim, panelVars, TypeOK, NdiTypeOK
    <2> QED
      BY <2>1, <2>4, <2>5 DEF Arriving, Brings
  <1>4. CASE /\ opened' = opened /\ signedIn' = signedIn /\ lost' = lost
             /\ \A d \in Calls : call[d].op = "poll" /\ call[d].stage = "answered" =>
                   call'[d] = call[d]
    BY <1>4 DEF Arriving, Brings
  <1> QED
    BY <1>1, <1>2, <1>3, <1>4, AnswersWait

-----------------------------------------------------------------------------
(* Theorems.                                                               *)

\* Every reachable state is well typed.
THEOREM TypeCorrect == Spec => []TypeOK
  <1>1. IInv => TypeOK
    BY DEF IInv
  <1> QED
    BY <1>1, AlwaysIInv, PTL

\* A proof opens one session at most, although a webhook that is delivered twice may make
\* a consumed login valid again.
THEOREM ProofsOpenOneSession == Spec => []OneSessionPerProof
  <1>1. IInv => OneSessionPerProof
    <2> SUFFICES ASSUME IInv, NEW n \in Logins
                 PROVE  opened[n] <= 1
      BY DEF OneSessionPerProof
    <2>1. opened[n] = 0 \/ opened[n] = 1
      BY DEF IInv, Asked, Settled
    <2> QED
      BY <2>1
  <1> QED
    BY <1>1, AlwaysIInv, PTL

\* A proof that was rejected, or not verified, opens none.
THEOREM RefusedProofsOpenNothing == Spec => []RefusedOpensNothing
  <1>1. IInv => RefusedOpensNothing
    BY DEF IInv, Proved, RefusedOpensNothing
  <1> QED
    BY <1>1, AlwaysIInv, PTL

\* Unless the answer of a poll was lost, the tab gets every session that is opened for it:
\* the one whose answer arrives after the panel was dismissed too.
THEOREM OpenedSessionsReachTheTab == Spec => []SessionsReachTheTab
  <1>1. Init => Arriving
    BY DEF Init, NdiInit, Arriving
  <1>2. IInv /\ Arriving /\ [Next]_vars => Arriving'
    BY StepArriving DEF IInv
  <1>3. IInv /\ Arriving => SessionsReachTheTab
    <2> SUFFICES ASSUME IInv, Arriving, \A c \in Calls : call[c] = NoCall, ~lost,
                        NEW n \in Logins, opened[n] > 0
                 PROVE  n \in signedIn
      BY DEF SessionsReachTheTab
    <2>1. opened[n] # 0
      OBVIOUS
    <2> QED
      BY <2>1 DEF Arriving, Brings, NoCall
  <1> QED
    BY <1>1, <1>2, <1>3, AlwaysIInv, PTL DEF Spec
=============================================================================
