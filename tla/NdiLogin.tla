------------------------------ MODULE NdiLogin ------------------------------
(***************************************************************************)
(* Logins with a Bhutan NDI proof.  A row of ndi_login_requests is written *)
(* by the poll, the cancellation and the webhook, each of which reads it   *)
(* first and saves what it read; only the claim of a validated login looks *)
(* at the row again as it writes.                                          *)
(***************************************************************************)
EXTENDS Naturals

CONSTANTS
    Calls,         \* requests of the browser that may be in flight together
    None,
    MaxLogins,     \* bound: rows of ndi_login_requests
    MaxWebhooks    \* bound: deliveries of Bhutan NDI's verdicts

ASSUME BoundsAssumption == MaxLogins \in Nat /\ MaxWebhooks \in Nat

\* Rows, and the deliveries of verdicts, in the order they come into being.
Logins == 1 .. MaxLogins
Webhooks == 1 .. MaxWebhooks

ASSUME NoneAssumption == None \notin Nat

VARIABLES
    login,         \* status of a row, and whether its deadline has passed
    verdict,       \* what Bhutan NDI has to say about a proof request
    webhook,       \* the deliveries
    call,          \* the browser's requests
    opened         \* history: how many sessions a row has opened

-----------------------------------------------------------------------------

Statuses == {"NONE", "PENDING", "VALIDATED", "REJECTED", "FAILED", "CANCELLED", "CONSUMED"}
Verdicts == {"ProofValidated", "rejected", "invalid"}
Ops == {"none", "start", "poll", "cancel"}

NoLogin == [status |-> "NONE", overdue |-> FALSE]
NoWebhook == [login |-> None, stage |-> "unsent"]
NoCall == [op |-> "none", login |-> None, stage |-> "free", reply |-> "NONE"]

NdiTypeOK ==
    /\ login \in [Logins -> [status : Statuses, overdue : BOOLEAN]]
    /\ verdict \in [Logins -> Verdicts \cup {"waiting"}]
    /\ webhook \in [Webhooks -> [login : Logins \cup {None},
                                 stage : {"unsent", "sent", "save", "done"}]]
    /\ call \in [Calls -> [op : Ops, login : Logins \cup {None},
                           stage : {"free", "sent", "expire", "claim", "cancel", "answered"},
                           reply : Statuses \cup {"EXPIRED"}]]
    /\ opened \in [Logins -> Nat]

NdiInit ==
    /\ login = [n \in Logins |-> NoLogin]
    /\ verdict = [n \in Logins |-> "waiting"]
    /\ webhook = [w \in Webhooks |-> NoWebhook]
    /\ call = [c \in Calls |-> NoCall]
    /\ opened = [n \in Logins |-> 0]

\* x is the next of those that count from 1 when the ones in S exist.
IsNext(x, S) == S = 1 .. (x - 1)

-----------------------------------------------------------------------------

Send(c, op, n) ==
    /\ call[c] = NoCall
    /\ call' = [call EXCEPT ![c] = [NoCall EXCEPT !.op = op, !.login = n, !.stage = "sent"]]

Sent(c, op) == call[c].op = op /\ call[c].stage = "sent"

Answers(c, op) == call[c].op = op /\ call[c].stage = "answered"

Answered(c, reply) == [call EXCEPT ![c].stage = "answered", ![c].reply = reply]

\* ndiInitiate: a proof request is created, subscribed to, and its row saved.
Initiate(c, n) ==
    /\ Sent(c, "start")
    /\ IsNext(n, {m \in Logins : login[m] # NoLogin})
    /\ login' = [login EXCEPT ![n].status = "PENDING"]
    /\ call' = [Answered(c, "PENDING") EXCEPT ![c].login = n]
    /\ UNCHANGED <<verdict, webhook, opened>>

\* Bhutan NDI is unavailable, or refuses.
InitiateFails(c) ==
    /\ Sent(c, "start")
    /\ call' = Answered(c, "FAILED")
    /\ UNCHANGED <<login, verdict, webhook, opened>>

\* The deadline of a row passes; nobody asks for it once the row is decided.
Overdue(n) ==
    /\ login[n] = [status |-> "PENDING", overdue |-> FALSE]
    /\ login' = [login EXCEPT ![n].overdue = TRUE]
    /\ UNCHANGED <<verdict, webhook, call, opened>>

\* Mutated form of PollStage: a row that nobody answers stays pending.
PollStageUnexpiring(n) ==
    IF login[n].status = "VALIDATED" THEN "claim" ELSE "answered"

\* What a poll does about the row it has read.
PollStage(n) ==
    IF login[n] = [status |-> "PENDING", overdue |-> TRUE] THEN "expire"
    ELSE IF login[n].status = "VALIDATED" THEN "claim" ELSE "answered"

\* ndiStatus
ReadForPoll(c) ==
    LET n == call[c].login IN
    /\ Sent(c, "poll")
    /\ call' = [call EXCEPT ![c].stage = PollStage(n), ![c].reply = login[n].status]
    /\ UNCHANGED <<login, verdict, webhook, opened>>

\* A handler saves the row it read, with a new status.
SaveStatus(n, status) ==
    login' = [login EXCEPT ![n] = [status |-> status, overdue |-> FALSE]]

\* expireOverdueNdiLogin
SaveExpired(c) ==
    /\ call[c].stage = "expire"
    /\ SaveStatus(call[c].login, "FAILED")
    /\ call' = Answered(c, "EXPIRED")
    /\ UNCHANGED <<verdict, webhook, opened>>

\* consumeValidatedNdiLogin: the conditional update, and createSession.
Claim(c) ==
    LET n == call[c].login IN
    /\ call[c].stage = "claim"
    /\ login[n].status = "VALIDATED"
    /\ SaveStatus(n, "CONSUMED")
    /\ opened' = [opened EXCEPT ![n] = @ + 1]
    /\ call' = Answered(c, "VALIDATED")
    /\ UNCHANGED <<verdict, webhook>>

RefuseClaim(c) ==
    /\ call[c].stage = "claim"
    /\ login[call[c].login].status # "VALIDATED"
    /\ call' = Answered(c, "CONSUMED")
    /\ UNCHANGED <<login, verdict, webhook, opened>>

\* ndiCancel: only a row that it reads as PENDING is cancelled.
ReadForCancel(c) ==
    /\ Sent(c, "cancel")
    /\ call' = [call EXCEPT ![c].stage =
         IF login[call[c].login].status = "PENDING" THEN "cancel" ELSE "answered"]
    /\ UNCHANGED <<login, verdict, webhook, opened>>

SaveCancelled(c) ==
    /\ call[c].stage = "cancel"
    /\ SaveStatus(call[c].login, "CANCELLED")
    /\ call' = Answered(c, "CANCELLED")
    /\ UNCHANGED <<verdict, webhook, opened>>

-----------------------------------------------------------------------------
\* Bhutan NDI: one verdict on a proof request, delivered any number of times.

Decide(n, v) ==
    /\ login[n].status # "NONE" /\ verdict[n] = "waiting"
    /\ verdict' = [verdict EXCEPT ![n] = v]
    /\ UNCHANGED <<login, webhook, call, opened>>

Deliver(w, n) ==
    /\ verdict[n] # "waiting"
    /\ IsNext(w, {x \in Webhooks : webhook[x] # NoWebhook})
    /\ webhook' = [webhook EXCEPT ![w] = [login |-> n, stage |-> "sent"]]
    /\ UNCHANGED <<login, verdict, call, opened>>

Handled == [login |-> None, stage |-> "done"]

\* ndiWebhook reads the row and goes on only if it is PENDING.
ReadForWebhook(w) ==
    /\ webhook[w].stage = "sent"
    /\ webhook' = [webhook EXCEPT ![w] =
         IF login[@.login].status = "PENDING" THEN [@ EXCEPT !.stage = "save"] ELSE Handled]
    /\ UNCHANGED <<login, verdict, call, opened>>

\* Mutated form of Outcomes: any presentation that names an account counts.
OutcomesUnverified(v) ==
    IF v = "rejected" THEN {"REJECTED"} ELSE {"VALIDATED", "FAILED"}

\* The status the webhook saves.  A validated proof may name nobody, or an
\* account that is not active.
Outcomes(v) ==
    IF v = "rejected" THEN {"REJECTED"}
    ELSE IF v = "invalid" THEN {"FAILED"} ELSE {"VALIDATED", "FAILED"}

SaveVerdict(w, status) ==
    LET n == webhook[w].login IN
    /\ webhook[w].stage = "save"
    /\ status \in Outcomes(verdict[n])
    /\ SaveStatus(n, status)
    /\ webhook' = [webhook EXCEPT ![w] = Handled]
    /\ UNCHANGED <<verdict, call, opened>>
=============================================================================
