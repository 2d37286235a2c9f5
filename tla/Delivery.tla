------------------------------ MODULE Delivery ------------------------------
(***************************************************************************)
(* E-mail and SMS deliveries of the notification service.  Each replica's  *)
(* poll claims a delivery, hands it to the provider, and saves what came   *)
(* of it; what it saves is the row it claimed.                             *)
(***************************************************************************)
EXTENDS Naturals

CONSTANTS
    Deliveries,    \* rows of notification_deliveries for a provider
    Workers,       \* replicas of the notification service
    MaxAttempts,   \* MAX_ATTEMPTS: 5
    None

ASSUME MaxAttemptsAssumption == MaxAttempts \in Nat \ {0}
ASSUME NoneAssumption == None \notin Deliveries

VARIABLES
    delivery,      \* the rows
    sending,       \* per worker: the delivery it has claimed, its attempts, its stage
    accepted,      \* history: how often the provider took a delivery
    doubted,       \* history: deliveries that the provider took and the worker does
                   \* not know of
    repeated       \* history: deliveries whose failure was saved without the worker's
                   \* knowing, so that it counts once more

deliveryVars == <<delivery, sending, accepted, doubted, repeated>>

DeliveryStatuses == {"NONE", "PENDING_PROVIDER", "SENDING", "DELIVERED", "FAILED"}

\* "unresolved" is a failure that is saved where its own save may be caught ("failing" is not).
SendStages == {"idle", "claimed", "sent", "unresolved", "failing"}

\* The count goes two beyond MaxAttempts: a failed save counts an attempt again.
Attempts == 0 .. MaxAttempts + 1

NoDelivery == [status |-> "NONE", attempts |-> 0]
Idle == [delivery |-> None, attempts |-> 0, stage |-> "idle"]

DeliveryTypeOK ==
    /\ delivery \in [Deliveries -> [status : DeliveryStatuses, attempts : Attempts]]
    /\ sending \in [Workers -> [delivery : Deliveries \cup {None}, attempts : Attempts,
                                stage : SendStages]]
    /\ accepted \in [Deliveries -> 0 .. MaxAttempts + 1]
    /\ doubted \subseteq Deliveries /\ repeated \subseteq Deliveries

DeliveryInit ==
    /\ delivery = [d \in Deliveries |-> NoDelivery]
    /\ sending = [w \in Workers |-> Idle]
    /\ accepted = [d \in Deliveries |-> 0]
    /\ doubted = {} /\ repeated = {}

-----------------------------------------------------------------------------

\* The rows that an event brings about.
Create(ds) ==
    /\ delivery' = [d \in Deliveries |->
         IF d \in ds THEN [status |-> "PENDING_PROVIDER", attempts |-> 0] ELSE delivery[d]]
    /\ UNCHANGED <<sending, accepted, doubted, repeated>>

\* Mutated form of Claimable: a delivery that is being sent can be claimed too.
ClaimableWhileSent == {"PENDING_PROVIDER", "SENDING"}

\* Rows are claimed one replica at a time (FOR UPDATE SKIP LOCKED).
Claimable == {"PENDING_PROVIDER"}

Claim(w, d) ==
    /\ sending[w] = Idle
    /\ delivery[d].status \in Claimable
    /\ delivery' = [delivery EXCEPT ![d].status = "SENDING"]
    /\ sending' = [sending EXCEPT ![w] =
         [delivery |-> d, attempts |-> delivery[d].attempts, stage |-> "claimed"]]
    /\ UNCHANGED <<accepted, doubted, repeated>>

Accept(w) ==
    accepted' = [accepted EXCEPT ![sending[w].delivery] = IF @ > MaxAttempts THEN @ ELSE @ + 1]

\* The provider takes the message, and the worker goes on to save that.
Send(w) ==
    /\ sending[w].stage = "claimed"
    /\ Accept(w)
    /\ sending' = [sending EXCEPT ![w].stage = "sent", ![w].attempts = @ + 1]
    /\ UNCHANGED <<delivery, doubted, repeated>>

\* There is no address; or no notification, or the provider does not take the message.
FailToSend(w) ==
    /\ sending[w].stage = "claimed"
    /\ \E stage \in {"unresolved", "failing"} : sending' = [sending EXCEPT ![w].stage = stage]
    /\ UNCHANGED <<delivery, accepted, doubted, repeated>>

\* The provider takes the message, but its answer does not come through.
LoseSend(w) ==
    /\ sending[w].stage = "claimed"
    /\ Accept(w)
    /\ doubted' = doubted \cup {sending[w].delivery}
    /\ sending' = [sending EXCEPT ![w].stage = "failing"]
    /\ UNCHANGED <<delivery, repeated>>

\* Worker w's outcome is the row's.
Saved(w, status, attempts) ==
    delivery' = [delivery EXCEPT ![sending[w].delivery] =
        [status |-> status, attempts |-> attempts]]

SaveDelivered(w) ==
    /\ sending[w].stage = "sent"
    /\ Saved(w, "DELIVERED", sending[w].attempts)
    /\ sending' = [sending EXCEPT ![w] = Idle]
    /\ UNCHANGED <<accepted, doubted, repeated>>

\* That save fails, or its answer is lost; the delivery counts as failed, with an attempt more.
LoseSaveDelivered(w) ==
    /\ sending[w].stage = "sent"
    /\ UNCHANGED delivery \/ Saved(w, "DELIVERED", sending[w].attempts)
    /\ doubted' = doubted \cup {sending[w].delivery}
    /\ sending' = [sending EXCEPT ![w].stage = "failing"]
    /\ UNCHANGED <<accepted, repeated>>

\* Mutated form of SaveFailure: there is no last attempt.
SaveFailureForNow(w) ==
    Saved(w, "PENDING_PROVIDER",
          IF sending[w].attempts < MaxAttempts THEN sending[w].attempts + 1 ELSE 0)

\* The attempt is counted; the last one settles the delivery.
SaveFailure(w) ==
    LET attempts == sending[w].attempts + 1 IN
    Saved(w, IF attempts >= MaxAttempts THEN "FAILED" ELSE "PENDING_PROVIDER", attempts)

Fail(w) ==
    /\ sending[w].stage \in {"unresolved", "failing"}
    /\ SaveFailure(w)
    /\ sending' = [sending EXCEPT ![w] = Idle]
    /\ UNCHANGED <<accepted, doubted, repeated>>

\* The save that there is no address fails, or its answer is lost: the delivery fails again,
\* from the copy with one attempt counted already, whatever its row is by then.
LoseFail(w) ==
    /\ sending[w].stage = "unresolved"
    /\ \/ UNCHANGED <<delivery, repeated>>
       \/ SaveFailure(w) /\ repeated' = repeated \cup {sending[w].delivery}
    /\ sending' = [sending EXCEPT ![w].stage = "failing", ![w].attempts = @ + 1]
    /\ UNCHANGED <<accepted, doubted>>

\* The worker stops, or cannot save the failure either: the delivery is left SENDING.
Abandon(w) ==
    /\ sending[w] # Idle
    /\ sending' = [sending EXCEPT ![w] = Idle]
    /\ UNCHANGED <<delivery, accepted, doubted, repeated>>

Work(w) ==
    \/ \E d \in Deliveries : Claim(w, d)
    \/ Send(w)
    \/ FailToSend(w)
    \/ SaveDelivered(w)
    \/ Fail(w)

\* Nobody works on a delivery that is being sent.
Abandoned(d) == delivery[d].status = "SENDING" /\ \A w \in Workers : sending[w].delivery # d
=============================================================================
