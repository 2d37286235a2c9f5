----------------------------- MODULE Eligibility -----------------------------
(***************************************************************************)
(* Who may be scored: the events of the registration service, from the     *)
(* transactions that write them (registration.service.ts) through outbox   *)
(* and broker to the projection candidate_eligibility of the result        *)
(* service (result-service/src/event-consumer.service.ts).                 *)
(*                                                                         *)
(* The consumer handles up to ten messages at once.  A message is          *)
(* acknowledged after its transaction; one whose handling throws goes to   *)
(* the dead-letter queue, which nothing reads.                             *)
(***************************************************************************)
EXTENDS Outbox

CONSTANTS
    Applications,       \* application ids
    Workers             \* messages the consumer handles at once

\* An event is its type, the application it is about and which of the events of that
\* type and application it is.
ASSUME EligibilityAssumption ==
    Events \subseteq {"ApplicationVerified", "CandidateMarkedAbsent"} \X Applications \X Nat

VARIABLES
    status,             \* registration: applications.status
    resending,          \* registration: resends that have read their application
    eligibility,        \* result: candidate_eligibility.status
    processed,          \* result: processed_events
    handler,            \* result: the message each worker handles
    deadLetters         \* events with a copy in the dead-letter queue

registrationVars == <<status, resending>>
resultVars == <<eligibility, processed, handler, deadLetters>>
vars == <<outboxVars, registrationVars, resultVars>>

NoRow == "NO_ROW"

\* fresh: the handler found no processed_events row; committed: its transaction is over.
Handler == [event : Events, fresh : BOOLEAN, committed : BOOLEAN]
Idle == [idle |-> TRUE]

TypeOK ==
    /\ OutboxTypeOK
    /\ status \in [Applications -> {"UNDER_REVIEW", "VERIFIED", "ABSENT"}]
    /\ resending \subseteq Applications
    /\ eligibility \in [Applications -> {NoRow, "ELIGIBLE", "ABSENT"}]
    /\ processed \subseteq Events
    /\ handler \in [Workers -> Handler \cup {Idle}]
    /\ deadLetters \subseteq Events

Init ==
    /\ OutboxInit
    /\ status = [a \in Applications |-> "UNDER_REVIEW"]
    /\ resending = {}
    /\ eligibility = [a \in Applications |-> NoRow]
    /\ processed = {}
    /\ handler = [w \in Workers |-> Idle]
    /\ deadLetters = {}

-----------------------------------------------------------------------------
(* Registration.                                                           *)

\* One of the events of this type about a that has not been written yet.
WriteNew(type, a) ==
    /\ \E e \in Events : e[1] = type /\ e[2] = a /\ WriteEvent(e)
    /\ UNCHANGED <<publishedAt, attempts, publisherVars, queueVars, resultVars>>

Verify(a) ==
    /\ status[a] = "UNDER_REVIEW"
    /\ status' = [status EXCEPT ![a] = "VERIFIED"]
    /\ WriteNew("ApplicationVerified", a)
    /\ UNCHANGED resending

MarkAbsent(a) ==
    /\ status[a] = "VERIFIED"
    /\ status' = [status EXCEPT ![a] = "ABSENT"]
    /\ WriteNew("CandidateMarkedAbsent", a)
    /\ UNCHANGED resending

\* resendVerificationNotification reads the application without a lock ...
ReadForResend(a) ==
    /\ status[a] = "VERIFIED"
    /\ resending' = resending \cup {a}
    /\ UNCHANGED <<status, outboxVars, resultVars>>

\* ... and records the event later.
Resend(a) ==
    /\ a \in resending
    /\ resending' = resending \ {a}
    /\ WriteNew("ApplicationVerified", a)
    /\ UNCHANGED status

-----------------------------------------------------------------------------
(* The consumer.  A copy stays in the broker's queue until it is settled.  *)

\* onModuleInit finds the broker, declares the queue and binds it.  Both are durable: they
\* last from the first time that the service ran.
DeclareQueue ==
    /\ brokerUp
    /\ ~bound
    /\ bound' = TRUE
    /\ UNCHANGED <<outboxRows, publisherVars, queue, unrouted, registrationVars, resultVars>>

InHand(e) == {w \in Workers : handler[w] # Idle /\ handler[w].event = e}
Waiting(e) == Cardinality(InHand(e)) < queue[e]

Take(w, e) ==
    /\ handler[w] = Idle
    /\ brokerUp
    /\ Waiting(e)
    /\ handler' = [handler EXCEPT ![w] = [event |-> e, fresh |-> e \notin processed,
                                          committed |-> FALSE]]
    /\ UNCHANGED <<outboxVars, registrationVars, eligibility, processed, deadLetters>>

Handling(w) == handler[w] # Idle /\ ~handler[w].committed

\* An absence needs the projection of its candidate.
Applicable(e) == e[1] = "CandidateMarkedAbsent" => eligibility[e[2]] # NoRow

Projected(e) ==
    eligibility' = [eligibility EXCEPT ![e[2]] =
        IF e[1] = "ApplicationVerified" THEN "ELIGIBLE" ELSE "ABSENT"]

\* Mutated form of Commit: processed_events.eventId is not unique.
CommitTwice(w) ==
    LET e == handler[w].event IN
    /\ Handling(w)
    /\ \/ /\ handler[w].fresh /\ Applicable(e)
          /\ Projected(e)
          /\ processed' = processed \cup {e}
       \/ ~handler[w].fresh /\ UNCHANGED <<eligibility, processed>>
    /\ handler' = [handler EXCEPT ![w].committed = TRUE]
    /\ UNCHANGED <<outboxVars, registrationVars, deadLetters>>

\* The handler's transaction: nothing for an event that had been processed before it
\* began; the unique eventId refuses one that was processed since.
Commit(w) ==
    LET e == handler[w].event IN
    /\ Handling(w)
    /\ \/ /\ handler[w].fresh /\ e \notin processed /\ Applicable(e)
          /\ Projected(e)
          /\ processed' = processed \cup {e}
       \/ ~handler[w].fresh /\ UNCHANGED <<eligibility, processed>>
    /\ handler' = [handler EXCEPT ![w].committed = TRUE]
    /\ UNCHANGED <<outboxVars, registrationVars, deadLetters>>

\* Only an open channel can settle a message.
Settle(w) ==
    /\ brokerUp
    /\ queue' = [queue EXCEPT ![handler[w].event] = @ - 1]
    /\ handler' = [handler EXCEPT ![w] = Idle]
    /\ UNCHANGED <<outboxRows, publisherVars, bound, unrouted, registrationVars, eligibility,
                   processed>>

Ack(w) ==
    /\ handler[w] # Idle /\ handler[w].committed
    /\ Settle(w)
    /\ UNCHANGED deadLetters

\* The handler throws: the absence of an unknown candidate, an event processed since,
\* or the database.
Reject(w) ==
    /\ Handling(w)
    /\ deadLetters' = deadLetters \cup {handler[w].event}
    /\ Settle(w)

\* The channel closes or the process stops, before or after the transaction: the broker
\* delivers the copy again.
LoseDelivery(w) ==
    /\ handler[w] # Idle
    /\ handler' = [handler EXCEPT ![w] = Idle]
    /\ UNCHANGED <<outboxVars, registrationVars, eligibility, processed, deadLetters>>

-----------------------------------------------------------------------------
WorkerStep(w) ==
    \/ \E e \in Events : Take(w, e)
    \/ Commit(w)
    \/ Ack(w)
    \/ Reject(w)
    \/ LoseDelivery(w)

RegistrationStep(a) ==
    \/ Verify(a)
    \/ MarkAbsent(a)
    \/ ReadForResend(a)
    \/ Resend(a)

Next ==
    \/ \E a \in Applications : RegistrationStep(a)
    \/ /\ BrokerStep \/ \E r \in Replicas : PublisherStep(r)
       /\ UNCHANGED <<registrationVars, resultVars>>
    \/ DeclareQueue
    \/ \E w \in Workers : WorkerStep(w)

Spec == Init /\ [][Next]_vars

\* A replica with a timer goes on with its batch (the timer fires every two seconds, and
\* a publish is confirmed or fails).  A worker takes what waits, its transaction ends, and
\* not every one of its deliveries is lost before it is settled.  Outside the code: the
\* broker is started again, and so is the consumer, which connects once like a replica.
Fairness ==
    /\ WF_vars(BrokerStarts /\ UNCHANGED <<registrationVars, resultVars>>)
    /\ \A r \in Replicas :
          /\ WF_vars(LoadBatch(r) /\ UNCHANGED <<registrationVars, resultVars>>)
          /\ WF_vars((Publish(r) \/ PublishFails(r)) /\ UNCHANGED <<registrationVars, resultVars>>)
          /\ WF_vars(SaveHead(r) /\ UNCHANGED <<registrationVars, resultVars>>)
    /\ \A w \in Workers :
          /\ SF_vars(Ack(w))
          /\ \A e \in Events :
                /\ SF_vars(Take(w, e))
                /\ SF_vars((Commit(w) \/ Reject(w)) /\ handler[w].event = e)

FairSpec == Spec /\ Fairness

-----------------------------------------------------------------------------
(* Properties.                                                             *)

\* Whatever stops or fails between the outbox and the projection, an event marked as
\* published is in the broker's hands, was processed, or lies in the dead-letter queue; but
\* the broker dropped it if the consumer's queue had never been declared by then.
NoEventLost ==
    \A e \in publishedAt \ unrouted : queue[e] > 0 \/ e \in processed \/ e \in deadLetters

\* A candidate's eligibility changes only by an event about that candidate that was never
\* processed before: duplicates, redeliveries and handlers that overlap change nothing.
EachEventAppliedOnce ==
    [][\A a \in Applications :
          eligibility'[a] # eligibility[a] =>
              \E e \in processed' \ processed : e[2] = a]_vars

\* While one replica keeps its timer, every event that is written ends up processed, in
\* the dead-letter queue, given up after MaxAttempts, or published too early for the queue.
EventsAreSettled ==
    (\E r \in Replicas : <>[](connection[r] \in {"open", "closed"})) =>
        \A e \in Events : e \in WrittenEvents ~>
            \/ e \in processed \/ e \in deadLetters
            \/ attempts[e] = MaxAttempts
            \/ e \in unrouted

\* The outbox, the broker and the consumer together behave as the flow of EventFlow: what is
\* applied was recorded with the change it tells of, once, and nothing drops out before.
Flow == INSTANCE EventFlow WITH
    recorded <- WrittenEvents,
    transit <- {e \in Events : queue[e] > 0},
    applied <- processed,
    dead <- deadLetters
ImplementsEventFlow == Flow!Spec
=============================================================================
