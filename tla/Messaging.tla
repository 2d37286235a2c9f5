------------------------------ MODULE Messaging ------------------------------
(***************************************************************************)
(* Domain events on their way from the outbox to the reporting and the     *)
(* notification service: each has a queue of its own, in which an event    *)
(* may lie twice.  Reporting handles several messages at once and projects *)
(* them; notification creates deliveries, which its workers send.          *)
(***************************************************************************)
EXTENDS Delivery, FiniteSets

CONSTANTS
    Events,
    Resources,        \* what reporting projects
    Resource,         \* per event: the resource it is about
    OccurredAt,       \* per event: when it occurred
    Targeted,         \* per event: the deliveries it brings about
    Handlers,         \* messages that reporting handles at once: 50
    Publications,     \* bound: how often each event is published, in the behaviours looked at
    MaxRestarts       \* bound: restarts of reporting

ASSUME EventsAssumption ==
    /\ Resource \in [Events -> Resources]
    /\ OccurredAt \in [Events -> Nat \ {0}]
    /\ Targeted \in [Events -> SUBSET Deliveries]
    /\ \A e, f \in Events : e # f => Targeted[e] \cap Targeted[f] = {}
    /\ IsFiniteSet(Handlers)
    /\ None \notin Events
    /\ Publications \subseteq [Events -> Nat] /\ MaxRestarts \in Nat

VARIABLES
    bound,         \* the services whose queue exists and is bound to the exchange
    outbox,        \* how often the outbox will yet publish an event
    reports,       \* the reporting queue: how often an event waits in it
    notices,       \* the notification queue
    notified,      \* notification.processed_events
    handling,      \* per handler: the event, and the row that it read
    processed,     \* reporting.processed_events
    row,           \* resource_projections: the event last projected
    deadLetters,   \* per event: the services that gave it up
    restarts,
    overtaken      \* history: resources whose row an older event has overwritten

reportVars == <<reports, handling, processed, row, restarts, overtaken>>
vars == <<deliveryVars, bound, outbox, notices, notified, deadLetters, reportVars>>

Services == {"reporting", "notification"}

Free == [event |-> None, read |-> None]

TypeOK ==
    /\ DeliveryTypeOK
    /\ bound \subseteq Services
    /\ outbox \in [Events -> Nat]
    /\ reports \in [Events -> Nat]
    /\ notices \in [Events -> Nat]
    /\ notified \subseteq Events /\ processed \subseteq Events
    /\ handling \in [Handlers -> [event : Events \cup {None}, read : Events \cup {None}]]
    /\ row \in [Resources -> Events \cup {None}]
    /\ deadLetters \in [Events -> SUBSET Services]
    /\ restarts \in 0 .. MaxRestarts
    /\ overtaken \subseteq Resources

Init ==
    /\ DeliveryInit
    /\ bound = {}
    /\ outbox \in Publications
    /\ reports = [e \in Events |-> 0]
    /\ notices = [e \in Events |-> 0]
    /\ notified = {} /\ processed = {}
    /\ handling = [h \in Handlers |-> Free]
    /\ row = [r \in Resources |-> None]
    /\ deadLetters = [e \in Events |-> {}]
    /\ restarts = 0
    /\ overtaken = {}

-----------------------------------------------------------------------------

\* onModuleInit of a service's consumer: its queue is declared and bound.  Both last,
\* whether the service runs or not.
Bind(s) ==
    /\ s \notin bound
    /\ bound' = bound \cup {s}
    /\ UNCHANGED <<deliveryVars, outbox, notices, notified, deadLetters, reportVars>>

\* What a queue holds once event e was routed: it takes e only when bound to its type.
Routed(queue, e, takes) == IF takes THEN [queue EXCEPT ![e] = @ + 1] ELSE queue

\* The outbox publishes an event, for the second time when it had stopped before it
\* noted the first.  The notification queue is bound to the events with a template.  The
\* broker confirms a message that no queue takes, and drops it.
Publish(e) ==
    /\ outbox[e] > 0
    /\ outbox' = [outbox EXCEPT ![e] = @ - 1]
    /\ reports' = Routed(reports, e, "reporting" \in bound)
    /\ notices' = Routed(notices, e, "notification" \in bound /\ Targeted[e] # {})
    /\ UNCHANGED <<deliveryVars, bound, notified, handling, processed, row, deadLetters, restarts,
                   overtaken>>

\* The notification consumer: the rows and the note that the event is processed are
\* one transaction; the note is unique, so messages handled at once have one effect.
Notify(e) ==
    /\ notices[e] > 0
    /\ notices' = [notices EXCEPT ![e] = @ - 1]
    /\ IF e \in notified THEN UNCHANGED <<deliveryVars, notified>>
       ELSE Create(Targeted[e]) /\ notified' = notified \cup {e}
    /\ UNCHANGED <<bound, outbox, deadLetters, reportVars>>

\* No template is approved, or the transaction fails: the message is not requeued.
RejectNotice(e) ==
    /\ notices[e] > 0
    /\ notices' = [notices EXCEPT ![e] = @ - 1]
    /\ deadLetters' = [deadLetters EXCEPT ![e] = @ \cup {"notification"}]
    /\ UNCHANGED <<deliveryVars, bound, outbox, notified, reportVars>>

-----------------------------------------------------------------------------

\* A handler takes a message and reads the event's note and the projection.
Read(h, e) ==
    /\ handling[h] = Free
    /\ reports[e] > 0
    /\ reports' = [reports EXCEPT ![e] = @ - 1]
    /\ handling' = IF e \in processed THEN handling
                   ELSE [handling EXCEPT ![h] = [event |-> e, read |-> row[Resource[e]]]]
    /\ UNCHANGED <<deliveryVars, bound, outbox, notices, notified, deadLetters, processed, row, restarts, overtaken>>

\* Mutated form of Projects: an older event is projected too.
ProjectsAlways(e, read) == TRUE

\* An older event does not overwrite what a newer one has projected.
Projects(e, read) == read # None => OccurredAt[read] <= OccurredAt[e]

\* A unique key refuses a second note of the event, and a second row of the resource.
Refused(e, read) ==
    \/ e \in processed
    \/ read = None /\ row[Resource[e]] # None

\* Event e overwrites a newer one, which was projected after e's handler had read the row.
Overtakes(e, read) ==
    LET current == row[Resource[e]] IN current # read /\ OccurredAt[current] > OccurredAt[e]

\* Event e is as new as any that was processed for its resource.
IsNewest(e) ==
    \A f \in processed : Resource[f] = Resource[e] => OccurredAt[f] <= OccurredAt[e]

\* The resources that show an older event than they have shown, once e is projected.
OvertakenBy(e, read) ==
    IF Overtakes(e, read) THEN overtaken \cup {Resource[e]}
    ELSE IF IsNewest(e) THEN overtaken \ {Resource[e]}
    ELSE overtaken

\* The transaction commits and the message is acknowledged.  If the process stops in
\* between, the message comes once more, as it does when it was published twice.
Commit(h) ==
    LET e == handling[h].event
        read == handling[h].read IN
    /\ handling[h] # Free
    /\ ~Refused(e, read)
    /\ processed' = processed \cup {e}
    /\ IF Projects(e, read)
       THEN row' = [row EXCEPT ![Resource[e]] = e] /\ overtaken' = OvertakenBy(e, read)
       ELSE UNCHANGED <<row, overtaken>>
    /\ handling' = [handling EXCEPT ![h] = Free]
    /\ UNCHANGED <<deliveryVars, bound, outbox, notices, notified, deadLetters, reports, restarts>>

\* The transaction fails: the message is not requeued.
Reject(h) ==
    /\ handling[h] # Free
    /\ deadLetters' = [deadLetters EXCEPT ![handling[h].event] = @ \cup {"reporting"}]
    /\ handling' = [handling EXCEPT ![h] = Free]
    /\ UNCHANGED <<deliveryVars, bound, outbox, notices, notified, reports, processed, row, restarts, overtaken>>

\* Mutated form of Restart: what was not acknowledged is lost.
RestartForgetful ==
    /\ restarts < MaxRestarts
    /\ restarts' = restarts + 1
    /\ handling' = [h \in Handlers |-> Free]
    /\ UNCHANGED <<deliveryVars, bound, outbox, notices, notified, deadLetters, reports, processed, row, overtaken>>

\* Reporting restarts: what it has not acknowledged is delivered again.
Restart ==
    /\ restarts < MaxRestarts
    /\ restarts' = restarts + 1
    /\ reports' = [e \in Events |->
         reports[e] + Cardinality({h \in Handlers : handling[h].event = e})]
    /\ handling' = [h \in Handlers |-> Free]
    /\ UNCHANGED <<deliveryVars, bound, outbox, notices, notified, deadLetters, processed, row, overtaken>>

-----------------------------------------------------------------------------

others == <<bound, outbox, notices, notified, deadLetters, reportVars>>

Next ==
    \/ \E s \in Services : Bind(s)
    \/ \E e \in Events : Publish(e)
    \/ \E e \in Events : Notify(e)
    \/ \E e \in Events : RejectNotice(e)
    \/ \E h \in Handlers, e \in Events : Read(h, e)
    \/ \E h \in Handlers : Commit(h)
    \/ \E h \in Handlers : Reject(h)
    \/ Restart
    \/ \E w \in Workers, d \in Deliveries : Claim(w, d) /\ UNCHANGED others
    \/ \E w \in Workers : Send(w) /\ UNCHANGED others
    \/ \E w \in Workers : FailToSend(w) /\ UNCHANGED others
    \/ \E w \in Workers : LoseSend(w) /\ UNCHANGED others
    \/ \E w \in Workers : SaveDelivered(w) /\ UNCHANGED others
    \/ \E w \in Workers : LoseSaveDelivered(w) /\ UNCHANGED others
    \/ \E w \in Workers : Fail(w) /\ UNCHANGED others
    \/ \E w \in Workers : LoseFail(w) /\ UNCHANGED others
    \/ \E w \in Workers : Abandon(w) /\ UNCHANGED others

Spec == Init /\ [][Next]_vars

\* The handlers run whenever a message waits, and the workers poll every two seconds.
\* Outside the code: a consumer that stopped is started again and finds the broker, to
\* which it connects once; until then nothing takes what waits.
FairSpec ==
    /\ Spec
    /\ \A h \in Handlers :
         /\ WF_vars(\E e \in Events : Read(h, e))
         /\ WF_vars(Commit(h) \/ Reject(h))
    /\ \A w \in Workers : WF_vars(Work(w) /\ UNCHANGED others)

-----------------------------------------------------------------------------
\* Properties

\* The provider is given a delivery at most MaxAttempts times, however replicas, failed
\* saves and stops meet, unless a failure was saved without its worker's knowing.
AttemptsAreBounded == \A d \in Deliveries \ repeated : accepted[d] <= MaxAttempts

\* Replicas do not send a message twice (delivery-dispatch.service.ts:21): the provider
\* takes one more than once only after its answer, or the database's to a save, was lost.
SentTwiceOnlyInDoubt == \A d \in Deliveries : accepted[d] > 1 => d \in doubted \cup repeated

\* A delivery that is to be sent is delivered or given up, unless the worker that had
\* claimed it stopped.
DeliveriesSettle ==
    \A d \in Deliveries :
        delivery[d].status = "PENDING_PROVIDER"
        ~> delivery[d].status \in {"DELIVERED", "FAILED"} \/ Abandoned(d)

\* A projection shows the newest event that was processed for its resource, in whatever
\* order they came.  The one way out is the unlocked read of event-consumer.service.ts:65: an
\* event whose handler read the row before a newer one was projected overwrites that, and the
\* resource lags behind until an event newer than all before is projected.
NewestEventStands ==
    \A e \in processed :
        Resource[e] \notin overtaken => OccurredAt[row[Resource[e]]] >= OccurredAt[e]

\* An event that lies in the reporting queue is processed or given up to the dead-letter
\* exchange, also when reporting restarts while it handles it.
EventsAreReported ==
    \A e \in Events : reports[e] > 0 ~> e \in processed \/ "reporting" \in deadLetters[e]

\* Both consumers keep the promise of EventFlow, from an outbox that has the events: reporting,
\* whose handlers hold what they have taken and read, ...
ReportingFlow == INSTANCE EventFlow WITH
    recorded <- Events,
    transit <- {e \in Events : reports[e] > 0 \/ \E h \in Handlers : handling[h].event = e},
    applied <- processed,
    dead <- {e \in Events : "reporting" \in deadLetters[e]}
ReportingImplementsFlow == ReportingFlow!Spec

\* ... and notification, which applies an event by the rows of its deliveries.
NotificationFlow == INSTANCE EventFlow WITH
    recorded <- Events,
    transit <- {e \in Events : notices[e] > 0},
    applied <- notified,
    dead <- {e \in Events : "notification" \in deadLetters[e]}
NotificationImplementsFlow == NotificationFlow!Spec
=============================================================================
