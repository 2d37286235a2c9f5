-------------------------------- MODULE Outbox --------------------------------
(***************************************************************************)
(* The transactional outbox every service publishes its events with        *)
(* (libs/common/src/rabbit-outbox.ts) and the broker's queue of one        *)
(* consumer.  A handler's transaction writes an event; each replica of the *)
(* service loads the unpublished events every two seconds and publishes    *)
(* them one after the other, and saves the copy it loaded.                 *)
(*                                                                         *)
(* A replica connects once, when it starts.  Without a broker it runs on   *)
(* without a timer.  A channel that closes later stays in its hands and    *)
(* every publish on it throws.                                             *)
(***************************************************************************)
EXTENDS Integers, Sequences, SequencesExt, FiniteSets

CONSTANTS
    Events,             \* events the service may write
    Replicas,           \* processes of the service
    MaxAttempts,        \* failed attempts after which an event is left alone; 10
    MaxCopies           \* bound: copies of one event in the queue

ASSUME OutboxAssumption ==
    /\ IsFiniteSet(Events)
    /\ MaxAttempts \in Nat \ {0}
    /\ MaxCopies \in Nat \ {0}

VARIABLES
    written,            \* outbox_events in the order of createdAt
    publishedAt,        \* the events whose publishedAt is set
    attempts,           \* outbox_events.attempts
    connection,         \* of each replica: its channel and timer
    batch,              \* the entities of publishBatch each replica has yet to save
    brokerUp,           \* RabbitMQ accepts connections
    bound,              \* the consumer's queue exists and is bound to the exchange
    queue,              \* copies of each event that wait in it
    unrouted            \* history: events the broker took, but only when there was no queue

outboxRows == <<written, publishedAt, attempts>>
publisherVars == <<connection, batch, brokerUp>>
queueVars == <<bound, queue, unrouted>>
outboxVars == <<outboxRows, publisherVars, queueVars>>

\* "off" is a replica that is not running, "failed" one that found no broker when it
\* started, "closed" one whose channel has closed.
Connections == {"off", "failed", "open", "closed"}

\* An event as publishBatch holds it: the row it loaded, and whether it was tried.
Entity == [event : Events, attempts : 0 .. MaxAttempts, published : BOOLEAN, tried : BOOLEAN]

WrittenEvents == ToSet(written)

OutboxTypeOK ==
    /\ WrittenEvents \subseteq Events /\ Len(written) = Cardinality(WrittenEvents)
    /\ publishedAt \subseteq WrittenEvents
    /\ attempts \in [Events -> 0 .. MaxAttempts]
    /\ connection \in [Replicas -> Connections]
    /\ \A r \in Replicas : ToSet(batch[r]) \subseteq Entity
    /\ brokerUp \in BOOLEAN
    /\ bound \in BOOLEAN
    /\ queue \in [Events -> 0 .. MaxCopies]
    /\ unrouted \subseteq Events

OutboxInit ==
    /\ written = <<>>
    /\ publishedAt = {}
    /\ attempts = [e \in Events |-> 0]
    /\ connection = [r \in Replicas |-> "off"]
    /\ batch = [r \in Replicas |-> <<>>]
    /\ brokerUp \in BOOLEAN
    /\ bound = FALSE
    /\ queue = [e \in Events |-> 0]
    /\ unrouted = {}

\* A handler's transaction records event e.
WriteEvent(e) ==
    /\ e \notin WrittenEvents
    /\ written' = Append(written, e)

-----------------------------------------------------------------------------
(* Replicas and the broker start and stop.                                 *)

\* onModuleInit: one attempt to connect.
Start(r) ==
    /\ connection[r] = "off"
    /\ connection' = [connection EXCEPT ![r] = IF brokerUp THEN "open" ELSE "failed"]
    /\ UNCHANGED <<outboxRows, batch, brokerUp, queueVars>>

\* A crash or a redeployment, at any point of a batch.  A load or a save that throws is
\* one: nothing awaits publishBatch, and an unhandled rejection ends the process.
Stop(r) ==
    /\ connection[r] # "off"
    /\ connection' = [connection EXCEPT ![r] = "off"]
    /\ batch' = [batch EXCEPT ![r] = <<>>]
    /\ UNCHANGED <<outboxRows, brokerUp, queueVars>>

BrokerStops ==
    /\ brokerUp
    /\ brokerUp' = FALSE
    /\ connection' = [r \in Replicas |-> IF connection[r] = "open" THEN "closed" ELSE connection[r]]
    /\ UNCHANGED <<outboxRows, batch, queueVars>>

BrokerStarts ==
    /\ ~brokerUp
    /\ brokerUp' = TRUE
    /\ UNCHANGED <<outboxRows, connection, batch, queueVars>>

-----------------------------------------------------------------------------
(* publishBatch.                                                           *)

\* Mutated form of Unpublished: an event that failed is not loaded again.
UnpublishedUntried == {e \in WrittenEvents : e \notin publishedAt /\ attempts[e] < 1}

\* The unpublished events with attempts to spare.
Unpublished == {e \in WrittenEvents : e \notin publishedAt /\ attempts[e] < MaxAttempts}

\* ORDER BY createdAt.
OldestFirst(s) ==
    \A i, j \in DOMAIN s : i < j =>
        \E k, l \in DOMAIN written : k < l /\ written[k] = s[i] /\ written[l] = s[j]

\* The timer fires while no batch is under way.
LoadBatch(r) ==
    /\ connection[r] \in {"open", "closed"}
    /\ batch[r] = <<>>
    /\ Unpublished # {}
    /\ \E s \in [1 .. Cardinality(Unpublished) -> Unpublished] :
          /\ OldestFirst(s)
          /\ batch' = [batch EXCEPT ![r] = [i \in DOMAIN s |->
                [event |-> s[i], attempts |-> attempts[s[i]], published |-> FALSE, tried |-> FALSE]]]
    /\ UNCHANGED <<outboxRows, connection, brokerUp, queueVars>>

MayTry(r) == batch[r] # <<>> /\ ~Head(batch[r]).tried

Tried(r, published) ==
    batch' = [batch EXCEPT ![r][1].tried = TRUE, ![r][1].published = published,
                           ![r][1].attempts = IF published THEN @ ELSE @ + 1]

\* The broker takes the message: it copies it to the queue, or drops it when there is none.
Route(e) ==
    /\ \/ /\ bound
          /\ queue[e] < MaxCopies
          /\ queue' = [queue EXCEPT ![e] = @ + 1]
          /\ unrouted' = unrouted \ {e}
       \/ /\ ~bound
          /\ unrouted' = unrouted \cup {e}
          /\ UNCHANGED queue
    /\ UNCHANGED bound

\* The broker takes the message and confirms it, whether a queue gets a copy or not.
Publish(r) ==
    /\ MayTry(r)
    /\ connection[r] = "open"
    /\ Route(Head(batch[r]).event)
    /\ Tried(r, TRUE)
    /\ UNCHANGED <<outboxRows, connection, brokerUp>>

\* The channel is closed, or closes before the broker has taken the message, or after
\* that and before its confirmation has arrived.
PublishFails(r) ==
    /\ MayTry(r)
    /\ \/ connection[r] = "closed" /\ UNCHANGED <<connection, queueVars>>
       \/ /\ connection[r] = "open"
          /\ connection' = [connection EXCEPT ![r] = "closed"]
          /\ Route(Head(batch[r]).event) \/ UNCHANGED queueVars
    /\ Tried(r, FALSE)
    /\ UNCHANGED <<outboxRows, brokerUp>>

\* Mutated form of SaveHead: the event is marked whether or not the broker confirmed it.
SaveHeadAsPublished(r) ==
    /\ batch[r] # <<>> /\ Head(batch[r]).tried
    /\ publishedAt' = publishedAt \cup {Head(batch[r]).event}
    /\ attempts' = [attempts EXCEPT ![Head(batch[r]).event] = Head(batch[r]).attempts]
    /\ batch' = [batch EXCEPT ![r] = Tail(@)]
    /\ UNCHANGED <<written, connection, brokerUp, queueVars>>

\* The copy is saved, over whatever another replica saved meanwhile.
SaveHead(r) ==
    /\ batch[r] # <<>> /\ Head(batch[r]).tried
    /\ LET e == Head(batch[r]).event IN
          /\ publishedAt' = IF Head(batch[r]).published THEN publishedAt \cup {e}
                                                        ELSE publishedAt \ {e}
          /\ attempts' = [attempts EXCEPT ![e] = Head(batch[r]).attempts]
    /\ batch' = [batch EXCEPT ![r] = Tail(@)]
    /\ UNCHANGED <<written, connection, brokerUp, queueVars>>

BrokerStep == BrokerStops \/ BrokerStarts

PublisherStep(r) ==
    \/ Start(r)
    \/ Stop(r)
    \/ LoadBatch(r)
    \/ Publish(r)
    \/ PublishFails(r)
    \/ SaveHead(r)
=============================================================================
